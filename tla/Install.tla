------------------------------ MODULE Install ------------------------------
(***************************************************************************)
(* install and step_aside of src/src/build.rs: how a title's library gets  *)
(* where hosts look for it, one build after another, with hosts that load  *)
(* and run what they find and a stop between any two steps.                *)
(*                                                                         *)
(* Builds of a title install one at a time, or at once when AtOnce, which  *)
(* nothing in the code stands against; what Windows does then is left out. *)
(* A stop is a crash, or an error that is not modelled, after which        *)
(* install does nothing more.                                              *)
(***************************************************************************)
EXTENDS Integers, FiniteSets

CONSTANTS
  Builds,    \* bound: the builds that install, each once
  Hosts,     \* bound: those that load libraries
  Files,     \* bound: the files there can be
  Last,      \* 16, the name taken when all names before it are
  Windows,   \* cfg!(windows)
  AtOnce,    \* whether two builds may install at once
  NONE

\* The names of files in the directory: the library's, the one it is copied to,
\* and those old ones are moved away to, from 0 on.
Target == -2
New == -1
Names == {Target, New} \cup 0..Last

ASSUME InstallAssumption ==
  /\ Last \in Nat /\ {Windows, AtOnce} \subseteq BOOLEAN /\ (AtOnce => ~Windows)
  /\ NONE \notin Files \cup Builds

VARIABLES
  at,       \* where each build's install is
  next,     \* the aside name the removing loop of each is at
  into,     \* the file each copies the library into
  stopped,  \* the installs that were stopped where they are
  dir,      \* the file that has a name
  data,     \* the build a file has all of, NONE when it is not whole
  loaded    \* the file a host runs

vars == <<at, next, into, stopped, dir, data, loaded>>

Held(f) == \E h \in Hosts : loaded[h] = f
Running(b) == at[b] \notin {"start", "done", "failed"} /\ b \notin stopped

Init ==
  /\ at = [b \in Builds |-> "start"]
  /\ next = [b \in Builds |-> 0]
  /\ into = [b \in Builds |-> NONE]
  /\ stopped = {}
  /\ dir = [n \in Names |-> NONE]
  /\ data = [f \in Files |-> NONE]
  /\ loaded = [h \in Hosts |-> NONE]

Go(b, place) == at' = [at EXCEPT ![b] = place]

MayBegin == AtOnce \/ \A b \in Builds : ~Running(b)
Unused(f) == f \notin {dir[n] : n \in Names} /\ ~Held(f)

\* Mutant: the library is copied to its own name.
CopyInPlace(b) ==
  /\ at[b] = "start" /\ b \notin stopped /\ MayBegin
  /\ \E f \in Files :
       /\ IF dir[Target] = NONE THEN Unused(f) ELSE f = dir[Target]
       /\ dir' = [dir EXCEPT ![Target] = f, ![New] = f]
       /\ data' = [data EXCEPT ![f] = NONE]
       /\ into' = [into EXCEPT ![b] = f]
  /\ Go(b, "copying")
  /\ UNCHANGED <<next, stopped, loaded>>

\* Mutant: the old library steps aside before the new one is copied.
CopyAfterAside(b) ==
  /\ at[b] = "start" /\ b \notin stopped /\ MayBegin
  /\ \E f \in Files :
       /\ IF dir[New] = NONE THEN Unused(f) ELSE f = dir[New]
       /\ dir' = [dir EXCEPT ![New] = f, ![Target] = NONE, ![0] = dir[Target]]
       /\ data' = [data EXCEPT ![f] = NONE]
       /\ into' = [into EXCEPT ![b] = f]
  /\ Go(b, "copying")
  /\ UNCHANGED <<next, stopped, loaded>>

\* The copy opens the partial file, which an install that stopped may have
\* left, and empties it.
Copy(b) ==
  /\ at[b] = "start" /\ b \notin stopped /\ MayBegin
  /\ \E f \in Files :
       /\ IF dir[New] = NONE THEN Unused(f) ELSE f = dir[New]
       /\ dir' = [dir EXCEPT ![New] = f]
       /\ data' = [data EXCEPT ![f] = NONE]
       /\ into' = [into EXCEPT ![b] = f]
  /\ Go(b, "copying")
  /\ UNCHANGED <<next, stopped, loaded>>

\* Another install copies into the same file, or has.
Shared(b) == AtOnce /\ \E c \in Builds \ {b} : into[c] = into[b]

\* Two that copied into one file may leave a mix of both.
Copied(b) ==
  /\ at[b] = "copying" /\ b \notin stopped
  /\ \E whole \in {b} \cup IF Shared(b) THEN {NONE} ELSE {} :
       data' = [data EXCEPT ![into[b]] = whole]
  /\ Go(b, IF Windows /\ dir[Target] # NONE THEN "removing" ELSE "renaming")
  /\ UNCHANGED <<next, into, stopped, dir, loaded>>

\* Windows does not remove a file that is loaded.
Remove(b) ==
  /\ at[b] = "removing" /\ b \notin stopped /\ next[b] < Last
  /\ dir' = [dir EXCEPT ![next[b]] = IF @ # NONE /\ Held(@) THEN @ ELSE NONE]
  /\ next' = [next EXCEPT ![b] = @ + 1]
  /\ UNCHANGED <<at, into, stopped, data, loaded>>

\* What renaming from to to does to the names.  Windows refuses to replace a
\* file that is loaded, and there is nothing to rename when another took it.
Refused(from, to) == dir[from] = NONE \/ (Windows /\ dir[to] # NONE /\ Held(dir[to]))
Renamed(from, to) == [dir EXCEPT ![to] = dir[from], ![from] = NONE]

\* The first aside name that is free, or the last.
StepAside(b) ==
  /\ at[b] = "removing" /\ b \notin stopped /\ next[b] = Last
  /\ \E to \in 0..Last :
       /\ \A n \in 0..to - 1 : dir[n] # NONE
       /\ to # Last => dir[to] = NONE
       /\ IF Refused(Target, to)
          THEN Go(b, "failed") /\ UNCHANGED dir
          ELSE Go(b, "renaming") /\ dir' = Renamed(Target, to)
  /\ UNCHANGED <<next, into, stopped, data, loaded>>

Rename(b) ==
  /\ at[b] = "renaming" /\ b \notin stopped
  /\ IF Refused(New, Target)
     THEN Go(b, "failed") /\ UNCHANGED dir
     ELSE Go(b, "done") /\ dir' = Renamed(New, Target)
  /\ UNCHANGED <<next, into, stopped, data, loaded>>

Stop(b) ==
  /\ Running(b)
  /\ stopped' = stopped \cup {b}
  /\ UNCHANGED <<at, next, into, dir, data, loaded>>

\* A host loads the library installed for its title, and unloads it.
Load(h) ==
  /\ loaded[h] = NONE /\ dir[Target] # NONE
  /\ loaded' = [loaded EXCEPT ![h] = dir[Target]]
  /\ UNCHANGED <<at, next, into, stopped, dir, data>>

Unload(h) ==
  /\ loaded[h] # NONE
  /\ loaded' = [loaded EXCEPT ![h] = NONE]
  /\ UNCHANGED <<at, next, into, stopped, dir, data>>

Next ==
  \/ \E b \in Builds :
       Copy(b) \/ Copied(b) \/ Remove(b) \/ StepAside(b) \/ Rename(b) \/ Stop(b)
  \/ \E h \in Hosts : Load(h) \/ Unload(h)

Spec == Init /\ [][Next]_vars
-----------------------------------------------------------------------------
TypeOK ==
  /\ at \in [Builds -> {"start", "copying", "removing", "renaming", "done", "failed"}]
  /\ next \in [Builds -> 0..Last]
  /\ into \in [Builds -> Files \cup {NONE}]
  /\ stopped \subseteq Builds
  /\ dir \in [Names -> Files \cup {NONE}]
  /\ data \in [Files -> Builds \cup {NONE}]
  /\ loaded \in [Hosts -> Files \cup {NONE}]

\* installed: what hosts find where they look is a whole library, wherever
\* installs were stopped, and so is what they run.
FoundIsWhole ==
  \A f \in Files : f = dir[Target] \/ Held(f) => data[f] # NONE

\* "so that a host running the old one keeps it": while a host runs a
\* library, nothing is written to its file, and on Windows it keeps a name.
HostKeeps ==
  [][\A h \in Hosts :
       LET f == loaded[h]
       IN f # NONE /\ loaded'[h] = f =>
            /\ data'[f] = data[f]
            /\ Windows => \E n \in Names : dir'[n] = f]_vars

\* Once a build is installed hosts find one, whichever installs fail or stop
\* later, but for Windows between the old one's step aside and the new one's
\* name, where there is none for good when the install stops there and no
\* other comes.
NeverWithout ==
  (\E b \in Builds : at[b] = "done") /\ dir[Target] = NONE =>
    Windows /\ \E b \in Builds : at[b] = "renaming"
=============================================================================
