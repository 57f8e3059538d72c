--------------------------- MODULE InstallProofs ---------------------------
(***************************************************************************)
(* Hosts find whole libraries and keep those they run, for any builds that *)
(* install one at a time, any hosts and number of aside names, wherever    *)
(* installs stop.                                                          *)
(***************************************************************************)
EXTENDS Install, TLAPS

\* No two names are of the same file, and nobody runs the partial one.
NamesInv ==
  /\ \A m, n \in Names : dir[m] # NONE /\ dir[m] = dir[n] => m = n
  /\ dir[New] # NONE => ~Held(dir[New])

\* One install runs, the partial file is there for it, the one it copies into,
\* whole once copied, and what it moves away as well.
RunningInv ==
  /\ \A b, c \in Builds : Running(b) /\ Running(c) => b = c
  /\ \A b \in Builds : Running(b) =>
       /\ dir[New] # NONE
       /\ into[b] = dir[New]
       /\ at[b] # "copying" => data[dir[New]] # NONE
       /\ at[b] = "removing" => dir[Target] # NONE
  /\ \A b \in Builds : at[b] = "removing" => Windows

\* On Windows the files hosts run have names.
HeldInv == Windows => \A h \in Hosts : loaded[h] # NONE => \E n \in Names : dir[n] = loaded[h]

Inv == TypeOK /\ NamesInv /\ RunningInv /\ HeldInv /\ FoundIsWhole /\ NeverWithout
-----------------------------------------------------------------------------
LEMMA NamesAre ==
  /\ Target \in Names /\ New \in Names /\ Target # New
  /\ \A n \in 0..Last : n \in Names /\ n # Target /\ n # New
BY InstallAssumption DEF InstallAssumption, Names, Target, New

LEMMA InvInit == Init => Inv
<1> SUFFICES ASSUME Init PROVE Inv
  OBVIOUS
<1> USE DEF Init
<1>1. TypeOK
  BY InstallAssumption DEF TypeOK, InstallAssumption
<1>2. \A n \in Names : dir[n] = NONE
  OBVIOUS
<1>3. NamesInv /\ HeldInv
  BY <1>2, NamesAre DEF NamesInv, HeldInv
<1>4. RunningInv
  BY DEF RunningInv, Running
<1>5. FoundIsWhole
  BY <1>2, NamesAre, InstallAssumption DEF FoundIsWhole, Held, InstallAssumption
<1>6. NeverWithout
  BY DEF NeverWithout
<1> QED BY <1>1, <1>3, <1>4, <1>5, <1>6 DEF Inv

\* A rename that is not refused gives one file another name, and takes the
\* name of one nobody runs.
LEMMA RenamedKeeps ==
  ASSUME TypeOK, NamesInv, HeldInv, NEW from \in Names, NEW to \in Names, from # to,
         to # New, dir[from] # NONE, ~Refused(from, to), dir' = Renamed(from, to), loaded' = loaded
  PROVE  /\ dir' \in [Names -> Files \cup {NONE}]
         /\ dir'[to] = dir[from] /\ dir'[from] = NONE
         /\ \A n \in Names \ {from, to} : dir'[n] = dir[n]
         /\ NamesInv' /\ HeldInv'
<1>1. /\ dir' \in [Names -> Files \cup {NONE}]
      /\ dir'[to] = dir[from] /\ dir'[from] = NONE
      /\ \A n \in Names \ {from, to} : dir'[n] = dir[n]
  BY DEF TypeOK, Renamed
<1>2. NamesInv'
  <2>1. \A m, n \in Names : dir'[m] # NONE /\ dir'[m] = dir'[n] => m = n
    BY <1>1 DEF NamesInv
  <2>2. dir'[New] # NONE => dir'[New] = dir[New]
    BY <1>1, NamesAre
  <2> QED BY <2>1, <2>2 DEF NamesInv, Held
<1>3. HeldInv'
  <2> SUFFICES ASSUME Windows, NEW h \in Hosts, loaded[h] # NONE
               PROVE  \E n \in Names : dir'[n] = loaded[h]
    BY DEF HeldInv
  <2>1. PICK n \in Names : dir[n] = loaded[h]
    BY DEF HeldInv
  <2>2. n # to
    BY <2>1 DEF Refused, Held
  <2>3. CASE n = from
    BY <1>1, <2>1, <2>3
  <2>4. CASE n # from
    BY <1>1, <2>1, <2>2, <2>4
  <2> QED BY <2>3, <2>4
<1> QED BY <1>1, <1>2, <1>3

LEMMA InvCopy == ASSUME ~AtOnce PROVE \A b \in Builds : Inv /\ Copy(b) => Inv'
<1> SUFFICES ASSUME NEW b \in Builds, Inv, Copy(b) PROVE Inv'
  OBVIOUS
<1> USE DEF Inv
<1>1. PICK f \in Files : /\ IF dir[New] = NONE THEN Unused(f) ELSE f = dir[New]
                         /\ dir' = [dir EXCEPT ![New] = f]
                         /\ data' = [data EXCEPT ![f] = NONE]
                         /\ into' = [into EXCEPT ![b] = f]
  BY DEF Copy
<1>2. /\ at[b] = "start" /\ b \notin stopped /\ \A c \in Builds : ~Running(c)
      /\ at' = [at EXCEPT ![b] = "copying"]
      /\ next' = next /\ stopped' = stopped /\ loaded' = loaded
  BY DEF Copy, Go, MayBegin
<1>3. TypeOK'
  BY <1>1, <1>2 DEF TypeOK
<1>4. /\ dir'[New] = f /\ f # NONE /\ ~Held(f)
      /\ \A n \in Names \ {New} : dir'[n] = dir[n] /\ dir[n] # f
  BY <1>1, NamesAre, InstallAssumption DEF TypeOK, NamesInv, Unused, InstallAssumption
<1>5. NamesInv'
  BY <1>2, <1>4, NamesAre DEF NamesInv, Held
<1>6. /\ \A c \in Builds : Running(c)' <=> c = b
      /\ at'[b] = "copying" /\ \A c \in Builds \ {b} : at'[c] = at[c]
  BY <1>2 DEF TypeOK, Running
<1>7. RunningInv'
  BY <1>1, <1>4, <1>6 DEF RunningInv, TypeOK
<1>8. HeldInv'
  <2> SUFFICES ASSUME Windows, NEW h \in Hosts, loaded[h] # NONE
               PROVE  \E n \in Names : dir'[n] = loaded[h]
    BY <1>2 DEF HeldInv
  <2>1. PICK n \in Names : dir[n] = loaded[h]
    BY DEF HeldInv
  <2>2. n # New
    BY <2>1 DEF NamesInv, Held
  <2> QED BY <1>4, <2>1, <2>2
<1>9. FoundIsWhole'
  <2> SUFFICES ASSUME NEW g \in Files, g = dir'[Target] \/ Held(g) PROVE data'[g] # NONE
    BY <1>2 DEF FoundIsWhole, Held
  <2>1. g # f /\ dir'[Target] = dir[Target]
    BY <1>4, NamesAre
  <2>2. data'[g] = data[g]
    BY <1>1, <2>1 DEF TypeOK
  <2> QED BY <2>1, <2>2 DEF FoundIsWhole
<1>10. NeverWithout'
  <2>1. dir'[Target] = dir[Target]
    BY <1>4, NamesAre
  <2> QED BY <1>2, <1>6, <2>1 DEF NeverWithout
<1> QED BY <1>3, <1>5, <1>7, <1>8, <1>9, <1>10

LEMMA InvCopied == ASSUME ~AtOnce PROVE \A b \in Builds : Inv /\ Copied(b) => Inv'
<1> SUFFICES ASSUME NEW b \in Builds, Inv, Copied(b) PROVE Inv'
  OBVIOUS
<1> USE DEF Inv
<1>a. /\ at[b] = "copying" /\ b \notin stopped
      /\ at' = [at EXCEPT ![b] = IF Windows /\ dir[Target] # NONE THEN "removing" ELSE "renaming"]
      /\ next' = next /\ into' = into /\ stopped' = stopped /\ dir' = dir /\ loaded' = loaded
  BY DEF Copied, Go
<1>2. Running(b) /\ dir[New] \in Files /\ into[b] = dir[New]
  BY <1>a, NamesAre DEF Running, RunningInv, TypeOK
<1>b. ~Shared(b)
  BY DEF Shared
<1>1. /\ at[b] = "copying" /\ b \notin stopped
      /\ data' = [data EXCEPT ![dir[New]] = b]
      /\ at' = [at EXCEPT ![b] = IF Windows /\ dir[Target] # NONE THEN "removing" ELSE "renaming"]
      /\ next' = next /\ into' = into /\ stopped' = stopped /\ dir' = dir /\ loaded' = loaded
  BY <1>a, <1>2, <1>b DEF Copied
<1>3. TypeOK'
  BY <1>1, <1>2 DEF TypeOK
<1>4. NamesInv' /\ HeldInv'
  BY <1>1 DEF NamesInv, HeldInv, Held
<1>5. data'[dir[New]] = b /\ b # NONE /\ \A g \in Files : g # dir[New] => data'[g] = data[g]
  BY <1>1, <1>2, InstallAssumption DEF TypeOK, InstallAssumption
<1>6. at'[b] \in {"removing", "renaming"} /\ \A c \in Builds \ {b} : at'[c] = at[c]
  BY <1>1 DEF TypeOK
<1>7. \A c \in Builds : Running(c)' <=> Running(c)
  BY <1>1, <1>2, <1>6 DEF Running
<1>8. RunningInv'
  <2>1. \A c \in Builds : at'[c] = "removing" => Windows
    BY <1>1 DEF RunningInv, TypeOK
  <2>2. \A c \in Builds : Running(c) => c = b
    BY <1>2 DEF RunningInv
  <2> QED BY <1>1, <1>2, <1>5, <1>7, <2>1, <2>2, InstallAssumption
          DEF RunningInv, InstallAssumption
<1>9. FoundIsWhole'
  BY <1>1, <1>5 DEF FoundIsWhole, Held
<1>10. NeverWithout'
  BY <1>1, <1>6 DEF NeverWithout
<1> QED BY <1>3, <1>4, <1>8, <1>9, <1>10

LEMMA InvRemove == \A b \in Builds : Inv /\ Remove(b) => Inv'
<1> SUFFICES ASSUME NEW b \in Builds, Inv, Remove(b) PROVE Inv'
  OBVIOUS
<1> USE DEF Inv
<1> DEFINE n == next[b]
           kept == dir[n] # NONE /\ Held(dir[n])
<1>1. /\ at[b] = "removing" /\ b \notin stopped /\ n < Last
      /\ dir' = [dir EXCEPT ![n] = IF kept THEN dir[n] ELSE NONE]
      /\ next' = [next EXCEPT ![b] = n + 1]
      /\ at' = at /\ into' = into /\ stopped' = stopped /\ data' = data /\ loaded' = loaded
  BY DEF Remove
<1>2. n \in 0..Last /\ n + 1 \in 0..Last /\ n \in Names /\ n # Target /\ n # New
  BY <1>1, NamesAre, InstallAssumption DEF TypeOK, InstallAssumption
<1> HIDE DEF n, kept
<1>3. /\ dir'[Target] = dir[Target] /\ dir'[New] = dir[New]
      /\ dir'[n] = IF kept THEN dir[n] ELSE NONE
      /\ \A m \in Names \ {n} : dir'[m] = dir[m]
  BY <1>1, <1>2, NamesAre DEF TypeOK
<1>4. TypeOK'
  BY <1>1, <1>2 DEF TypeOK
<1>5. NamesInv'
  BY <1>1, <1>2, <1>3 DEF NamesInv, Held
<1>6. HeldInv'
  <2> SUFFICES ASSUME Windows, NEW h \in Hosts, loaded[h] # NONE
               PROVE  \E m \in Names : dir'[m] = loaded[h]
    BY <1>1 DEF HeldInv
  <2>1. PICK m \in Names : dir[m] = loaded[h]
    BY DEF HeldInv
  <2>2. CASE m = n
    <3>1. kept
      BY <2>1, <2>2 DEF kept, Held
    <3> QED BY <1>3, <2>1, <2>2, <3>1
  <2>3. CASE m # n
    BY <1>3, <2>1, <2>3
  <2> QED BY <2>2, <2>3
<1>7. RunningInv' /\ NeverWithout' /\ FoundIsWhole'
  BY <1>1, <1>3 DEF RunningInv, Running, NeverWithout, FoundIsWhole, Held
<1> QED BY <1>4, <1>5, <1>6, <1>7

LEMMA InvStepAside == \A b \in Builds : Inv /\ StepAside(b) => Inv'
<1> SUFFICES ASSUME NEW b \in Builds, Inv, StepAside(b) PROVE Inv'
  OBVIOUS
<1> USE DEF Inv
<1>1. /\ at[b] = "removing" /\ b \notin stopped
      /\ next' = next /\ into' = into /\ stopped' = stopped /\ data' = data /\ loaded' = loaded
  BY DEF StepAside
<1>2. PICK to \in 0..Last : IF Refused(Target, to) THEN at' = [at EXCEPT ![b] = "failed"] /\ dir' = dir
                            ELSE /\ at' = [at EXCEPT ![b] = "renaming"]
                                 /\ dir' = Renamed(Target, to)
  BY DEF StepAside, Go
<1>3. Running(b) /\ Windows
  BY <1>1 DEF Running, RunningInv
<1>4. CASE Refused(Target, to)
  <2>1. at' = [at EXCEPT ![b] = "failed"] /\ dir' = dir
    BY <1>2, <1>4
  <2>2. TypeOK' /\ NamesInv' /\ HeldInv' /\ FoundIsWhole'
    BY <1>1, <2>1 DEF TypeOK, NamesInv, HeldInv, FoundIsWhole, Held
  <2>3. at'[b] = "failed" /\ \A c \in Builds \ {b} : at'[c] = at[c]
    BY <2>1 DEF TypeOK
  <2>4. RunningInv'
    BY <1>1, <2>1, <2>3 DEF RunningInv, Running
  <2>5. NeverWithout'
    BY <1>1, <2>1, <2>3 DEF NeverWithout
  <2> QED BY <2>2, <2>4, <2>5
<1>5. CASE ~Refused(Target, to)
  <2>1. at' = [at EXCEPT ![b] = "renaming"] /\ dir' = Renamed(Target, to)
    BY <1>2, <1>5
  <2>2. at'[b] = "renaming" /\ \A c \in Builds \ {b} : at'[c] = at[c]
    BY <2>1 DEF TypeOK
  <2>3. to \in Names /\ to # Target /\ to # New /\ Target \in Names /\ New \in Names /\ Target # New
    BY NamesAre
  <2>4. /\ dir' \in [Names -> Files \cup {NONE}]
        /\ dir'[Target] = NONE /\ dir'[New] = dir[New]
        /\ NamesInv' /\ HeldInv'
    <3>1. CASE dir[Target] # NONE
      BY <1>1, <1>5, <2>1, <2>3, <3>1, RenamedKeeps
    <3>2. CASE dir[Target] = NONE
      BY <1>1, <1>3, <3>2 DEF RunningInv
    <3> QED BY <3>1, <3>2
  <2>5. TypeOK'
    BY <1>1, <2>1, <2>4 DEF TypeOK
  <2>6. RunningInv'
    <3>1. \A c \in Builds : Running(c)' <=> Running(c)
      BY <1>1, <1>3, <2>2 DEF Running
    <3> QED BY <1>1, <1>3, <2>2, <2>4, <3>1 DEF RunningInv
  <2>7. FoundIsWhole'
    BY <1>1, <2>4, InstallAssumption DEF FoundIsWhole, Held, InstallAssumption
  <2>8. NeverWithout'
    BY <1>3, <2>2 DEF NeverWithout
  <2> QED BY <2>4, <2>5, <2>6, <2>7, <2>8
<1> QED BY <1>4, <1>5

LEMMA InvRename == \A b \in Builds : Inv /\ Rename(b) => Inv'
<1> SUFFICES ASSUME NEW b \in Builds, Inv, Rename(b) PROVE Inv'
  OBVIOUS
<1> USE DEF Inv
<1>1. /\ at[b] = "renaming" /\ b \notin stopped
      /\ next' = next /\ into' = into /\ stopped' = stopped /\ data' = data /\ loaded' = loaded
  BY DEF Rename
<1>2. /\ Running(b) /\ dir[New] # NONE /\ data[dir[New]] # NONE
      /\ \A c \in Builds : Running(c) => c = b
  BY <1>1 DEF Running, RunningInv
<1>3. CASE Refused(New, Target)
  <2>1. at' = [at EXCEPT ![b] = "failed"] /\ dir' = dir
    BY <1>3 DEF Rename, Go
  <2>2. TypeOK' /\ NamesInv' /\ HeldInv' /\ FoundIsWhole'
    BY <1>1, <2>1 DEF TypeOK, NamesInv, HeldInv, FoundIsWhole, Held
  <2>3. at'[b] = "failed" /\ \A c \in Builds \ {b} : at'[c] = at[c]
    BY <2>1 DEF TypeOK
  <2>4. RunningInv'
    BY <1>1, <2>1, <2>3 DEF RunningInv, Running
  <2>5. NeverWithout'
    BY <1>2, <1>3, <2>1, <2>3 DEF NeverWithout, Refused, TypeOK
  <2> QED BY <2>2, <2>4, <2>5
<1>4. CASE ~Refused(New, Target)
  <2>1. at' = [at EXCEPT ![b] = "done"] /\ dir' = Renamed(New, Target)
    BY <1>4 DEF Rename, Go
  <2>2. at'[b] = "done" /\ \A c \in Builds \ {b} : at'[c] = at[c]
    BY <2>1 DEF TypeOK
  <2>3. /\ dir' \in [Names -> Files \cup {NONE}]
        /\ dir'[Target] = dir[New]
        /\ NamesInv' /\ HeldInv'
    BY <1>1, <1>2, <1>4, <2>1, NamesAre, RenamedKeeps
  <2>4. TypeOK'
    BY <1>1, <2>1, <2>3 DEF TypeOK
  <2>5. RunningInv'
    <3>1. \A c \in Builds : ~Running(c)'
      BY <1>1, <1>2, <2>2 DEF Running
    <3> QED BY <2>2, <3>1 DEF RunningInv
  <2>6. FoundIsWhole'
    BY <1>1, <1>2, <2>3 DEF FoundIsWhole, Held
  <2>7. NeverWithout'
    BY <1>2, <2>3 DEF NeverWithout
  <2> QED BY <2>3, <2>4, <2>5, <2>6, <2>7
<1> QED BY <1>3, <1>4

LEMMA InvNext == ASSUME ~AtOnce PROVE Inv /\ [Next]_vars => Inv'
<1> SUFFICES ASSUME Inv, [Next]_vars PROVE Inv'
  OBVIOUS
<1>1. ASSUME NEW b \in Builds, Copy(b) PROVE Inv'
  BY <1>1, InvCopy
<1>2. ASSUME NEW b \in Builds, Copied(b) PROVE Inv'
  BY <1>2, InvCopied
<1>3. ASSUME NEW b \in Builds, Remove(b) PROVE Inv'
  BY <1>3, InvRemove
<1>4. ASSUME NEW b \in Builds, StepAside(b) PROVE Inv'
  BY <1>4, InvStepAside
<1>5. ASSUME NEW b \in Builds, Rename(b) PROVE Inv'
  BY <1>5, InvRename
<1> USE DEF Inv
<1>6. ASSUME NEW b \in Builds, Stop(b) PROVE Inv'
  <2>1. /\ stopped' = stopped \cup {b}
        /\ at' = at /\ next' = next /\ into' = into /\ dir' = dir /\ data' = data /\ loaded' = loaded
    BY <1>6 DEF Stop
  <2>2. TypeOK' /\ NamesInv' /\ HeldInv' /\ FoundIsWhole' /\ NeverWithout'
    BY <2>1 DEF TypeOK, NamesInv, HeldInv, FoundIsWhole, NeverWithout, Held
  <2>3. RunningInv'
    BY <2>1 DEF RunningInv, Running
  <2> QED BY <2>2, <2>3
<1>7. ASSUME NEW h \in Hosts, Load(h) PROVE Inv'
  <2>1. /\ dir[Target] # NONE /\ loaded' = [loaded EXCEPT ![h] = dir[Target]]
        /\ at' = at /\ next' = next /\ into' = into /\ stopped' = stopped /\ dir' = dir /\ data' = data
    BY <1>7 DEF Load
  <2>2. dir[Target] \in Files /\ dir[Target] # dir[New]
    BY <2>1, NamesAre DEF TypeOK, NamesInv
  <2>3. loaded'[h] = dir[Target] /\ \A g \in Hosts \ {h} : loaded'[g] = loaded[g]
    BY <2>1 DEF TypeOK
  <2>4. TypeOK'
    BY <2>1, <2>2 DEF TypeOK
  <2>5. NamesInv'
    BY <2>1, <2>2, <2>3 DEF NamesInv, Held
  <2>6. HeldInv'
    BY <2>1, <2>3, NamesAre DEF HeldInv
  <2>7. FoundIsWhole'
    BY <2>1, <2>3 DEF FoundIsWhole, Held
  <2>8. RunningInv' /\ NeverWithout'
    BY <2>1 DEF RunningInv, Running, NeverWithout
  <2> QED BY <2>4, <2>5, <2>6, <2>7, <2>8
<1>8. ASSUME NEW h \in Hosts, Unload(h) PROVE Inv'
  <2>1. /\ loaded' = [loaded EXCEPT ![h] = NONE]
        /\ at' = at /\ next' = next /\ into' = into /\ stopped' = stopped /\ dir' = dir /\ data' = data
    BY <1>8 DEF Unload
  <2>2. loaded'[h] = NONE /\ \A g \in Hosts \ {h} : loaded'[g] = loaded[g]
    BY <2>1 DEF TypeOK
  <2>3. \A f : f # NONE /\ Held(f)' => Held(f)
    BY <2>2 DEF Held
  <2>4. TypeOK'
    BY <2>1 DEF TypeOK
  <2>5. NamesInv' /\ HeldInv'
    BY <2>1, <2>2, <2>3 DEF NamesInv, HeldInv, Held
  <2>6. FoundIsWhole'
    BY <2>1, <2>3, InstallAssumption DEF FoundIsWhole, Held, InstallAssumption
  <2>7. RunningInv' /\ NeverWithout'
    BY <2>1 DEF RunningInv, Running, NeverWithout
  <2> QED BY <2>4, <2>5, <2>6, <2>7
<1>9. CASE UNCHANGED vars
  BY <1>9 DEF vars, TypeOK, NamesInv, RunningInv, Running, HeldInv, Held, FoundIsWhole, NeverWithout
<1> QED BY <1>1, <1>2, <1>3, <1>4, <1>5, <1>6, <1>7, <1>8, <1>9 DEF Next
-----------------------------------------------------------------------------
LEMMA Invariant == ASSUME ~AtOnce PROVE Spec => []Inv
<1> QED BY InvInit, InvNext, PTL DEF Spec

\* Names, files and places keep their types.
THEOREM TypeCorrect == ASSUME ~AtOnce PROVE Spec => []TypeOK
<1>1. Inv => TypeOK
  BY DEF Inv
<1> QED BY <1>1, Invariant, PTL

\* What hosts find and run is whole, wherever installs stop.
THEOREM FoundCorrect == ASSUME ~AtOnce PROVE Spec => []FoundIsWhole
<1>1. Inv => FoundIsWhole
  BY DEF Inv
<1> QED BY <1>1, Invariant, PTL

\* Once one is installed hosts find one, but for Windows in the step aside.
THEOREM ThereCorrect == ASSUME ~AtOnce PROVE Spec => []NeverWithout
<1>1. Inv => NeverWithout
  BY DEF Inv
<1> QED BY <1>1, Invariant, PTL

\* Nothing is written to a library that a host runs, and on Windows it keeps
\* a name.
THEOREM HostsKeep == ASSUME ~AtOnce PROVE Spec => HostKeeps
<1> DEFINE Keeps == \A h \in Hosts :
             loaded[h] # NONE /\ loaded'[h] = loaded[h] =>
               /\ data'[loaded[h]] = data[loaded[h]]
               /\ Windows => \E n \in Names : dir'[n] = loaded[h]
<1>1. Inv /\ Inv' /\ [Next]_vars => Keeps
  <2> SUFFICES ASSUME Inv, Inv', [Next]_vars, NEW h \in Hosts,
                      loaded[h] # NONE, loaded'[h] = loaded[h]
               PROVE  /\ data'[loaded[h]] = data[loaded[h]]
                      /\ Windows => \E n \in Names : dir'[n] = loaded[h]
    OBVIOUS
  <2>1. Windows => \E n \in Names : dir'[n] = loaded[h]
    BY DEF Inv, HeldInv
  <2>2. data'[loaded[h]] = data[loaded[h]]
    <3>1. CASE data' = data
      BY <3>1
    <3>2. ASSUME NEW b \in Builds, Copy(b) PROVE data'[loaded[h]] = data[loaded[h]]
      <4>1. PICK f \in Files : /\ IF dir[New] = NONE THEN Unused(f) ELSE f = dir[New]
                               /\ data' = [data EXCEPT ![f] = NONE]
        BY <3>2 DEF Copy
      <4>2. loaded[h] # f
        BY <4>1 DEF Inv, NamesInv, Unused, Held
      <4> QED BY <4>1, <4>2 DEF Inv, TypeOK
    <3>3. ASSUME NEW b \in Builds, Copied(b) PROVE data'[loaded[h]] = data[loaded[h]]
      <4>1. Running(b) /\ \E whole : data' = [data EXCEPT ![into[b]] = whole]
        BY <3>3 DEF Copied, Running
      <4>2. loaded[h] # into[b]
        BY <4>1 DEF Inv, NamesInv, RunningInv, Held
      <4> QED BY <4>1, <4>2 DEF Inv, TypeOK
    <3> QED BY <3>1, <3>2, <3>3
            DEF Next, vars, Remove, StepAside, Rename, Stop, Load, Unload
  <2> QED BY <2>1, <2>2
<1>2. [Keeps]_vars <=> [\A h \in Hosts :
       LET f == loaded[h]
       IN f # NONE /\ loaded'[h] = f =>
            /\ data'[f] = data[f]
            /\ Windows => \E n \in Names : dir'[n] = f]_vars
  OBVIOUS
<1> HIDE DEF Keeps
<1> QED BY <1>1, <1>2, Invariant, PTL DEF Spec, HostKeeps
=============================================================================
