------------------------------ MODULE JobPool ------------------------------
(***************************************************************************)
(* The pool of compilers that turns the generated sources into objects,    *)
(* compile::objects in src/src/compile.rs, and the cancel flag that        *)
(* build::build hands it through the progress callback.                    *)
(*                                                                         *)
(* Every job is a thread that takes the biggest source not yet started,    *)
(* runs a compiler on it, reports how many are done and looks for the      *)
(* next.  The memory the compilers are likely to take and how many run are *)
(* kept under one mutex; a job that may not start sleeps on the condition  *)
(* variable `freed'.  A critical section is one action; what happens       *)
(* outside the mutex (the count, the callback, the stop flag) is split     *)
(* where another thread can come between.                                  *)
(***************************************************************************)
EXTENDS Integers, FiniteSets, Functions

CONSTANTS
  Jobs,      \* the threads scope.spawn starts, one or more
  Sources,   \* the files to compile, numbered as they are listed
  Needs,     \* what the compilers may need for them, in units of memory
  Spare,     \* what may be left of the spare memory after RESERVE
  Unknown,   \* spare_memory() could not tell: no budget
  NoSource   \* a job that holds none

ASSUME JobPoolAssumption ==
  /\ IsFiniteSet(Jobs) /\ Jobs # {}
  /\ IsFiniteSet(Sources) /\ Sources \subseteq Nat
  /\ Needs \subseteq [Sources -> Nat]
  /\ Spare \subseteq Nat
  /\ Unknown \notin Nat
  /\ NoSource \notin Sources

VARIABLES
  need,      \* needs: source -> memory its compiler is likely to take
  budget,    \* budget, or Unknown
  left,      \* the part of order from next on: sources not yet started
  using,     \* state.1: memory the running compilers are counted for
  running,   \* state.2: how many compilers are counted as running
  pc,        \* where each job is
  has,       \* index: the source each job holds
  count,     \* what done.fetch_add returned to each job, plus one
  done,      \* done
  stopped,   \* stopped
  failures,  \* failures
  objects,   \* the sources whose object file is there
  told,      \* the counts progress has heard, a history
  cancel,    \* options.cancel of build::build, set by the host at any time
  late,      \* the jobs that started a compiler since cancel, a history
  outcome    \* "running", or what objects() returned

poolVars == <<left, using, running>>
jobVars == <<pc, has, count>>
endVars == <<done, stopped, failures, objects, told>>
vars == <<need, budget, poolVars, jobVars, endVars, cancel, late, outcome>>

Places == {"look", "asleep", "compile", "count", "report", "stop", "release", "gone"}

\* The places in which a job is counted in using and running.
Holding == {"compile", "count", "report", "stop", "release"}
Holders == {j \in Jobs : pc[j] \in Holding}

\* order is sorted by need, the biggest first and equal ones as listed, so
\* order[next] is this source of those left.
IsNext(s) ==
  \A t \in left : need[t] < need[s] \/ (need[t] = need[s] /\ s <= t)

\* Mutants: what is running decides, without the source that would join it;
\* and no compiler starts alone either when it needs more than the budget.
MayStartLate(s) == running > 0 /\ budget # Unknown => using <= budget
MayStartNever(s) == budget # Unknown => using + need[s] <= budget

\* Whether a compiler for s may start with what is running now.
MayStart(s) ==
  running > 0 /\ budget # Unknown => using + need[s] <= budget
-----------------------------------------------------------------------------
Init ==
  /\ need \in Needs
  /\ budget \in Spare \cup {Unknown}
  /\ left = Sources
  /\ using = 0
  /\ running = 0
  /\ pc = [j \in Jobs |-> "look"]
  /\ has = [j \in Jobs |-> NoSource]
  /\ count = [j \in Jobs |-> 0]
  /\ done = 0
  /\ stopped = FALSE
  /\ failures = {}
  /\ objects = {}
  /\ told = {}
  /\ cancel = FALSE
  /\ late = {}
  /\ outcome = "running"

\* Under the mutex: nothing to start any more.
Leave(j) ==
  /\ pc[j] = "look"
  /\ stopped \/ left = {}
  /\ pc' = [pc EXCEPT ![j] = "gone"]
  /\ UNCHANGED <<need, budget, poolVars, has, count, endVars, cancel, late, outcome>>

\* Mutant: next is not advanced.
StartAgain(j) ==
  /\ pc[j] = "look"
  /\ ~stopped
  /\ \E s \in left :
       /\ IsNext(s)
       /\ MayStart(s)
       /\ using' = using + need[s]
       /\ has' = [has EXCEPT ![j] = s]
  /\ running' = running + 1
  /\ pc' = [pc EXCEPT ![j] = "compile"]
  /\ late' = IF cancel THEN late \cup {j} ELSE late
  /\ UNCHANGED <<need, budget, left, count, endVars, cancel, outcome>>

\* Under the mutex: take the next source and count its compiler in.
Start(j) ==
  /\ pc[j] = "look"
  /\ ~stopped
  /\ \E s \in left :
       /\ IsNext(s)
       /\ MayStart(s)
       /\ left' = left \ {s}
       /\ using' = using + need[s]
       /\ has' = [has EXCEPT ![j] = s]
  /\ running' = running + 1
  /\ pc' = [pc EXCEPT ![j] = "compile"]
  /\ late' = IF cancel THEN late \cup {j} ELSE late
  /\ UNCHANGED <<need, budget, count, endVars, cancel, outcome>>

\* Under the mutex: the next source has to wait for memory. Condvar::wait
\* lets go of the mutex and sleeps in one step.
Sleep(j) ==
  /\ pc[j] = "look"
  /\ ~stopped
  /\ \E s \in left : IsNext(s) /\ ~MayStart(s)
  /\ pc' = [pc EXCEPT ![j] = "asleep"]
  /\ UNCHANGED <<need, budget, poolVars, has, count, endVars, cancel, late, outcome>>

\* A condition variable may wake a thread nobody notified.
WakeSpuriously(j) ==
  /\ pc[j] = "asleep"
  /\ pc' = [pc EXCEPT ![j] = "look"]
  /\ UNCHANGED <<need, budget, poolVars, has, count, endVars, cancel, late, outcome>>

\* The compiler of j ends, well or not.
Compile(j) ==
  /\ pc[j] = "compile"
  /\ \/ objects' = objects \cup {has[j]} /\ UNCHANGED failures
     \/ failures' = failures \cup {has[j]} /\ UNCHANGED objects
  /\ pc' = [pc EXCEPT ![j] = "count"]
  /\ UNCHANGED <<need, budget, poolVars, has, count, done, stopped, told, cancel, late, outcome>>

\* Mutants: the count is loaded and not added to; it is taken down.
CountLoads(j) ==
  /\ pc[j] = "count"
  /\ count' = [count EXCEPT ![j] = done + 1]
  /\ pc' = [pc EXCEPT ![j] = "report"]
  /\ UNCHANGED <<need, budget, poolVars, has, endVars, cancel, late, outcome>>

CountDown(j) ==
  /\ pc[j] = "count"
  /\ done' = done - 1
  /\ count' = [count EXCEPT ![j] = done - 1]
  /\ pc' = [pc EXCEPT ![j] = "report"]
  /\ UNCHANGED <<need, budget, poolVars, has, stopped, failures, objects, told, cancel, late, outcome>>

\* done.fetch_add(1) + 1, before progress hears of it.
Count(j) ==
  /\ pc[j] = "count"
  /\ done' = done + 1
  /\ count' = [count EXCEPT ![j] = done + 1]
  /\ pc' = [pc EXCEPT ![j] = "report"]
  /\ UNCHANGED <<need, budget, poolVars, has, stopped, failures, objects, told, cancel, late, outcome>>

\* progress(done, total), which build::build answers with !stopped().
Report(j) ==
  /\ pc[j] = "report"
  /\ told' = told \cup {count[j]}
  /\ pc' = [pc EXCEPT ![j] = IF cancel THEN "stop" ELSE "release"]
  /\ UNCHANGED <<need, budget, poolVars, has, count, done, stopped, failures, objects, cancel, late, outcome>>

\* Mutant: the answer is not kept.
StopForgotten(j) ==
  /\ pc[j] = "stop"
  /\ pc' = [pc EXCEPT ![j] = "release"]
  /\ UNCHANGED <<need, budget, poolVars, has, count, endVars, cancel, late, outcome>>

\* The answer was no. The flag is set outside the mutex, and before the
\* mutex is taken to wake the sleepers.
Stop(j) ==
  /\ pc[j] = "stop"
  /\ stopped' = TRUE
  /\ pc' = [pc EXCEPT ![j] = "release"]
  /\ UNCHANGED <<need, budget, poolVars, has, count, done, failures, objects, told, cancel, late, outcome>>

\* Mutants: the memory is not given back; the sleepers are not woken.
ReleaseKeeps(j) ==
  /\ pc[j] = "release"
  /\ running' = running - 1
  /\ pc' = [k \in Jobs |-> IF k = j \/ pc[k] = "asleep" THEN "look" ELSE pc[k]]
  /\ has' = [has EXCEPT ![j] = NoSource]
  /\ count' = [count EXCEPT ![j] = 0]
  /\ UNCHANGED <<need, budget, left, using, endVars, cancel, late, outcome>>

ReleaseQuietly(j) ==
  /\ pc[j] = "release"
  /\ using' = using - need[has[j]]
  /\ running' = running - 1
  /\ pc' = [pc EXCEPT ![j] = "look"]
  /\ has' = [has EXCEPT ![j] = NoSource]
  /\ count' = [count EXCEPT ![j] = 0]
  /\ UNCHANGED <<need, budget, left, endVars, cancel, late, outcome>>

\* Under the mutex: count the compiler out and wake every sleeper.
Release(j) ==
  /\ pc[j] = "release"
  /\ using' = using - need[has[j]]
  /\ running' = running - 1
  /\ pc' = [k \in Jobs |-> IF k = j \/ pc[k] = "asleep" THEN "look" ELSE pc[k]]
  /\ has' = [has EXCEPT ![j] = NoSource]
  /\ count' = [count EXCEPT ![j] = 0]
  /\ UNCHANGED <<need, budget, left, endVars, cancel, late, outcome>>

\* Mutant: the failures are told of before the stop.
JoinFailuresFirst ==
  /\ outcome = "running"
  /\ \A j \in Jobs : pc[j] = "gone"
  /\ outcome' = IF failures # {} THEN "failed" ELSE IF stopped THEN "stopped" ELSE "ok"
  /\ UNCHANGED <<need, budget, poolVars, jobVars, endVars, cancel, late>>

\* The scope joins every job, then objects() says what it came to.
Join ==
  /\ outcome = "running"
  /\ \A j \in Jobs : pc[j] = "gone"
  /\ outcome' = IF stopped THEN "stopped" ELSE IF failures # {} THEN "failed" ELSE "ok"
  /\ UNCHANGED <<need, budget, poolVars, jobVars, endVars, cancel, late>>

\* The host cancels the build.
Cancel ==
  /\ ~cancel
  /\ cancel' = TRUE
  /\ UNCHANGED <<need, budget, poolVars, jobVars, endVars, late, outcome>>

\* objects() has returned.
Returned ==
  /\ outcome # "running"
  /\ cancel
  /\ UNCHANGED vars

Job(j) ==
  \/ Leave(j) \/ Start(j) \/ Sleep(j) \/ Compile(j)
  \/ Count(j) \/ Report(j) \/ Stop(j) \/ Release(j)

Next ==
  \/ \E j \in Jobs : Job(j) \/ WakeSpuriously(j)
  \/ Join
  \/ Cancel
  \/ Returned

\* Threads are scheduled and a compiler that runs ends; nobody has to cancel.
Spec == Init /\ [][Next]_vars /\ WF_vars(Join) /\ \A j \in Jobs : WF_vars(Job(j))
-----------------------------------------------------------------------------
(***************************************************************************)
(* What the pool promises.                                                 *)
(***************************************************************************)
TypeOK ==
  /\ need \in Needs
  /\ budget \in Spare \cup {Unknown}
  /\ left \subseteq Sources
  /\ using \in Int
  /\ running \in Int
  /\ pc \in [Jobs -> Places]
  /\ has \in [Jobs -> Sources \cup {NoSource}]
  /\ count \in [Jobs -> Nat]
  /\ done \in Nat
  /\ told \subseteq Nat
  /\ stopped \in BOOLEAN /\ cancel \in BOOLEAN
  /\ failures \subseteq Sources /\ objects \subseteq Sources
  /\ late \subseteq Jobs
  /\ outcome \in {"running", "stopped", "failed", "ok"}

\* A job holds a source exactly while it is counted in; no source is held
\* twice, held and left, or compiled before it was taken (next, index in
\* src/src/compile.rs:219-222).
EachSourceOnce ==
  /\ \A j \in Jobs : has[j] # NoSource <=> pc[j] \in Holding
  /\ \A j \in Jobs : has[j] \notin left
  /\ \A j, k \in Jobs : has[j] = has[k] /\ j # k => has[j] = NoSource
  /\ \A s \in left : s \notin objects \cup failures
  /\ \A s \in objects : s \notin failures
  /\ \A j \in Jobs : pc[j] = "compile" => has[j] \notin objects \cup failures

\* The memory and the compilers counted as in use are those of the jobs that
\* hold a source, so neither counter ever goes below zero (state.1 and
\* state.2, unsigned, are taken down at src/src/compile.rs:258-259).
CompilersCounted == running = Cardinality(Holders)
MemoryCounted ==
  using = SumFunctionOnSet([j \in Jobs |-> IF has[j] = NoSource THEN 0 ELSE need[has[j]]], Jobs)
Ledger == CompilersCounted /\ MemoryCounted

\* Compilers that run side by side fit the budget together; only one that
\* runs alone may take more (docs of objects(), src/src/compile.rs:186-190).
MemoryBound ==
  budget # Unknown /\ running > 1 => using <= budget

\* A sleeping job is never forgotten: some job still holds a source, and it
\* wakes every sleeper when it counts itself out.
SleeperHasWaker ==
  (\E j \in Jobs : pc[j] = "asleep") => Holders # {}

\* What progress hears is never ahead of what is done, and no two calls of it
\* say the same, although the calls themselves come in any order.
ToldIsDone ==
  /\ told \subseteq 1..done
  /\ done <= Cardinality(objects \cup failures)
  /\ \A j, k \in Jobs : count[j] = count[k] /\ j # k => count[j] = 0
  /\ \A j \in Jobs : pc[j] = "report" => count[j] \notin told

\* Once the host cancels, no job starts a second compiler: the first one to
\* end stops the job that ran it and every other that looks for more.
CancelStopsEachJob ==
  [][\A j \in Jobs : Start(j) /\ cancel => j \notin late]_vars

\* What objects() returns: paths only when every source has its object, a
\* list of failures only when every source was tried and some failed, and
\* "stopped" only when the host cancelled.
OutcomeIsRight ==
  /\ outcome = "ok" => objects = Sources
  /\ outcome = "failed" => failures # {} /\ objects \cup failures = Sources
  /\ outcome = "stopped" => cancel
  /\ outcome # "running" => Holders = {}

\* objects() always returns, however little memory there is.
Returns == <>(outcome # "running")
=============================================================================
