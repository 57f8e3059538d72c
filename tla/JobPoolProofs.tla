--------------------------- MODULE JobPoolProofs ---------------------------
(***************************************************************************)
(* Theorems about the compiler pool, for any number of jobs and sources    *)
(* and any memory.                                                         *)
(***************************************************************************)
EXTENDS JobPool, FiniteSetTheorems, WellFoundedInduction, TLAPS

\* The steps of a job and of everything else, as one list of cases.
LEMMA NextCases ==
  ASSUME [Next]_vars
  PROVE  \/ \E j \in Jobs : \/ Leave(j) \/ Start(j) \/ Sleep(j) \/ WakeSpuriously(j)
                            \/ Compile(j) \/ Count(j) \/ Report(j) \/ Stop(j) \/ Release(j)
         \/ Join
         \/ Cancel
         \/ UNCHANGED vars
  BY DEF Next, Job, Returned

\* What using and need are tied to: a job that holds no source holds none of
\* the memory either, so TypeOK and EachSourceOnce are inductive together.
HeldInv == TypeOK /\ EachSourceOnce

LEMMA HeldInit == Init => HeldInv
<1> SUFFICES ASSUME Init PROVE HeldInv
  OBVIOUS
<1> USE JobPoolAssumption DEF JobPoolAssumption
<1>1. TypeOK
  <2>1. need \in Needs /\ budget \in Spare \cup {Unknown} /\ left \subseteq Sources
    BY DEF Init
  <2>2. pc \in [Jobs -> Places] /\ has \in [Jobs -> Sources \cup {NoSource}] /\ count \in [Jobs -> Nat]
    BY DEF Init, Places
  <2>3. using \in Int /\ running \in Int /\ done \in Nat /\ told \subseteq Nat
    BY DEF Init
  <2>4. stopped \in BOOLEAN /\ cancel \in BOOLEAN /\ failures \subseteq Sources /\ objects \subseteq Sources
    BY DEF Init
  <2>5. late \subseteq Jobs /\ outcome \in {"running", "stopped", "failed", "ok"}
    BY DEF Init
  <2>6. QED BY <2>1, <2>2, <2>3, <2>4, <2>5 DEF TypeOK
<1>2. EachSourceOnce
  BY DEF Init, EachSourceOnce, Holding
<1>3. QED BY <1>1, <1>2 DEF HeldInv

LEMMA HeldStep == HeldInv /\ [Next]_vars => HeldInv'
<1> SUFFICES ASSUME TypeOK, EachSourceOnce, [Next]_vars PROVE TypeOK' /\ EachSourceOnce'
  BY DEF HeldInv
<1> USE JobPoolAssumption DEF JobPoolAssumption, TypeOK, EachSourceOnce, Places, Holding, poolVars, jobVars, endVars
<1>1. ASSUME NEW j \in Jobs, Leave(j) PROVE TypeOK' /\ EachSourceOnce'
  BY <1>1 DEF Leave
<1>2. ASSUME NEW j \in Jobs, Start(j) PROVE TypeOK' /\ EachSourceOnce'
  <2>1. PICK s \in left : left' = left \ {s} /\ using' = using + need[s] /\ has' = [has EXCEPT ![j] = s]
    BY <1>2 DEF Start
  <2>2. need[s] \in Nat
    OBVIOUS
  <2>3. TypeOK'
    BY <1>2, <2>1, <2>2 DEF Start
  <2>4. EachSourceOnce'
    BY <1>2, <2>1 DEF Start
  <2>5. QED BY <2>3, <2>4
<1>3. ASSUME NEW j \in Jobs, Sleep(j) PROVE TypeOK' /\ EachSourceOnce'
  BY <1>3 DEF Sleep
<1>4. ASSUME NEW j \in Jobs, WakeSpuriously(j) PROVE TypeOK' /\ EachSourceOnce'
  BY <1>4 DEF WakeSpuriously
<1>5. ASSUME NEW j \in Jobs, Compile(j) PROVE TypeOK' /\ EachSourceOnce'
  <2>1. has[j] \in Sources /\ has[j] \notin objects \cup failures
    BY <1>5 DEF Compile
  <2>2. TypeOK'
    BY <1>5, <2>1 DEF Compile
  <2>3. pc' = [pc EXCEPT ![j] = "count"] /\ has' = has /\ left' = left
    BY <1>5 DEF Compile
  <2>4. \A s : s \in objects' \cup failures' => s \in objects \cup failures \/ s = has[j]
    BY <1>5 DEF Compile
  <2>5. \A s \in objects' : s \notin failures'
    <3>1. CASE objects' = objects \cup {has[j]} /\ failures' = failures
      BY <2>1, <3>1
    <3>2. CASE failures' = failures \cup {has[j]} /\ objects' = objects
      BY <2>1, <3>2
    <3>3. QED BY <1>5, <3>1, <3>2 DEF Compile
  <2>6. ASSUME NEW k \in Jobs, pc'[k] = "compile"
        PROVE  has'[k] \notin objects' \cup failures'
    <3>1. k # j /\ pc[k] = "compile"
      BY <2>3, <2>6
    <3>2. has[k] # has[j] /\ has[k] \notin objects \cup failures
      BY <2>1, <3>1
    <3>3. QED BY <2>3, <2>4, <3>2
  <2>7. \A k \in Jobs : has'[k] # NoSource <=> pc'[k] \in Holding
    BY <1>5, <2>3 DEF Compile
  <2>8. \A s \in left' : s \notin objects' \cup failures'
    BY <2>1, <2>3, <2>4
  <2>9. EachSourceOnce'
    <3>1. \A k \in Jobs : has'[k] \notin left'
      BY <2>3
    <3>2. \A k, l \in Jobs : has'[k] = has'[l] /\ k # l => has'[k] = NoSource
      BY <2>3
    <3>3. QED BY <2>5, <2>6, <2>7, <2>8, <3>1, <3>2 DEF EachSourceOnce
  <2>10. QED BY <2>2, <2>9
<1>6. ASSUME NEW j \in Jobs, Count(j) PROVE TypeOK' /\ EachSourceOnce'
  BY <1>6 DEF Count
<1>7. ASSUME NEW j \in Jobs, Report(j) PROVE TypeOK' /\ EachSourceOnce'
  <2>1. /\ pc' \in [Jobs -> Places] /\ pc[j] = "report" /\ pc'[j] \in {"stop", "release"}
        /\ \A k \in Jobs : k # j => pc'[k] = pc[k]
    BY <1>7 DEF Report
  <2>2. TypeOK'
    <3>1. told' = told \cup {count[j]} /\ count[j] \in Nat
      BY <1>7 DEF Report
    <3>2. QED BY <1>7, <2>1, <3>1 DEF Report
  <2>3. EachSourceOnce'
    BY <1>7, <2>1 DEF Report
  <2>4. QED BY <2>2, <2>3
<1>8. ASSUME NEW j \in Jobs, Stop(j) PROVE TypeOK' /\ EachSourceOnce'
  BY <1>8 DEF Stop
<1>9. ASSUME NEW j \in Jobs, Release(j) PROVE TypeOK' /\ EachSourceOnce'
  <2>1. has[j] \in Sources
    BY <1>9 DEF Release
  <2>2. need \in [Sources -> Nat]
    OBVIOUS
  <2>3. need[has[j]] \in Nat
    BY <2>1, <2>2
  <2>4. TypeOK'
    BY <1>9, <2>1, <2>3 DEF Release
  <2>5. /\ has' = [has EXCEPT ![j] = NoSource] /\ UNCHANGED <<left, objects, failures>>
        /\ \A k \in Jobs : k # j => (pc'[k] \in Holding <=> pc[k] \in Holding)
        /\ \A k \in Jobs : pc'[k] = "compile" => k # j /\ pc[k] = "compile"
        /\ pc'[j] \notin Holding
    BY <1>9 DEF Release
  <2>6. EachSourceOnce'
    BY <2>5
  <2>7. QED BY <2>4, <2>6
<1>10. CASE Join
  BY <1>10 DEF Join
<1>11. CASE Cancel
  BY <1>11 DEF Cancel
<1>12. CASE UNCHANGED vars
  BY <1>12 DEF vars
<1>13. QED
  BY NextCases, <1>1, <1>2, <1>3, <1>4, <1>5, <1>6, <1>7, <1>8, <1>9, <1>10, <1>11, <1>12

LEMMA HeldCorrect == Spec => []HeldInv
BY HeldInit, HeldStep, PTL DEF Spec

\* Every variable keeps its type: the type invariant of the pool.
THEOREM TypeCorrect == Spec => []TypeOK
<1>1. HeldInv => TypeOK
  BY DEF HeldInv
<1>2. QED BY <1>1, HeldCorrect, PTL

\* No source is compiled twice and none that is not left is forgotten.
THEOREM SourcesOnce == Spec => []EachSourceOnce
<1>1. HeldInv => EachSourceOnce
  BY DEF HeldInv
<1>2. QED BY <1>1, HeldCorrect, PTL
-----------------------------------------------------------------------------
\* The counter of running compilers is the number of jobs that hold a source.
\* What a step does to the set of holders decides it.
LEMMA HoldersFinite ==
  IsFiniteSet(Holders) /\ Cardinality(Holders) \in Nat
  <1>1. Holders \subseteq Jobs
    BY DEF Holders
  <1>2. IsFiniteSet(Holders)
    BY <1>1, JobPoolAssumption, FS_Subset DEF JobPoolAssumption
  <1>3. QED BY <1>2, FS_CardinalityType

\* running never drifts from the compilers there are, so it never goes below
\* zero and running = 0 means that nobody compiles.
THEOREM CountCorrect == Spec => []CompilersCounted
<1>1. Init => CompilersCounted
  <2>1. Init => Holders = {} /\ running = 0
    BY DEF Init, Holders, Holding
  <2>2. QED BY <2>1, FS_EmptySet DEF CompilersCounted
<1>2. HeldInv /\ CompilersCounted /\ [Next]_vars => CompilersCounted'
  <2> SUFFICES ASSUME TypeOK, EachSourceOnce, CompilersCounted, [Next]_vars
               PROVE  CompilersCounted'
    BY DEF HeldInv
  <2> USE DEF Holding, Places
  <2>0. pc \in [Jobs -> Places]
    BY DEF TypeOK
  <2>1. ASSUME Holders' = Holders, running' = running PROVE CompilersCounted'
    BY <2>1 DEF CompilersCounted
  <2>2. ASSUME NEW j \in Jobs, Start(j) PROVE CompilersCounted'
    <3>1. j \notin Holders /\ Holders' = Holders \cup {j}
      BY <2>0, <2>2 DEF Start, Holders
    <3>2. Cardinality(Holders') = Cardinality(Holders) + 1
      BY <3>1, HoldersFinite, FS_AddElement
    <3>3. running' = running + 1
      BY <2>2 DEF Start
    <3>4. QED BY <3>2, <3>3 DEF CompilersCounted
  <2>3. ASSUME NEW j \in Jobs, Release(j) PROVE CompilersCounted'
    <3>1. j \in Holders /\ Holders' = Holders \ {j}
      BY <2>0, <2>3 DEF Release, Holders
    <3>2. Cardinality(Holders') = Cardinality(Holders) - 1
      BY <3>1, HoldersFinite, FS_RemoveElement
    <3>3. running' = running - 1
      BY <2>3 DEF Release
    <3>4. QED BY <3>2, <3>3 DEF CompilersCounted
  <2>4. ASSUME NEW j \in Jobs, Leave(j) \/ Sleep(j) \/ WakeSpuriously(j) PROVE CompilersCounted'
    <3>1. Holders' = Holders
      BY <2>0, <2>4 DEF Leave, Sleep, WakeSpuriously, Holders
    <3>2. running' = running
      BY <2>4 DEF Leave, Sleep, WakeSpuriously, poolVars
    <3>3. QED BY <2>1, <3>1, <3>2
  <2>5. ASSUME NEW j \in Jobs, Compile(j) \/ Count(j) \/ Report(j) \/ Stop(j) PROVE CompilersCounted'
    <3>1. /\ pc' \in [Jobs -> Places] /\ pc[j] \in Holding /\ pc'[j] \in Holding
          /\ \A k \in Jobs : k # j => pc'[k] = pc[k]
      BY <2>0, <2>5 DEF Compile, Count, Report, Stop
    <3>2. Holders' = Holders
      BY <3>1 DEF Holders
    <3>3. running' = running
      BY <2>5 DEF Compile, Count, Report, Stop, poolVars
    <3>4. QED BY <2>1, <3>2, <3>3
  <2>6. CASE Join \/ Cancel \/ UNCHANGED vars
    <3>1. Holders' = Holders /\ running' = running
      BY <2>6 DEF Join, Cancel, vars, jobVars, poolVars, Holders
    <3>2. QED BY <2>1, <3>1
  <2>7. QED BY NextCases, <2>2, <2>3, <2>4, <2>5, <2>6
<1>3. QED BY <1>1, <1>2, HeldCorrect, PTL DEF Spec

\* Compilers that run side by side never take more than the budget together.
THEOREM MemoryCorrect == Spec => []MemoryBound
<1>1. Init => MemoryBound
  BY DEF Init, MemoryBound
<1>2. HeldInv /\ HeldInv' /\ MemoryBound /\ [Next]_vars => MemoryBound'
  <2> SUFFICES ASSUME TypeOK, EachSourceOnce, TypeOK', MemoryBound, [Next]_vars
               PROVE  MemoryBound'
    BY DEF HeldInv
  <2>1. budget' = budget /\ using \in Int /\ running \in Int
    BY NextCases DEF TypeOK, Leave, Start, Sleep, WakeSpuriously, Compile, Count, Report,
                     Stop, Release, Join, Cancel, vars
  <2>2. budget # Unknown => budget \in Nat
    BY JobPoolAssumption DEF JobPoolAssumption, TypeOK
  <2>3. ASSUME NEW j \in Jobs, Start(j) PROVE MemoryBound'
    <3>1. PICK s \in left : MayStart(s) /\ using' = using + need[s]
      BY <2>3 DEF Start
    <3>2. running' = running + 1
      BY <2>3 DEF Start
    <3>3. QED BY <2>1, <3>1, <3>2 DEF MayStart, MemoryBound
  <2>4. ASSUME NEW j \in Jobs, Release(j) PROVE MemoryBound'
    <3>1. has[j] \in Sources
      BY <2>4 DEF Release, TypeOK, EachSourceOnce, Holding
    <3>2. need \in [Sources -> Nat]
      BY JobPoolAssumption DEF JobPoolAssumption, TypeOK
    <3>3. need[has[j]] \in Nat
      BY <3>1, <3>2
    <3>4. using' = using - need[has[j]] /\ running' = running - 1
      BY <2>4 DEF Release
    <3>5. QED BY <2>1, <2>2, <3>3, <3>4 DEF MemoryBound
  <2>5. CASE \E j \in Jobs : \/ Leave(j) \/ Sleep(j) \/ WakeSpuriously(j)
                            \/ Compile(j) \/ Count(j) \/ Report(j) \/ Stop(j)
    BY <2>1, <2>5 DEF MemoryBound, Leave, Sleep, WakeSpuriously, Compile, Count, Report, Stop, poolVars
  <2>6. CASE Join \/ Cancel \/ UNCHANGED vars
    BY <2>1, <2>6 DEF MemoryBound, Join, Cancel, vars, poolVars
  <2>7. QED BY NextCases, <2>3, <2>4, <2>5, <2>6
<1>3. QED BY <1>1, <1>2, HeldCorrect, PTL DEF Spec

\* A job never sleeps while nobody is left to wake it.
THEOREM WakeupCorrect == Spec => []SleeperHasWaker
<1>1. Init => SleeperHasWaker
  BY DEF Init, SleeperHasWaker
<1>2. HeldInv /\ CompilersCounted /\ SleeperHasWaker /\ [Next]_vars => SleeperHasWaker'
  <2> SUFFICES ASSUME TypeOK, CompilersCounted, SleeperHasWaker, [Next]_vars
               PROVE  SleeperHasWaker'
    BY DEF HeldInv
  <2> USE DEF Holding, Places
  <2>0. pc \in [Jobs -> Places]
    BY DEF TypeOK
  <2>1. ASSUME NEW j \in Jobs, Sleep(j) PROVE SleeperHasWaker'
    <3>1. running > 0
      BY <2>1 DEF Sleep, MayStart
    <3>2. Holders # {}
      BY <3>1, FS_EmptySet DEF CompilersCounted
    <3>3. PICK k \in Jobs : pc[k] \in Holding
      BY <3>2 DEF Holders
    <3>4. pc'[k] \in Holding
      BY <2>0, <2>1, <3>3 DEF Sleep
    <3>5. QED BY <3>4 DEF SleeperHasWaker, Holders
  <2>2. ASSUME NEW j \in Jobs, Release(j) PROVE SleeperHasWaker'
    <3>1. \A k \in Jobs : pc'[k] # "asleep"
      BY <2>0, <2>2 DEF Release
    <3>2. QED BY <3>1 DEF SleeperHasWaker
  <2>3. ASSUME NEW j \in Jobs, Leave(j) \/ WakeSpuriously(j) \/ Start(j) PROVE SleeperHasWaker'
    <3>1. /\ pc[j] \notin Holding /\ pc'[j] # "asleep"
          /\ \A k \in Jobs : k # j => pc'[k] = pc[k]
      BY <2>0, <2>3 DEF Leave, WakeSpuriously, Start
    <3>2. QED BY <3>1 DEF SleeperHasWaker, Holders
  <2>4. ASSUME NEW j \in Jobs, Compile(j) \/ Count(j) \/ Report(j) \/ Stop(j) PROVE SleeperHasWaker'
    <3>1. /\ pc'[j] \in Holding
          /\ \A k \in Jobs : k # j => pc'[k] = pc[k]
      BY <2>0, <2>4 DEF Compile, Count, Report, Stop
    <3>2. QED BY <3>1 DEF SleeperHasWaker, Holders
  <2>5. CASE Join \/ Cancel \/ UNCHANGED vars
    BY <2>5 DEF SleeperHasWaker, Holders, Join, Cancel, vars, jobVars
  <2>6. QED BY NextCases, <2>1, <2>2, <2>3, <2>4, <2>5
<1>3. QED BY <1>1, <1>2, HeldCorrect, CountCorrect, PTL DEF Spec
-----------------------------------------------------------------------------
\* A job that started a compiler after the host cancelled either still holds
\* that source or has left the flag set behind it.
LateInv ==
  \A j \in late : cancel /\ (pc[j] \in {"compile", "count", "report", "stop"} \/ stopped)

LEMMA LateStep == TypeOK /\ LateInv /\ [Next]_vars => LateInv'
<1> SUFFICES ASSUME TypeOK, LateInv, [Next]_vars PROVE LateInv'
  OBVIOUS
<1>0. pc \in [Jobs -> Places] /\ late \subseteq Jobs /\ cancel \in BOOLEAN /\ stopped \in BOOLEAN
  BY DEF TypeOK
<1> USE <1>0 DEF LateInv, Places
<1>1. ASSUME NEW j \in Jobs, Start(j) PROVE LateInv'
  BY <1>1 DEF Start, endVars
<1>2. ASSUME NEW j \in Jobs, Leave(j) \/ Sleep(j) \/ WakeSpuriously(j) PROVE LateInv'
  BY <1>2 DEF Leave, Sleep, WakeSpuriously, endVars
<1>3. ASSUME NEW j \in Jobs, Compile(j) \/ Count(j) PROVE LateInv'
  BY <1>3 DEF Compile, Count
<1>4. ASSUME NEW j \in Jobs, Report(j) PROVE LateInv'
  BY <1>4 DEF Report
<1>5. ASSUME NEW j \in Jobs, Stop(j) PROVE LateInv'
  BY <1>5 DEF Stop
<1>6. ASSUME NEW j \in Jobs, Release(j) PROVE LateInv'
  BY <1>6 DEF Release, endVars
<1>7. CASE Join \/ Cancel \/ UNCHANGED vars
  BY <1>7 DEF Join, Cancel, vars, jobVars, endVars
<1>8. QED BY NextCases, <1>1, <1>2, <1>3, <1>4, <1>5, <1>6, <1>7

\* Once the host has cancelled, a job starts one more compiler at the most.
THEOREM CancelCorrect == Spec => CancelStopsEachJob
<1>1. Init => LateInv
  BY DEF Init, LateInv
<1>2. LateInv => [\A j \in Jobs : Start(j) /\ cancel => j \notin late]_vars
  <2> SUFFICES ASSUME LateInv, NEW j \in Jobs, Start(j), j \in late PROVE FALSE
    OBVIOUS
  <2>1. pc[j] = "look" /\ ~stopped
    BY DEF Start
  <2>2. QED BY <2>1 DEF LateInv
<1>3. QED BY <1>1, <1>2, LateStep, TypeCorrect, PTL DEF Spec, CancelStopsEachJob

\* What is true of the sources once somebody has left, and of the counts.
OutcomeInv ==
  /\ \A s \in Sources : \/ s \in left \/ s \in objects \/ s \in failures
                         \/ \E j \in Jobs : pc[j] = "compile" /\ has[j] = s
  /\ \A j \in Jobs : pc[j] = "gone" => stopped \/ left = {}
  /\ \A j \in Jobs : pc[j] = "stop" => cancel
  /\ stopped => cancel
  /\ outcome # "running" => \A j \in Jobs : pc[j] = "gone"
  /\ outcome = "ok" => ~stopped /\ failures = {}
  /\ outcome = "failed" => ~stopped /\ failures # {}
  /\ outcome = "stopped" => stopped

LEMMA OutcomeStep == HeldInv /\ OutcomeInv /\ [Next]_vars => OutcomeInv'
<1> SUFFICES ASSUME TypeOK, EachSourceOnce, OutcomeInv, [Next]_vars PROVE OutcomeInv'
  BY DEF HeldInv
<1>0. /\ pc \in [Jobs -> Places] /\ has \in [Jobs -> Sources \cup {NoSource}]
      /\ cancel \in BOOLEAN /\ stopped \in BOOLEAN
  BY DEF TypeOK
<1> USE <1>0 DEF OutcomeInv, Places
<1>1. ASSUME NEW j \in Jobs, Start(j) PROVE OutcomeInv'
  <2>1. PICK s \in left : left' = left \ {s} /\ has' = [has EXCEPT ![j] = s]
    BY <1>1 DEF Start
  <2>2. /\ pc[j] = "look" /\ pc' = [pc EXCEPT ![j] = "compile"]
        /\ UNCHANGED <<stopped, cancel, objects, failures, outcome>>
    BY <1>1 DEF Start, endVars
  <2>3. s \in Sources /\ pc'[j] = "compile" /\ has'[j] = s
    BY <2>1, <2>2 DEF TypeOK
  <2>4. ASSUME NEW t \in Sources, t \notin left', t \notin objects', t \notin failures'
        PROVE  \E k \in Jobs : pc'[k] = "compile" /\ has'[k] = t
    <3>1. CASE t = s
      BY <2>3, <3>1
    <3>2. CASE t # s
      BY <2>1, <2>2, <2>4, <3>2
    <3>3. QED BY <3>1, <3>2
  <2>5. \A k \in Jobs : pc'[k] = "gone" => stopped' \/ left' = {}
    BY <2>1, <2>2
  <2>6. QED BY <2>2, <2>4, <2>5
<1>2. ASSUME NEW j \in Jobs, Leave(j) \/ Sleep(j) \/ WakeSpuriously(j) PROVE OutcomeInv'
  BY <1>2 DEF Leave, Sleep, WakeSpuriously, endVars, poolVars
<1>3. ASSUME NEW j \in Jobs, Compile(j) PROVE OutcomeInv'
  <2>1. /\ pc[j] = "compile" /\ pc' = [pc EXCEPT ![j] = "count"]
        /\ UNCHANGED <<left, has, stopped, cancel, outcome>>
        /\ has[j] \in objects' \cup failures'
        /\ objects \subseteq objects' /\ failures \subseteq failures'
    BY <1>3 DEF Compile, poolVars
  <2>2. outcome = "running"
    BY <2>1
  <2>3. QED BY <2>1, <2>2
<1>4. ASSUME NEW j \in Jobs, Count(j) \/ Report(j) \/ Stop(j) PROVE OutcomeInv'
  <2>1. /\ pc[j] \in {"count", "report", "stop"}
        /\ pc' \in [Jobs -> Places] /\ pc'[j] \in {"report", "stop", "release"}
        /\ \A k \in Jobs : k # j => pc'[k] = pc[k]
        /\ UNCHANGED <<left, has, cancel, objects, failures, outcome>>
        /\ pc'[j] = "stop" => cancel
        /\ stopped' = stopped \/ (stopped' = TRUE /\ pc[j] = "stop")
    BY <1>4 DEF Count, Report, Stop, poolVars
  <2>2. outcome = "running"
    BY <2>1
  <2>3. QED BY <2>1, <2>2
<1>5. ASSUME NEW j \in Jobs, Release(j) PROVE OutcomeInv'
  <2>1. /\ pc[j] = "release" /\ has' = [has EXCEPT ![j] = NoSource]
        /\ pc' = [k \in Jobs |-> IF k = j \/ pc[k] = "asleep" THEN "look" ELSE pc[k]]
        /\ UNCHANGED <<left, cancel, stopped, objects, failures, outcome>>
    BY <1>5 DEF Release, endVars
  <2>2. outcome = "running"
    BY <2>1
  <2>3. QED BY <2>1, <2>2
<1>6. CASE Join
  BY <1>6 DEF Join, poolVars, jobVars, endVars
<1>7. CASE Cancel \/ UNCHANGED vars
  BY <1>7 DEF Cancel, vars, poolVars, jobVars, endVars
<1>8. QED BY NextCases, <1>1, <1>2, <1>3, <1>4, <1>5, <1>6, <1>7

\* objects() hands out paths only when every object is there, tells of
\* failures only after every source was tried, and says "stopped" only when
\* the host cancelled.
THEOREM OutcomeCorrect == Spec => []OutcomeIsRight
<1>1. Init => OutcomeInv
  BY DEF Init, OutcomeInv
<1>2. HeldInv /\ OutcomeInv => OutcomeIsRight
  <2> SUFFICES ASSUME TypeOK, OutcomeInv PROVE OutcomeIsRight
    BY DEF HeldInv
  <2> USE DEF OutcomeInv
  <2>1. objects \subseteq Sources /\ failures \subseteq Sources
    BY DEF TypeOK
  <2>2. ASSUME outcome \in {"ok", "failed"}, NEW s \in Sources PROVE s \in objects \/ s \in failures
    <3>1. left = {}
      BY <2>2, JobPoolAssumption DEF JobPoolAssumption
    <3>2. QED BY <2>2, <3>1
  <2>3. outcome # "running" => Holders = {}
    BY DEF Holders, Holding
  <2>4. QED BY <2>1, <2>2, <2>3 DEF OutcomeIsRight
<1>3. QED BY <1>1, <1>2, OutcomeStep, HeldCorrect, PTL DEF Spec
-----------------------------------------------------------------------------
\* What a job's count says of where it is: it has one from Count to Release, and
\* those that do have different ones.
Counted == {"report", "stop", "release"}
CountsInv ==
  /\ told \subseteq 1..done
  /\ \A j \in Jobs : count[j] <= done /\ (count[j] # 0 <=> pc[j] \in Counted)
  /\ \A j, k \in Jobs : count[j] = count[k] /\ j # k => count[j] = 0
  /\ \A j \in Jobs : pc[j] = "report" => count[j] \notin told

LEMMA CountsStep == TypeOK /\ CountsInv /\ [Next]_vars => CountsInv'
<1> SUFFICES ASSUME TypeOK, CountsInv, [Next]_vars PROVE CountsInv'
  OBVIOUS
<1> USE DEF CountsInv, Counted
<1>0. /\ pc \in [Jobs -> Places] /\ count \in [Jobs -> Nat] /\ done \in Nat
  BY DEF TypeOK
<1>1. ASSUME NEW j \in Jobs, Leave(j) \/ Start(j) \/ Sleep(j) \/ WakeSpuriously(j) \/ Compile(j)
      PROVE  CountsInv'
  <2>1. /\ count' = count /\ done' = done /\ told' = told
        /\ pc[j] \notin Counted /\ pc'[j] \notin Counted
        /\ \A k \in Jobs : k # j => pc'[k] = pc[k]
    BY <1>0, <1>1 DEF Leave, Start, Sleep, WakeSpuriously, Compile, endVars
  <2> QED BY <1>0, <2>1
<1>2. ASSUME NEW j \in Jobs, Count(j) PROVE CountsInv'
  <2>1. /\ done' = done + 1 /\ count' = [count EXCEPT ![j] = done + 1] /\ told' = told
        /\ pc' = [pc EXCEPT ![j] = "report"]
    BY <1>2 DEF Count
  <2>2. told' \subseteq 1..done' /\ done + 1 \notin told
    BY <1>0, <2>1
  <2>3. \A k \in Jobs : /\ count'[k] <= done' /\ (count'[k] # 0 <=> pc'[k] \in Counted)
                        /\ (k # j => count'[k] = count[k] /\ pc'[k] = pc[k] /\ count[k] # done + 1)
    BY <1>0, <2>1
  <2>4. count'[j] = done + 1
    BY <1>0, <2>1
  <2> QED BY <1>0, <2>1, <2>2, <2>3, <2>4
<1>3. ASSUME NEW j \in Jobs, Report(j) PROVE CountsInv'
  <2>1. /\ done' = done /\ count' = count /\ told' = told \cup {count[j]}
        /\ pc[j] = "report" /\ pc'[j] \in {"stop", "release"}
        /\ \A k \in Jobs : k # j => pc'[k] = pc[k]
    BY <1>0, <1>3 DEF Report
  <2>2. count[j] \in 1..done
    BY <1>0, <2>1
  <2> QED BY <1>0, <2>1, <2>2
<1>4. ASSUME NEW j \in Jobs, Stop(j) PROVE CountsInv'
  <2>1. /\ done' = done /\ count' = count /\ told' = told
        /\ pc[j] = "stop" /\ pc'[j] = "release"
        /\ \A k \in Jobs : k # j => pc'[k] = pc[k]
    BY <1>0, <1>4 DEF Stop
  <2> QED BY <1>0, <2>1
<1>5. ASSUME NEW j \in Jobs, Release(j) PROVE CountsInv'
  <2>1. /\ done' = done /\ count' = [count EXCEPT ![j] = 0] /\ told' = told
        /\ pc'[j] = "look"
        /\ \A k \in Jobs : k # j => pc'[k] = pc[k] \/ (pc[k] = "asleep" /\ pc'[k] = "look")
    BY <1>0, <1>5 DEF Release, endVars
  <2> QED BY <1>0, <2>1
<1>6. CASE Join \/ Cancel \/ UNCHANGED vars
  BY <1>6 DEF Join, Cancel, vars, jobVars, endVars
<1> QED BY NextCases, <1>1, <1>2, <1>3, <1>4, <1>5, <1>6

\* The sources a compiler is done with are those counted and those whose job is
\* about to.
Uncounted == {j \in Jobs : pc[j] = "count"}
DoneInv == done + Cardinality(Uncounted) = Cardinality(objects \cup failures)

LEMMA DoneFinite ==
  ASSUME TypeOK
  PROVE  /\ IsFiniteSet(Uncounted) /\ Cardinality(Uncounted) \in Nat
         /\ IsFiniteSet(objects \cup failures) /\ Cardinality(objects \cup failures) \in Nat
<1>1. Uncounted \subseteq Jobs /\ objects \cup failures \subseteq Sources
  BY DEF Uncounted, TypeOK
<1>2. IsFiniteSet(Uncounted) /\ IsFiniteSet(objects \cup failures)
  BY <1>1, JobPoolAssumption, FS_Subset DEF JobPoolAssumption
<1> QED BY <1>2, FS_CardinalityType

LEMMA DoneStep == HeldInv /\ DoneInv /\ [Next]_vars => DoneInv'
<1> SUFFICES ASSUME TypeOK, EachSourceOnce, DoneInv, [Next]_vars PROVE DoneInv'
  BY DEF HeldInv
<1> USE DEF DoneInv
<1>0. pc \in [Jobs -> Places] /\ done \in Nat
  BY DEF TypeOK
<1>1. ASSUME Uncounted' = Uncounted, UNCHANGED <<done, objects, failures>> PROVE DoneInv'
  BY <1>1
<1>2. ASSUME NEW j \in Jobs, Leave(j) \/ Start(j) \/ Sleep(j) \/ WakeSpuriously(j) \/ Report(j) \/ Stop(j)
      PROVE  DoneInv'
  <2>1. /\ pc[j] # "count" /\ pc'[j] # "count"
        /\ \A k \in Jobs : k # j => pc'[k] = pc[k]
    BY <1>0, <1>2 DEF Leave, Start, Sleep, WakeSpuriously, Report, Stop
  <2>2. UNCHANGED <<done, objects, failures>>
    BY <1>2 DEF Leave, Start, Sleep, WakeSpuriously, Report, Stop, endVars
  <2> QED BY <1>1, <2>1, <2>2 DEF Uncounted
<1>3. ASSUME NEW j \in Jobs, Compile(j) PROVE DoneInv'
  <2>1. j \notin Uncounted /\ Uncounted' = Uncounted \cup {j} /\ done' = done
    BY <1>0, <1>3 DEF Compile, Uncounted
  <2>2. /\ has[j] \notin objects \cup failures
        /\ objects' \cup failures' = (objects \cup failures) \cup {has[j]}
    BY <1>3 DEF Compile, EachSourceOnce
  <2>3. /\ Cardinality(Uncounted') = Cardinality(Uncounted) + 1
        /\ Cardinality(objects' \cup failures') = Cardinality(objects \cup failures) + 1
    BY <2>1, <2>2, DoneFinite, FS_AddElement
  <2> QED BY <1>0, <2>1, <2>3, DoneFinite
<1>4. ASSUME NEW j \in Jobs, Count(j) PROVE DoneInv'
  <2>1. /\ j \in Uncounted /\ Uncounted' = Uncounted \ {j} /\ done' = done + 1
        /\ UNCHANGED <<objects, failures>>
    BY <1>0, <1>4 DEF Count, Uncounted
  <2>2. Cardinality(Uncounted') = Cardinality(Uncounted) - 1
    BY <2>1, DoneFinite, FS_RemoveElement
  <2> QED BY <1>0, <2>1, <2>2, DoneFinite
<1>5. ASSUME NEW j \in Jobs, Release(j) PROVE DoneInv'
  <2>1. /\ pc[j] # "count" /\ pc'[j] # "count"
        /\ \A k \in Jobs : k # j => (pc'[k] = "count" <=> pc[k] = "count")
        /\ UNCHANGED <<done, objects, failures>>
    BY <1>0, <1>5 DEF Release, endVars
  <2> QED BY <1>1, <2>1 DEF Uncounted
<1>6. CASE Join \/ Cancel \/ UNCHANGED vars
  BY <1>6 DEF Join, Cancel, vars, jobVars, endVars, Uncounted
<1> QED BY NextCases, <1>2, <1>3, <1>4, <1>5, <1>6

\* Progress hears every count once, none before its source is done with, in
\* whatever order the jobs come to say it.
THEOREM ToldCorrect == Spec => []ToldIsDone
<1>1. Init => CountsInv
  BY DEF Init, CountsInv, Counted
<1>2. Init => DoneInv
  <2>1. Init => Uncounted = {} /\ objects \cup failures = {} /\ done = 0
    BY DEF Init, Uncounted
  <2> QED BY <2>1, FS_EmptySet DEF DoneInv
<1>3. HeldInv /\ CountsInv /\ DoneInv => ToldIsDone
  <2> SUFFICES ASSUME TypeOK, CountsInv, DoneInv PROVE ToldIsDone
    BY DEF HeldInv
  <2>1. done <= Cardinality(objects \cup failures)
    BY DoneFinite DEF DoneInv, TypeOK
  <2> QED BY <2>1 DEF CountsInv, ToldIsDone
<1>4. HeldInv => TypeOK
  BY DEF HeldInv
<1> QED BY <1>1, <1>2, <1>3, <1>4, CountsStep, DoneStep, HeldCorrect, PTL DEF Spec
-----------------------------------------------------------------------------
(* Sums of finitely many numbers.                                          *)

\* Natural numbers, if there are any, have a least.
LEMMA LeastNumber ==
  ASSUME NEW T \in SUBSET Nat, T # {}
  PROVE  \E x \in T : \A y \in T : x <= y
<1> DEFINE R == OpToRel(<, Nat)
<1>1. IsWellFoundedOn(R, Nat)
  BY NatLessThanWellFounded
<1>2. PICK x \in T : \A y \in T : ~(<<y, x>> \in R)
  <2> HIDE DEF R
  <2> QED BY <1>1, WFMin
<1>3. R = {ss \in Nat \X Nat : ss[1] < ss[2]}
  BY Zenon DEF OpToRel
<1>4. \A y \in T : ~(y < x)
  <2> TAKE y \in T
  <2>1. <<y, x>> \in Nat \X Nat
    OBVIOUS
  <2>2. <<y, x>> \in R <=> y < x
    <3> HIDE DEF R
    <3> QED BY <1>3, <2>1
  <2> QED BY <1>2, <2>2
<1> QED BY <1>4

\* And sets of finitely many one with the fewest.
LEMMA SmallestSet ==
  ASSUME NEW S, IsFiniteSet(S), NEW B \in SUBSET SUBSET S, B # {}
  PROVE  \E s \in B : \A t \in B : Cardinality(s) <= Cardinality(t)
<1> DEFINE T == {Cardinality(s) : s \in B}
<1>1. \A s \in B : Cardinality(s) \in Nat
  BY FS_Subset, FS_CardinalityType
<1>2. T \in SUBSET Nat /\ T # {}
  BY <1>1
<1>3. PICK n \in T : \A m \in T : n <= m
  <2> HIDE DEF T
  <2> QED BY <1>2, LeastNumber
<1> QED BY <1>3

\* What the sum of the values at some elements is from: one of them and the rest.
Picked(s) == CHOOSE x \in s : TRUE
IsSum(g, f, S) ==
  g = [s \in SUBSET S |-> IF s = {} THEN 0 ELSE f[Picked(s)] + g[s \ {Picked(s)}]]

LEMMA SumIsIter ==
  ASSUME NEW f, NEW S
  PROVE  SumFunctionOnSet(f, S) = (CHOOSE g : IsSum(g, f, S))[S]
BY DEF SumFunctionOnSet, FoldFunctionOnSet, MapThenFoldSet, IsSum, Picked

\* One picked from a set leaves the rest of it, one fewer.
LEMMA PickOne ==
  ASSUME NEW S, IsFiniteSet(S), NEW s \in SUBSET S, s # {}
  PROVE  /\ Picked(s) \in s /\ s \ {Picked(s)} \in SUBSET S
         /\ Cardinality(s) \in Nat /\ Cardinality(s \ {Picked(s)}) = Cardinality(s) - 1
<1>1. Picked(s) \in s
  BY DEF Picked
<1>2. IsFiniteSet(s)
  BY FS_Subset
<1> QED BY <1>1, <1>2, FS_CardinalityType, FS_RemoveElement

\* There is such a sum, worked out for ever more elements.
LEMMA SumExists ==
  ASSUME NEW S, IsFiniteSet(S), NEW f
  PROVE  \E g : IsSum(g, f, S)
<1> DEFINE Upto(n) == {s \in SUBSET S : Cardinality(s) <= n}
           Of(g, s) == IF s = {} THEN 0 ELSE f[Picked(s)] + g[s \ {Picked(s)}]
           Good(g, n) == g = [s \in Upto(n) |-> Of(g, s)]
           Bad == {n \in Nat : ~\E g : Good(g, n)}
<1>1. ASSUME NEW n \in Nat, NEW g, \A s \in Upto(n) : g[s] = Of(g, s)
      PROVE  \E h : Good(h, n + 1)
  <2> DEFINE h == [s \in Upto(n + 1) |-> Of(g, s)]
  <2>1. ASSUME NEW s \in Upto(n + 1), s # {} PROVE s \ {Picked(s)} \in Upto(n)
    BY <2>1, PickOne
  <2>2. Upto(n) \subseteq Upto(n + 1)
    <3>1. \A s \in SUBSET S : Cardinality(s) \in Nat
      BY FS_Subset, FS_CardinalityType
    <3> QED BY <3>1
  <2>3. \A s \in Upto(n) : h[s] = g[s]
    BY <1>1, <2>2
  <2>4. \A s \in Upto(n + 1) : Of(g, s) = Of(h, s)
    <3> HIDE DEF h, Upto
    <3> QED BY <2>1, <2>3
  <2>5. Good(h, n + 1)
    <3>1. h = [s \in Upto(n + 1) |-> Of(g, s)]
      OBVIOUS
    <3> HIDE DEF h, Upto, Of
    <3> QED BY <2>4, <3>1
  <2> QED BY <2>5
<1>2. \E g : Good(g, 0)
  <2>1. \A s \in Upto(0) : s = {}
    <3> SUFFICES ASSUME NEW s \in SUBSET S, Cardinality(s) <= 0 PROVE s = {}
      OBVIOUS
    <3>1. IsFiniteSet(s) /\ Cardinality(s) \in Nat
      BY FS_Subset, FS_CardinalityType
    <3> QED BY <3>1, FS_EmptySet
  <2> DEFINE g == [s \in Upto(0) |-> 0]
  <2>2. \A s \in Upto(0) : Of(g, s) = 0
    BY <2>1
  <2>3. Good(g, 0)
    <3>1. g = [s \in Upto(0) |-> 0]
      OBVIOUS
    <3> HIDE DEF g, Upto, Of
    <3> QED BY <2>2, <3>1
  <2> QED BY <2>3
<1>3. Bad = {}
  <2> SUFFICES ASSUME Bad # {} PROVE FALSE
    OBVIOUS
  <2>1. PICK n \in Bad : \A m \in Bad : n <= m
    <3>1. Bad \in SUBSET Nat
      OBVIOUS
    <3> HIDE DEF Bad
    <3> QED BY <3>1, LeastNumber
  <2>2. n # 0 /\ n - 1 \in Nat /\ n - 1 \notin Bad
    <3> HIDE DEF Good
    <3> QED BY <1>2, <2>1
  <2>3. PICK g : Good(g, n - 1)
    <3> HIDE DEF Good
    <3> QED BY <2>2
  <2>4. \A s \in Upto(n - 1) : g[s] = Of(g, s)
    <3> HIDE DEF Upto, Of
    <3> QED BY <2>3
  <2>5. \E h : Good(h, (n - 1) + 1)
    <3> HIDE DEF Upto, Of, Good
    <3> QED BY <1>1, <2>2, <2>4
  <2>6. (n - 1) + 1 = n
    BY <2>1
  <2> QED
    <3> HIDE DEF Good
    <3> QED BY <2>1, <2>5, <2>6
<1>4. PICK g : Good(g, Cardinality(S))
  <2>1. Cardinality(S) \in Nat
    BY FS_CardinalityType
  <2> HIDE DEF Good
  <2> QED BY <1>3, <2>1
<1>5. Upto(Cardinality(S)) = SUBSET S
  BY FS_Subset
<1> QED BY <1>4, <1>5 DEF IsSum

\* A sum is the same whichever element goes first.
LEMMA SumType ==
  ASSUME NEW S, IsFiniteSet(S), NEW V \in {Nat, Int}, NEW f \in [S -> V], NEW g, IsSum(g, f, S)
  PROVE  \A s \in SUBSET S : g[s] \in V
<1> DEFINE Bad == {s \in SUBSET S : g[s] \notin V}
<1>1. \A s \in SUBSET S : g[s] = IF s = {} THEN 0 ELSE f[Picked(s)] + g[s \ {Picked(s)}]
  BY DEF IsSum
<1> SUFFICES ASSUME Bad # {} PROVE FALSE
  OBVIOUS
<1>2. PICK s \in Bad : \A t \in Bad : Cardinality(s) <= Cardinality(t)
  <2>1. Bad \in SUBSET SUBSET S
    OBVIOUS
  <2> HIDE DEF Bad
  <2> QED BY <2>1, SmallestSet
<1>3. s # {}
  <2>1. g[{}] = 0
    BY <1>1
  <2>2. g[s] \notin V
    BY <1>2
  <2>3. 0 \in V
    OBVIOUS
  <2> QED BY <2>1, <2>2, <2>3, Zenon
<1>4. Picked(s) \in S /\ s \ {Picked(s)} \in (SUBSET S) \ Bad
  <2>1. Picked(s) \in s /\ s \ {Picked(s)} \in SUBSET S /\ Cardinality(s) \in Nat
        /\ Cardinality(s \ {Picked(s)}) = Cardinality(s) - 1
    BY <1>2, <1>3, PickOne
  <2>2. s \ {Picked(s)} \notin Bad
    <3> HIDE DEF Bad
    <3> QED BY <1>2, <2>1
  <2> QED BY <1>2, <2>1, <2>2
<1>5. g[s] = f[Picked(s)] + g[s \ {Picked(s)}]
  BY <1>1, <1>2, <1>3
<1>6. f[Picked(s)] \in V /\ g[s \ {Picked(s)}] \in V
  BY <1>4
<1>7. g[s] \in V
  <2>1. CASE V = Nat
    BY <1>5, <1>6, <2>1
  <2>2. CASE V = Int
    BY <1>5, <1>6, <2>2
  <2> QED BY <2>1, <2>2
<1> QED BY <1>2, <1>7

LEMMA SumWithout ==
  ASSUME NEW S, IsFiniteSet(S), NEW f \in [S -> Int], NEW g, IsSum(g, f, S),
         NEW all \in SUBSET S, NEW one \in all
  PROVE  g[all] = f[one] + g[all \ {one}]
<1> DEFINE Bad == {s \in SUBSET S : \E x \in s : g[s] # f[x] + g[s \ {x}]}
<1>1. \A s \in SUBSET S : g[s] = IF s = {} THEN 0 ELSE f[Picked(s)] + g[s \ {Picked(s)}]
  BY DEF IsSum
<1> SUFFICES ASSUME Bad # {} PROVE FALSE
  OBVIOUS
<1>2. PICK s \in Bad : \A t \in Bad : Cardinality(s) <= Cardinality(t)
  <2>1. Bad \in SUBSET SUBSET S
    OBVIOUS
  <2> HIDE DEF Bad
  <2> QED BY <2>1, SmallestSet
<1>3. PICK x \in s : g[s] # f[x] + g[s \ {x}]
  BY <1>2
<1>4. s \in SUBSET S /\ IsFiniteSet(s) /\ Cardinality(s) \in Nat
  BY <1>2, FS_Subset, FS_CardinalityType
<1> DEFINE p == Picked(s)
<1>5. p \in s /\ g[s] = f[p] + g[s \ {p}] /\ p # x
  BY <1>1, <1>3, <1>4 DEF Picked
<1> HIDE DEF p
<1>6. ASSUME NEW y \in s PROVE s \ {y} \in (SUBSET S) \ Bad
  <2>1. Cardinality(s \ {y}) = Cardinality(s) - 1
    BY <1>4, FS_RemoveElement
  <2>2. s \ {y} \notin Bad
    <3> HIDE DEF Bad
    <3> QED BY <1>2, <1>4, <2>1
  <2> QED BY <1>4, <2>2
<1>7. g[s \ {p}] = f[x] + g[(s \ {p}) \ {x}]
  BY <1>3, <1>5, <1>6
<1>8. g[s \ {x}] = f[p] + g[(s \ {x}) \ {p}]
  BY <1>3, <1>5, <1>6
<1>9. (s \ {p}) \ {x} = (s \ {x}) \ {p}
  OBVIOUS
<1>10. /\ g[(s \ {p}) \ {x}] \in Int /\ f[p] \in Int /\ f[x] \in Int
  BY <1>3, <1>4, <1>5, SumType
<1>11. g[s] = f[x] + g[s \ {x}]
  <2> DEFINE r == g[(s \ {p}) \ {x}]
  <2>1. g[s \ {p}] = f[x] + r /\ g[s \ {x}] = f[p] + r
    BY <1>7, <1>8, <1>9
  <2>2. r \in Int
    BY <1>10
  <2> HIDE DEF r
  <2> QED BY <1>5, <1>10, <2>1, <2>2
<1> QED BY <1>3, <1>11

\* And it depends on the values summed alone.
LEMMA SumSame ==
  ASSUME NEW S, IsFiniteSet(S), NEW f, NEW h, NEW T \in SUBSET S, \A x \in T : f[x] = h[x],
         NEW g, IsSum(g, f, S), NEW k, IsSum(k, h, S)
  PROVE  g[T] = k[T]
<1> DEFINE Bad == {s \in SUBSET T : g[s] # k[s]}
<1>1. /\ \A s \in SUBSET S : g[s] = IF s = {} THEN 0 ELSE f[Picked(s)] + g[s \ {Picked(s)}]
      /\ \A s \in SUBSET S : k[s] = IF s = {} THEN 0 ELSE h[Picked(s)] + k[s \ {Picked(s)}]
  BY DEF IsSum
<1> SUFFICES ASSUME Bad # {} PROVE FALSE
  OBVIOUS
<1>2. PICK s \in Bad : \A t \in Bad : Cardinality(s) <= Cardinality(t)
  <2>1. Bad \in SUBSET SUBSET S
    OBVIOUS
  <2> HIDE DEF Bad
  <2> QED BY <2>1, SmallestSet
<1>3. s \in SUBSET S /\ s # {}
  BY <1>1, <1>2
<1>4. Picked(s) \in s /\ s \ {Picked(s)} \in SUBSET S /\ Cardinality(s) \in Nat
      /\ Cardinality(s \ {Picked(s)}) = Cardinality(s) - 1
  BY <1>3, PickOne
<1>5. s \ {Picked(s)} \notin Bad
  <2> HIDE DEF Bad
  <2> QED BY <1>2, <1>4
<1> QED BY <1>1, <1>2, <1>3, <1>4, <1>5

\* What a sum comes to when one value changes.
LEMMA SumStep ==
  ASSUME NEW S, IsFiniteSet(S), NEW f \in [S -> Int], NEW h \in [S -> Int], NEW x \in S,
         \A y \in S \ {x} : h[y] = f[y]
  PROVE  SumFunctionOnSet(h, S) = SumFunctionOnSet(f, S) - f[x] + h[x]
<1> DEFINE g == CHOOSE g : IsSum(g, f, S)
           k == CHOOSE k : IsSum(k, h, S)
<1>1. IsSum(g, f, S) /\ IsSum(k, h, S)
  BY SumExists
<1>2. SumFunctionOnSet(f, S) = g[S] /\ SumFunctionOnSet(h, S) = k[S]
  BY SumIsIter, Zenon
<1> HIDE DEF g, k
<1>3. g[S] = f[x] + g[S \ {x}] /\ k[S] = h[x] + k[S \ {x}]
  <2>1. ASSUME NEW v \in [S -> Int], NEW u, IsSum(u, v, S)
        PROVE  u[S] = v[x] + u[S \ {x}]
    <3>1. S \in SUBSET S
      OBVIOUS
    <3> QED BY <2>1, <3>1, SumWithout
  <2> QED BY <1>1, <2>1
<1>4. g[S \ {x}] = k[S \ {x}]
  BY <1>1, SumSame
<1>5. g[S \ {x}] \in Int
  BY <1>1, SumType
<1> QED BY <1>2, <1>3, <1>4, <1>5

LEMMA SumBound ==
  ASSUME NEW S, IsFiniteSet(S), NEW f \in [S -> Nat], NEW x \in S
  PROVE  SumFunctionOnSet(f, S) \in Nat /\ f[x] <= SumFunctionOnSet(f, S)
<1> DEFINE g == CHOOSE g : IsSum(g, f, S)
<1>1. IsSum(g, f, S)
  BY SumExists
<1>2. SumFunctionOnSet(f, S) = g[S]
  BY SumIsIter, Zenon
<1> HIDE DEF g
<1>3. f \in [S -> Int] /\ S \in SUBSET S
  OBVIOUS
<1>4. g[S] = f[x] + g[S \ {x}]
  BY <1>1, <1>3, SumWithout
<1>5. g[S] \in Nat /\ g[S \ {x}] \in Nat /\ f[x] \in Nat
  <2>1. Nat \in {Nat, Int}
    OBVIOUS
  <2> QED BY <1>1, <2>1, SumType
<1> QED BY <1>2, <1>4, <1>5

LEMMA SumZero ==
  ASSUME NEW S, IsFiniteSet(S)
  PROVE  SumFunctionOnSet([x \in S |-> 0], S) = 0
<1> DEFINE f == [x \in S |-> 0]
           g == CHOOSE g : IsSum(g, f, S)
           zero == [s \in SUBSET S |-> 0]
<1>1. IsSum(g, f, S)
  BY SumExists
<1>2. SumFunctionOnSet(f, S) = g[S]
  BY SumIsIter, Zenon
<1>3. IsSum(zero, f, S)
  <2>1. \A s \in SUBSET S : s # {} => Picked(s) \in S /\ s \ {Picked(s)} \in SUBSET S
    BY DEF Picked
  <2> QED BY <2>1 DEF IsSum
<1>4. g[S] = zero[S]
  <2>1. \A x \in S : f[x] = f[x]
    OBVIOUS
  <2> HIDE DEF g, zero, f
  <2> QED BY <1>1, <1>3, <2>1, SumSame
<1> QED BY <1>2, <1>4
-----------------------------------------------------------------------------
\* The memory each job is counted for.
TakenBy == [j \in Jobs |-> IF has[j] = NoSource THEN 0 ELSE need[has[j]]]

LEMMA TakenType == TypeOK => TakenBy \in [Jobs -> Nat]
<1> SUFFICES ASSUME TypeOK PROVE TakenBy \in [Jobs -> Nat]
  OBVIOUS
<1>1. need \in [Sources -> Nat] /\ has \in [Jobs -> Sources \cup {NoSource}]
  BY JobPoolAssumption DEF JobPoolAssumption, TypeOK
<1>2. \A j \in Jobs : (IF has[j] = NoSource THEN 0 ELSE need[has[j]]) \in Nat
  BY <1>1
<1> QED BY <1>2 DEF TakenBy

LEMMA TakenTypeNext == TypeOK' => (TakenBy \in [Jobs -> Nat])'
BY TakenType, PTL

LEMMA MemoryStep ==
  HeldInv /\ HeldInv' /\ MemoryCounted /\ [Next]_vars => MemoryCounted'
<1> SUFFICES ASSUME TypeOK, EachSourceOnce, TypeOK', MemoryCounted, [Next]_vars
             PROVE  MemoryCounted'
  BY DEF HeldInv
<1>0. /\ IsFiniteSet(Jobs) /\ NoSource \notin Sources /\ need \in [Sources -> Nat]
      /\ has \in [Jobs -> Sources \cup {NoSource}] /\ using \in Int
  BY JobPoolAssumption DEF JobPoolAssumption, TypeOK
<1>1. TakenBy \in [Jobs -> Int] /\ TakenBy' \in [Jobs -> Int]
  <2>1. TakenBy \in [Jobs -> Nat] /\ TakenBy' \in [Jobs -> Nat]
    BY TakenType, TakenTypeNext
  <2> QED BY <2>1
<1>2. using = SumFunctionOnSet(TakenBy, Jobs)
  BY DEF MemoryCounted, TakenBy
<1> SUFFICES using' = SumFunctionOnSet(TakenBy', Jobs)
  BY DEF MemoryCounted, TakenBy
<1>3. ASSUME TakenBy' = TakenBy, using' = using PROVE using' = SumFunctionOnSet(TakenBy', Jobs)
  BY <1>2, <1>3
<1>4. ASSUME NEW j \in Jobs, \A k \in Jobs \ {j} : TakenBy'[k] = TakenBy[k],
             using' = using - TakenBy[j] + TakenBy'[j]
      PROVE  using' = SumFunctionOnSet(TakenBy', Jobs)
  BY <1>0, <1>1, <1>2, <1>4, SumStep
<1>5. ASSUME NEW j \in Jobs, Start(j) PROVE using' = SumFunctionOnSet(TakenBy', Jobs)
  <2>1. PICK s \in left : using' = using + need[s] /\ has' = [has EXCEPT ![j] = s]
    BY <1>5 DEF Start
  <2>2. need' = need /\ s \in Sources
    BY <1>5 DEF Start, TypeOK
  <2>3. has[j] = NoSource
    BY <1>5 DEF Start, EachSourceOnce, Holding
  <2>4. TakenBy[j] = 0 /\ TakenBy'[j] = need[s] /\ need[s] \in Int
    BY <1>0, <2>1, <2>2, <2>3 DEF TakenBy
  <2>5. \A k \in Jobs \ {j} : TakenBy'[k] = TakenBy[k]
    BY <1>0, <2>1, <2>2 DEF TakenBy
  <2> QED BY <1>0, <1>4, <2>1, <2>4, <2>5
<1>6. ASSUME NEW j \in Jobs, Release(j) PROVE using' = SumFunctionOnSet(TakenBy', Jobs)
  <2>1. using' = using - need[has[j]] /\ has' = [has EXCEPT ![j] = NoSource] /\ need' = need
    BY <1>6 DEF Release
  <2>2. has[j] \in Sources
    BY <1>0, <1>6 DEF Release, EachSourceOnce, Holding
  <2>3. TakenBy[j] = need[has[j]] /\ TakenBy'[j] = 0 /\ need[has[j]] \in Int
    BY <1>0, <2>1, <2>2 DEF TakenBy
  <2>4. \A k \in Jobs \ {j} : TakenBy'[k] = TakenBy[k]
    BY <1>0, <2>1 DEF TakenBy
  <2> QED BY <1>0, <1>4, <2>1, <2>3, <2>4
<1>7. ASSUME NEW j \in Jobs, \/ Leave(j) \/ Sleep(j) \/ WakeSpuriously(j) \/ Compile(j)
                             \/ Count(j) \/ Report(j) \/ Stop(j)
      PROVE  using' = SumFunctionOnSet(TakenBy', Jobs)
  <2>1. UNCHANGED <<need, has, using>>
    BY <1>7 DEF Leave, Sleep, WakeSpuriously, Compile, Count, Report, Stop, poolVars
  <2> QED BY <1>3, <2>1 DEF TakenBy
<1>8. CASE Join \/ Cancel \/ UNCHANGED vars
  <2>1. UNCHANGED <<need, has, using>>
    BY <1>8 DEF Join, Cancel, vars, poolVars, jobVars
  <2> QED BY <1>3, <2>1 DEF TakenBy
<1> QED BY NextCases, <1>5, <1>6, <1>7, <1>8

LEMMA MemoryLedger == Spec => []MemoryCounted
<1>1. Init => MemoryCounted
  <2> SUFFICES ASSUME Init PROVE MemoryCounted
    OBVIOUS
  <2>1. TakenBy = [j \in Jobs |-> 0] /\ using = 0
    BY DEF Init, TakenBy
  <2> QED BY <2>1, SumZero, JobPoolAssumption DEF MemoryCounted, TakenBy, JobPoolAssumption
<1> QED BY <1>1, MemoryStep, HeldCorrect, PTL DEF Spec

\* The compilers and the memory counted are always those of the jobs that hold a
\* source, however many there are and in whatever order they end.
THEOREM LedgerCorrect == Spec => []Ledger
<1>1. CompilersCounted /\ MemoryCounted => Ledger
  BY DEF Ledger
<1> QED BY <1>1, CountCorrect, MemoryLedger, PTL

\* So what a job takes off the two counters when it counts its compiler out is
\* there to be taken: both are unsigned in the source.
NothingUnderflows ==
  \A j \in Jobs : pc[j] = "release" => running >= 1 /\ using >= need[has[j]]

THEOREM UnderflowNever == Spec => []NothingUnderflows
<1>1. HeldInv /\ CompilersCounted /\ MemoryCounted => NothingUnderflows
  <2> SUFFICES ASSUME TypeOK, EachSourceOnce, CompilersCounted, MemoryCounted,
                      NEW j \in Jobs, pc[j] = "release"
               PROVE  running >= 1 /\ using >= need[has[j]]
    BY DEF HeldInv, NothingUnderflows
  <2>1. running >= 1
    <3>1. j \in Holders
      BY DEF Holders, Holding
    <3>2. Cardinality(Holders) # 0
      BY <3>1, HoldersFinite, FS_EmptySet
    <3> QED BY <3>2, HoldersFinite DEF CompilersCounted
  <2>2. using >= need[has[j]]
    <3>1. has[j] # NoSource
      BY DEF EachSourceOnce, Holding
    <3>2. TakenBy[j] = need[has[j]]
      BY <3>1 DEF TakenBy
    <3>3. using = SumFunctionOnSet(TakenBy, Jobs) /\ IsFiniteSet(Jobs)
      BY JobPoolAssumption DEF MemoryCounted, TakenBy, JobPoolAssumption
    <3>4. using \in Nat /\ TakenBy[j] <= using
      BY <3>3, TakenType, SumBound
    <3>5. TakenBy[j] \in Nat
      BY TakenType
    <3> QED BY <3>2, <3>4, <3>5
  <2> QED BY <2>1, <2>2
<1> QED BY <1>1, HeldCorrect, CountCorrect, MemoryLedger, PTL
=============================================================================
