------------------------------ MODULE Checked ------------------------------
(***************************************************************************)
(* What recomp_abi::Library promises a host, docs/interface.md Modules and *)
(* Origins: it finds code for an address where a unit has an entry, unless *)
(* the function that runs it must not, because its code was not what it    *)
(* was made from when the host last had the unit checked, or because the   *)
(* host has had it marked since.                                           *)
(***************************************************************************)
EXTENDS Tables

VARIABLES
  memory,    \* what is at each address
  loaded,    \* module -> where the guest has it, 0 for nowhere
  told,      \* module -> where the host said it is
  skipped,   \* unit -> the functions that must not run
  marked     \* unit -> those of them the host marked after its last check

vars == <<memory, loaded, told, skipped, marked>>

Where(b, a) == (b + a) % Top
BaseOf(u) == IF u = Executable THEN 0 ELSE loaded[u]

Init ==
  /\ memory \in [Addresses -> Values]
  /\ loaded = [m \in Modules |-> 0]
  /\ told = [m \in Modules |-> 0]
  /\ skipped = [u \in Units |-> {}]
  /\ marked = [u \in Units |-> {}]

Place ==
  /\ \E m \in Modules : told' = [told EXCEPT ![m] = loaded[m]]
  /\ UNCHANGED <<memory, loaded, skipped, marked>>

Differs(u, f) == \E a \in Code[u][f] : memory[Where(BaseOf(u), a)] # Made[u][a]

Check ==
  /\ \E u \in Units :
       /\ u \in Modules => loaded[u] # 0
       /\ skipped' = [skipped EXCEPT ![u] = {f \in Functions[u] : Differs(u, f)}]
       /\ marked' = [marked EXCEPT ![u] = {}]
  /\ UNCHANGED <<memory, loaded, told>>

\* The function that starts at an address, or those whose code takes it in.
MarkOnly(u, F) ==
  /\ skipped' = [skipped EXCEPT ![u] = @ \cup F]
  /\ marked' = [marked EXCEPT ![u] = @ \cup F]

Mark ==
  /\ \E u \in Units, a \in Addresses :
       \/ MarkOnly(u, {f \in Functions[u] : Start[u][f] = a})
       \/ MarkOnly(u, {f \in Functions[u] : a \in Code[u][f]})
  /\ UNCHANGED <<memory, loaded, told>>

\* The guest loads, unloads, patches or overwrites code.
Write ==
  /\ memory' \in [Addresses -> Values] /\ loaded' \in [Modules -> Addresses]
  /\ UNCHANGED <<told, skipped, marked>>

Next == Place \/ Check \/ Mark \/ Write

Spec == Init /\ [][Next]_vars

\* The code there is for an address, as the unit and the owner.
Found(k) ==
  UNION {{<<u, Entries[u][a]>> : a \in {a \in DOMAIN Entries[u] :
           /\ u \in Modules => told[u] # 0
           /\ Where(IF u \in Modules THEN told[u] ELSE 0, a) = k
           /\ Entries[u][a] \notin skipped[u]}} : u \in Units}
=============================================================================
