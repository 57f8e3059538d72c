------------------------------ MODULE Library ------------------------------
(***************************************************************************)
(* recomp_abi::Library, src/abi/src/lib.rs: the lookup of code, where      *)
(* modules are placed, and the check of a unit against memory.  A host     *)
(* calls it as docs/interface.md has it: place when the title loads or     *)
(* unloads a module, check when code is loaded, before the guest goes on.  *)
(***************************************************************************)
EXTENDS Tables

CONSTANTS
  Blank,      \* what is where no code is
  Bases,      \* bound: where the guest loads modules
  Patchable   \* bound: unit -> the addresses whose code a mod may change

VARIABLES
  memory,   \* the guest's: what is at each address
  loaded,   \* the guest's: where it has each module, 0 when unloaded
  due,      \* the calls the host has to make before the guest goes on
  base,     \* module -> the variable its Module's base points at
  placed,   \* the modules placed somewhere, as base, size and index
  stale,    \* unit -> the functions whose stale is 1 and start is NO_START
  marked    \* unit -> those marked after its last check, for properties only

guest == <<memory, loaded, due>>
vars == <<guest, base, placed, stale, marked>>

NoCode == <<>>
BaseOf(u) == IF u = Executable THEN 0 ELSE loaded[u]
Where(b, a) == (b + a) % Top

ASSUME LibraryAssumption ==
  /\ Blank \in Values
  /\ Bases \subseteq Addresses \ {0}
  /\ \A b \in Bases : Size[Executable] <= b
  /\ \A u \in Units : Patchable[u] \subseteq 0..Size[u] - 1
  /\ \A v \in Values : Values # {v}
-----------------------------------------------------------------------------
\* find: the entry, unless the function that runs it is stale.
Find(u, a) ==
  IF a \in DOMAIN Entries[u] /\ Entries[u][a] \notin stale[u]
  THEN <<u, Entries[u][a]>> ELSE NoCode

\* Mutant: the offset of an address before the module does not wrap.
TakesInBefore(p, k) == k - p.base < p.size

\* The module placed at p takes address k in.
TakesIn(p, k) == (k - p.base) % Top < p.size

\* lookup: in the executable, then in the first module that is placed there.
Lookup(k) ==
  LET There == {i \in 1..Len(placed) : TakesIn(placed[i], k)}
  IN IF Find(Executable, k) # NoCode THEN Find(Executable, k)
     ELSE IF There = {} THEN NoCode
     ELSE LET p == placed[CHOOSE i \in There : \A j \in There : i <= j]
          IN Find(p.index, k - p.base)

\* The modules placed without m, which is placed once at most.
Without(m) ==
  IF \E i \in 1..Len(placed) : placed[i].index = m
  THEN RemoveAt(placed, CHOOSE i \in 1..Len(placed) : placed[i].index = m)
  ELSE placed

\* Mutant: the module's last place stays in the list.
PlaceAgain(m, b) ==
  /\ base' = [base EXCEPT ![m] = b]
  /\ placed' = IF b = 0 THEN placed
               ELSE Append(placed, [base |-> b, size |-> Size[m], index |-> m])

\* Mutant: a module that goes away is placed at 0.
PlaceGone(m, b) ==
  /\ base' = [base EXCEPT ![m] = b]
  /\ placed' = Append(Without(m), [base |-> b, size |-> Size[m], index |-> m])

\* place: where module m was loaded, 0 when it goes away.
place(m, b) ==
  /\ base' = [base EXCEPT ![m] = b]
  /\ placed' = IF b = 0 THEN Without(m)
               ELSE Append(Without(m), [base |-> b, size |-> Size[m], index |-> m])

\* A piece hashes to something else than what it was made from.
Changed(u, b, i) == \E a \in InPiece(u, i) : memory[Where(b, a)] # Made[u][a]

\* changed_before: how many of the first n pieces changed.
ChangedBefore(u, b, n) == Cardinality({i \in 1..n : Changed(u, b, i)})

\* Mutant: functions found stale before stay stale.
CheckKeeps(u, b) ==
  stale' = [stale EXCEPT ![u] = @ \cup
    {f \in Functions[u] :
       \E r \in ToSet(Runs[u][f]) : ChangedBefore(u, b, r.end) > ChangedBefore(u, b, r.first)}]

\* check: functions with a run in which some piece changed, and no others.
check(u, b) ==
  stale' = [stale EXCEPT ![u] =
    {f \in Functions[u] :
       \E r \in ToSet(Runs[u][f]) : ChangedBefore(u, b, r.end) > ChangedBefore(u, b, r.first)}]
-----------------------------------------------------------------------------
\* Memory with the code of u at b, what a mod changes in it included.
Holding(before, u, b, changed) ==
  [a \in Addresses |->
     LET o == (a - b) % Top
     IN IF o >= Size[u] THEN before[a]
        ELSE IF o \in changed THEN CHOOSE v \in Values : v # Made[u][o]
        ELSE Made[u][o]]

ToCheck(u) == [call |-> "check", unit |-> u]
ToPlace(m) == [call |-> "place", unit |-> m]

\* The executable is in memory, and not checked yet.
Init ==
  /\ \E changed \in SUBSET Patchable[Executable] :
       memory = Holding([a \in Addresses |-> Blank], Executable, 0, changed)
  /\ loaded = [m \in Modules |-> 0]
  /\ due = {ToCheck(Executable)}
  /\ base = [m \in Modules |-> 0]
  /\ placed = <<>>
  /\ stale = [u \in Units |-> {}]
  /\ marked = [u \in Units |-> {}]

Apart(m, b) ==
  \A n \in Modules \ {m} : loaded[n] = 0 \/ b + Size[m] <= loaded[n] \/ loaded[n] + Size[n] <= b

\* The guest loads a module, has another version of it or a mod's,
Load ==
  /\ due = {}
  /\ \E m \in Modules, b \in Bases : \E changed \in SUBSET Patchable[m] :
       /\ loaded[m] = 0
       /\ b + Size[m] <= Top /\ Apart(m, b)
       /\ loaded' = [loaded EXCEPT ![m] = b]
       /\ memory' = Holding(memory, m, b, changed)
       /\ due' = {ToPlace(m), ToCheck(m)}
  /\ UNCHANGED <<base, placed, stale, marked>>

\* unloads one,
Unload ==
  /\ due = {}
  /\ \E m \in Modules :
       /\ loaded[m] # 0
       /\ loaded' = [loaded EXCEPT ![m] = 0]
       /\ due' = {ToPlace(m)}
  /\ UNCHANGED <<memory, base, placed, stale, marked>>

\* and a mod patches a unit that is in memory.
Patch ==
  /\ due = {}
  /\ \E u \in Units : \E changed \in SUBSET Patchable[u] :
       /\ u \in Modules => loaded[u] # 0
       /\ memory' = Holding(memory, u, BaseOf(u), changed)
       /\ due' = {ToCheck(u)}
  /\ UNCHANGED <<loaded, base, placed, stale, marked>>

\* The host tells where a module is now.
Place ==
  /\ \E m \in Modules :
       /\ ToPlace(m) \in due
       /\ place(m, loaded[m])
       /\ due' = due \ {ToPlace(m)}
  /\ UNCHANGED <<memory, loaded, stale, marked>>

\* It has the code checked, when that is due and whenever it likes.
Check ==
  /\ \E u \in Units :
       /\ u \in Modules => loaded[u] # 0
       /\ check(u, BaseOf(u))
       /\ marked' = [marked EXCEPT ![u] = {}]
       /\ due' = due \ {ToCheck(u)}
  /\ UNCHANGED <<memory, loaded, base, placed>>

Mark(u, F) ==
  /\ stale' = [stale EXCEPT ![u] = @ \cup F]
  /\ marked' = [marked EXCEPT ![u] = @ \cup F]

\* interpret: the function that starts there, if there is one.
Interpret ==
  /\ \E u \in Units : \E f \in Functions[u] : Mark(u, {f})
  /\ UNCHANGED <<guest, base, placed>>

\* interpret_at: the functions with the address in a piece of one of their
\* runs.
InterpretAt ==
  /\ \E u \in Units, a \in Addresses :
       Mark(u, {f \in Functions[u] :
         \E r \in ToSet(Runs[u][f]) : \E i \in r.first + 1..r.end : a \in InPiece(u, i)})
  /\ UNCHANGED <<guest, base, placed>>

Next == Load \/ Unload \/ Patch \/ Place \/ Check \/ Interpret \/ InterpretAt

Spec == Init /\ [][Next]_vars
-----------------------------------------------------------------------------
TypeOK ==
  /\ memory \in [Addresses -> Values]
  /\ loaded \in [Modules -> Bases \cup {0}]
  /\ due \subseteq {ToCheck(u) : u \in Units} \cup {ToPlace(m) : m \in Modules}
  /\ base \in [Modules -> Addresses]
  /\ placed \in Seq([base : Addresses \ {0}, size : Addresses, index : Modules])
  /\ stale \in [Units -> SUBSET UNION {Functions[u] : u \in Units}]
  /\ marked \in [Units -> SUBSET UNION {Functions[u] : u \in Units}]
  /\ \A u \in Units : stale[u] \subseteq Functions[u] /\ marked[u] \subseteq stale[u]

\* What the library promises a host.
Promise == INSTANCE Checked WITH told <- base, skipped <- stale
Implements == Promise!Spec

\* With the host's calls made, lookup finds what there is code for, wherever
\* modules come and go: the one code there is at an address, or none.
LookupIsRight ==
  due = {} =>
    \A k \in Addresses :
      IF Promise!Found(k) = {} THEN Lookup(k) = NoCode ELSE Promise!Found(k) = {Lookup(k)}

\* docs/interface.md, Origins: "find the functions that no longer match and
\* keep them from running": with the host's calls made, what lookup finds for
\* an address is of a unit that is loaded there, and a function's code in
\* memory is byte for byte what it was made from.
FoundIsAsMade ==
  due = {} =>
    \A k \in Addresses : Lookup(k) # NoCode =>
      LET u == Lookup(k)[1]
          f == Lookup(k)[2]
      IN /\ u \in Modules => loaded[u] # 0
         /\ \E a \in DOMAIN Entries[u] : Where(BaseOf(u), a) = k /\ Entries[u][a] = f
         /\ f # NO_ORIGIN =>
              \A a \in Code[u][f] : memory[Where(BaseOf(u), a)] = Made[u][a]
=============================================================================
