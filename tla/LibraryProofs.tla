--------------------------- MODULE LibraryProofs ---------------------------
(***************************************************************************)
(* Library finds what it promises, for every library and every guest that  *)
(* loads modules apart from one another and from the executable.           *)
(***************************************************************************)
EXTENDS Library, FiniteSetTheorems, SequenceTheorems, TLAPS

InMemory(u) == u = Executable \/ loaded[u] # 0
Extent(u) == BaseOf(u)..BaseOf(u) + Size[u] - 1

\* Every module the host placed is in the list once, as it was placed.
PlacesInv ==
  /\ \A i \in 1..Len(placed) :
       placed[i].size = Size[placed[i].index] /\ placed[i].base = base[placed[i].index]
  /\ \A i, j \in 1..Len(placed) : placed[i].index = placed[j].index => i = j
  /\ \A m \in Modules : base[m] # 0 => \E i \in 1..Len(placed) : placed[i].index = m

\* The host has told where modules are, but for the calls that are due.
ToldInv == \A m \in Modules : ToPlace(m) \notin due => base[m] = loaded[m]

\* What is in memory is apart, and fits below where addresses wrap.
LoadedInv ==
  /\ \A m \in Modules : loaded[m] # 0 => loaded[m] + Size[m] <= Top
  /\ \A m, n \in Modules :
       loaded[m] # 0 /\ loaded[n] # 0 /\ m # n =>
         loaded[m] + Size[m] <= loaded[n] \/ loaded[n] + Size[n] <= loaded[m]

\* Functions that are not stale are in memory as they were made, but for the
\* checks that are due.
CheckedInv ==
  \A u \in Units : InMemory(u) /\ ToCheck(u) \notin due =>
    \A f \in Functions[u] \ stale[u] : \A a \in Code[u][f] :
      memory[Where(BaseOf(u), a)] = Made[u][a]

Inv == TypeOK /\ PlacesInv /\ ToldInv /\ LoadedInv /\ CheckedInv
-----------------------------------------------------------------------------
\* Addresses wrap at Top.
LEMMA Wraps ==
  ASSUME NEW x \in Int, -Top <= x, x < Top
  PROVE  x % Top = IF x < 0 THEN x + Top ELSE x
<1>1. Top \in Nat /\ Top > 0
  BY TablesAssumption DEF TablesAssumption
<1> QED BY <1>1

LEMMA SizeFits ==
  ASSUME NEW u \in Units
  PROVE  Top \in Nat /\ Size[u] \in Nat /\ Size[u] < Top
BY TablesAssumption DEF TablesAssumption, Addresses

LEMMA BaseType ==
  ASSUME TypeOK
  PROVE  /\ \A m \in Modules : loaded[m] \in Addresses
         /\ \A u \in Units : BaseOf(u) \in Addresses
<1>1. 0 \in Addresses
  BY TablesAssumption DEF TablesAssumption, Addresses
<1>2. Bases \subseteq Addresses
  BY LibraryAssumption DEF LibraryAssumption
<1>3. \A m \in Modules : loaded[m] \in Addresses
  BY <1>1, <1>2 DEF TypeOK
<1> QED BY <1>1, <1>3 DEF BaseOf, Units

LEMMA BaseFits ==
  ASSUME TypeOK, LoadedInv, NEW u \in Units, InMemory(u)
  PROVE  /\ BaseOf(u) \in Nat
         /\ BaseOf(u) + Size[u] <= Top
         /\ u # Executable => BaseOf(u) # 0 /\ Size[Executable] <= BaseOf(u)
<1>1. Size[u] \in Nat /\ Size[u] < Top /\ Top \in Nat
  BY SizeFits
<1>2. CASE u = Executable
  BY <1>1, <1>2 DEF BaseOf
<1>3. CASE u # Executable
  <2>1. u \in Modules /\ loaded[u] # 0 /\ BaseOf(u) = loaded[u]
    BY <1>3 DEF Units, InMemory, BaseOf
  <2>2. loaded[u] \in Bases
    BY <2>1 DEF TypeOK
  <2>3. loaded[u] \in Nat /\ Size[Executable] <= loaded[u]
    <3>1. loaded[u] \in Addresses
      BY <2>2, LibraryAssumption DEF LibraryAssumption
    <3>2. Size[Executable] <= loaded[u]
      BY <2>2, LibraryAssumption DEF LibraryAssumption
    <3> QED BY <3>1, <3>2, <1>1 DEF Addresses
  <2> QED BY <1>3, <2>1, <2>3 DEF LoadedInv
<1> QED BY <1>2, <1>3

\* An address of a unit in memory does not wrap.
LEMMA WhereIs ==
  ASSUME TypeOK, LoadedInv, NEW u \in Units, InMemory(u), NEW a \in 0..Size[u] - 1
  PROVE  /\ Where(BaseOf(u), a) = BaseOf(u) + a
         /\ Where(BaseOf(u), a) \in Extent(u)
         /\ Where(BaseOf(u), a) \in Addresses
<1>1. BaseOf(u) \in Nat /\ BaseOf(u) + Size[u] <= Top /\ Size[u] \in Nat /\ Top \in Nat
  BY BaseFits, SizeFits
<1>2. BaseOf(u) + a \in Int /\ 0 <= BaseOf(u) + a /\ BaseOf(u) + a < Top
  BY <1>1
<1>3. (BaseOf(u) + a) % Top = BaseOf(u) + a
  BY <1>1, <1>2, Wraps
<1> QED BY <1>1, <1>2, <1>3 DEF Where, Extent, Addresses

\* What takes an address in, with an offset from a unit that may wrap.
LEMMA OffsetIs ==
  ASSUME NEW b \in Nat, NEW s \in Nat, b + s <= Top, s < Top, NEW k \in Addresses
  PROVE  /\ (k - b) % Top < s <=> b <= k /\ k < b + s
         /\ b <= k => (k - b) % Top = k - b
<1>1. Top \in Nat /\ k \in Nat /\ k < Top /\ b <= Top
  BY TablesAssumption DEF TablesAssumption, Addresses
<1>2. k - b \in Int /\ -Top <= k - b /\ k - b < Top
  BY <1>1
<1>3. (k - b) % Top = IF k - b < 0 THEN k - b + Top ELSE k - b
  BY <1>2, Wraps
<1> QED BY <1>1, <1>3

\* Units in memory do not share an address.
LEMMA UnitsApart ==
  ASSUME TypeOK, LoadedInv, NEW u \in Units, NEW v \in Units, InMemory(u), InMemory(v), u # v,
         NEW k \in Extent(u)
  PROVE  k \notin Extent(v)
<1>1. /\ BaseOf(u) \in Nat /\ BaseOf(v) \in Nat /\ Size[u] \in Nat /\ Size[v] \in Nat
  BY BaseFits, SizeFits
<1>2. BaseOf(u) + Size[u] <= BaseOf(v) \/ BaseOf(v) + Size[v] <= BaseOf(u)
  <2>1. CASE u = Executable
    BY <2>1, <1>1, BaseFits DEF BaseOf
  <2>2. CASE v = Executable
    BY <2>2, <1>1, BaseFits DEF BaseOf
  <2>3. CASE u # Executable /\ v # Executable
    <3>1. u \in Modules /\ v \in Modules /\ loaded[u] # 0 /\ loaded[v] # 0
      BY <2>3 DEF Units, InMemory
    <3> QED BY <2>3, <3>1 DEF LoadedInv, BaseOf
  <2> QED BY <2>1, <2>2, <2>3
<1> QED BY <1>1, <1>2 DEF Extent

\* Code written to a unit leaves what is outside it.
LEMMA HoldingKeeps ==
  ASSUME NEW before, NEW u \in Units, NEW b \in Nat, b + Size[u] <= Top, NEW changed,
         NEW k \in Addresses, k \notin b..b + Size[u] - 1
  PROVE  Holding(before, u, b, changed)[k] = before[k]
<1>1. Size[u] \in Nat /\ Size[u] < Top /\ k \in Nat /\ Top \in Nat
  BY SizeFits DEF Addresses
<1>2. ~((k - b) % Top < Size[u])
  BY <1>1, OffsetIs
<1>3. (k - b) % Top \in Nat
  BY <1>1
<1>4. (k - b) % Top >= Size[u]
  BY <1>1, <1>2, <1>3
<1> QED BY <1>4 DEF Holding

LEMMA HoldingType ==
  ASSUME NEW before \in [Addresses -> Values], NEW u \in Units, NEW b \in Nat, b + Size[u] <= Top,
         NEW changed
  PROVE  Holding(before, u, b, changed) \in [Addresses -> Values]
<1> SUFFICES ASSUME NEW k \in Addresses
             PROVE  Holding(before, u, b, changed)[k] \in Values
  BY DEF Holding
<1> DEFINE o == (k - b) % Top
<1>1. o \in Addresses
  BY TablesAssumption DEF TablesAssumption, Addresses
<1>2. Made[u][o] \in Values
  BY <1>1, TablesAssumption DEF TablesAssumption
<1>3. \E v \in Values : v # Made[u][o]
  BY <1>2, LibraryAssumption DEF LibraryAssumption
<1> HIDE DEF o
<1>4. (CHOOSE v \in Values : v # Made[u][o]) \in Values
  BY <1>3
<1>5. Holding(before, u, b, changed)[k] =
        IF o >= Size[u] THEN before[k]
        ELSE IF o \in changed THEN CHOOSE v \in Values : v # Made[u][o]
        ELSE Made[u][o]
  BY DEF Holding, o
<1> QED BY <1>2, <1>4, <1>5
-----------------------------------------------------------------------------
\* changed_before: the counts before and after a run differ if a piece in it
\* changed.
LEMMA RunChanged ==
  ASSUME NEW u \in Units, NEW b, NEW first \in Nat, NEW end \in Nat
  PROVE  ChangedBefore(u, b, end) > ChangedBefore(u, b, first)
           <=> \E i \in first + 1..end : Changed(u, b, i)
<1> DEFINE P(n) == {i \in 1..n : Changed(u, b, i)}
<1>1. \A n \in Nat : IsFiniteSet(P(n)) /\ Cardinality(P(n)) \in Nat
  <2> TAKE n \in Nat
  <2>1. IsFiniteSet(1..n)
    BY FS_Interval
  <2>2. IsFiniteSet(P(n))
    BY <2>1, FS_Subset
  <2> QED BY <2>2, FS_CardinalityType
<1>2. \A n \in Nat : ChangedBefore(u, b, n) = Cardinality(P(n))
  BY DEF ChangedBefore
<1>3. CASE end <= first
  <2>1. P(end) \subseteq P(first)
    BY <1>3
  <2>2. Cardinality(P(end)) <= Cardinality(P(first))
    <3> HIDE DEF P
    <3> QED BY <1>1, <2>1, FS_Subset
  <2>3. ~ChangedBefore(u, b, end) > ChangedBefore(u, b, first)
    <3> HIDE DEF P
    <3> QED BY <1>1, <1>2, <2>2
  <2> QED BY <1>3, <2>3
<1>4. CASE first < end
  <2>1. P(first) \subseteq P(end)
    BY <1>4
  <2>2. /\ Cardinality(P(first)) <= Cardinality(P(end))
        /\ Cardinality(P(first)) = Cardinality(P(end)) => P(first) = P(end)
    <3> HIDE DEF P
    <3> QED BY <1>1, <2>1, FS_Subset
  <2>3. P(first) # P(end) <=> \E i \in first + 1..end : Changed(u, b, i)
    BY <1>4
  <2> HIDE DEF P
  <2> QED BY <1>1, <1>2, <2>2, <2>3
<1> QED BY <1>3, <1>4

\* A function's code is the pieces of its runs.
LEMMA CodeIs ==
  ASSUME NEW u \in Units, NEW f \in Functions[u]
  PROVE  \A a : a \in Code[u][f] <=>
           \E r \in ToSet(Runs[u][f]) : \E i \in r.first + 1..r.end : a \in InPiece(u, i)
<1>1. Code[u][f] = InRuns(u, f)
  BY OriginsAssumption DEF OriginsAssumption
<1> QED BY <1>1, Zenon DEF InRuns

\* check finds the functions whose bytes are not what they were made from.
LEMMA CheckFinds ==
  ASSUME NEW u \in Units, NEW b, NEW f \in Functions[u]
  PROVE  (\E r \in ToSet(Runs[u][f]) : ChangedBefore(u, b, r.end) > ChangedBefore(u, b, r.first))
           <=> \E a \in Code[u][f] : memory[Where(b, a)] # Made[u][a]
<1>1. \A r \in ToSet(Runs[u][f]) : r.first \in Nat /\ r.end \in Nat
  <2> DEFINE R == [first : 0..Len(Pieces[u]), end : 0..Len(Pieces[u])]
  <2>1. Runs[u][f] \in Seq(R)
    BY OriginsAssumption DEF OriginsAssumption
  <2>2. Len(Pieces[u]) \in Nat
    BY OriginsAssumption DEF OriginsAssumption
  <2>3. \A r \in R : r.first \in Nat /\ r.end \in Nat
    BY <2>2
  <2>4. ToSet(Runs[u][f]) \subseteq R
    <3> HIDE DEF R
    <3>1. DOMAIN Runs[u][f] = 1..Len(Runs[u][f])
      BY <2>1
    <3>2. \A i \in 1..Len(Runs[u][f]) : Runs[u][f][i] \in R
      BY <2>1
    <3> QED BY <3>1, <3>2 DEF ToSet
  <2> QED BY <2>3, <2>4
<1>2. \A a : a \in Code[u][f] <=>
        \E r \in ToSet(Runs[u][f]) : \E i \in r.first + 1..r.end : a \in InPiece(u, i)
  BY CodeIs
<1>3. \A r \in ToSet(Runs[u][f]) :
        ChangedBefore(u, b, r.end) > ChangedBefore(u, b, r.first)
          <=> \E i \in r.first + 1..r.end : Changed(u, b, i)
  BY <1>1, RunChanged
<1>4. (\E a \in Code[u][f] : memory[Where(b, a)] # Made[u][a])
        <=> \E r \in ToSet(Runs[u][f]) : \E i \in r.first + 1..r.end : Changed(u, b, i)
  BY <1>2 DEF Changed
<1> QED BY <1>3, <1>4

\* A sequence without its i-th element.
LEMMA RemoveAtIs ==
  ASSUME NEW S, NEW s \in Seq(S), NEW i \in 1..Len(s)
  PROVE  /\ RemoveAt(s, i) \in Seq(S)
         /\ Len(RemoveAt(s, i)) = Len(s) - 1
         /\ \A j \in 1..Len(s) - 1 : RemoveAt(s, i)[j] = IF j < i THEN s[j] ELSE s[j + 1]
<1>1. Len(s) \in Nat
  OBVIOUS
<1>2. /\ SubSeq(s, 1, i - 1) \in Seq(S)
      /\ Len(SubSeq(s, 1, i - 1)) = i - 1
      /\ \A j \in 1..i - 1 : SubSeq(s, 1, i - 1)[j] = s[j]
  BY <1>1
<1>3. /\ SubSeq(s, i + 1, Len(s)) \in Seq(S)
      /\ Len(SubSeq(s, i + 1, Len(s))) = Len(s) - i
      /\ \A j \in 1..Len(s) - i : SubSeq(s, i + 1, Len(s))[j] = s[i + j]
  BY <1>1
<1> DEFINE a == SubSeq(s, 1, i - 1)
           b == SubSeq(s, i + 1, Len(s))
<1>4. RemoveAt(s, i) = a \o b
  BY DEF RemoveAt
<1> HIDE DEF a, b
<1>5. /\ a \in Seq(S) /\ Len(a) = i - 1 /\ \A j \in 1..i - 1 : a[j] = s[j]
      /\ b \in Seq(S) /\ Len(b) = Len(s) - i /\ \A j \in 1..Len(s) - i : b[j] = s[i + j]
  BY <1>2, <1>3 DEF a, b
<1>6. /\ a \o b \in Seq(S) /\ Len(a \o b) = Len(s) - 1
      /\ \A j \in 1..Len(s) - 1 : (a \o b)[j] = IF j <= i - 1 THEN a[j] ELSE b[j - (i - 1)]
  <2>1. a \o b \in Seq(S) /\ Len(a \o b) = Len(a) + Len(b)
    BY <1>5, ConcatProperties
  <2>2. Len(a) + Len(b) = Len(s) - 1
    BY <1>1, <1>5
  <2>3. \A j \in 1..Len(a) + Len(b) :
          (a \o b)[j] = IF j <= Len(a) THEN a[j] ELSE b[j - Len(a)]
    BY <1>5
  <2> QED BY <2>1, <2>2, <2>3, <1>5
<1>7. ASSUME NEW j \in 1..Len(s) - 1
      PROVE  (a \o b)[j] = IF j < i THEN s[j] ELSE s[j + 1]
  <2>1. CASE j < i
    BY <2>1, <1>1, <1>5, <1>6
  <2>2. CASE ~(j < i)
    <3>1. j - (i - 1) \in 1..Len(s) - i /\ i + (j - (i - 1)) = j + 1
      BY <2>2, <1>1
    <3>2. b[j - (i - 1)] = s[j + 1]
      BY <3>1, <1>5
    <3> QED BY <2>2, <3>2, <1>1, <1>6
  <2> QED BY <2>1, <2>2
<1> QED BY <1>4, <1>6, <1>7

\* retain: the other modules are in the list as they were.
LEMMA WithoutIs ==
  ASSUME TypeOK, PlacesInv, NEW m \in Modules
  PROVE  /\ Without(m) \in Seq([base : Addresses \ {0}, size : Addresses, index : Modules])
         /\ \A j \in 1..Len(Without(m)) :
              Without(m)[j].index # m /\ \E i \in 1..Len(placed) : Without(m)[j] = placed[i]
         /\ \A i \in 1..Len(placed) : placed[i].index # m =>
              \E j \in 1..Len(Without(m)) : Without(m)[j] = placed[i]
         /\ \A i, j \in 1..Len(Without(m)) : Without(m)[i].index = Without(m)[j].index => i = j
<1> DEFINE P == [base : Addresses \ {0}, size : Addresses, index : Modules]
<1>1. placed \in Seq(P) /\ Len(placed) \in Nat
  BY DEF TypeOK
<1>2. \A i, j \in 1..Len(placed) : placed[i].index = placed[j].index => i = j
  BY DEF PlacesInv
<1> HIDE DEF P
<1> SUFFICES /\ Without(m) \in Seq(P)
             /\ \A j \in 1..Len(Without(m)) :
                  Without(m)[j].index # m /\ \E i \in 1..Len(placed) : Without(m)[j] = placed[i]
             /\ \A i \in 1..Len(placed) : placed[i].index # m =>
                  \E j \in 1..Len(Without(m)) : Without(m)[j] = placed[i]
             /\ \A i, j \in 1..Len(Without(m)) :
                  Without(m)[i].index = Without(m)[j].index => i = j
  BY DEF P
<1>3. CASE ~ \E i \in 1..Len(placed) : placed[i].index = m
  <2>1. Without(m) = placed
    BY <1>3 DEF Without
  <2> QED BY <2>1, <1>1, <1>2, <1>3
<1>4. CASE \E i \in 1..Len(placed) : placed[i].index = m
  <2> DEFINE at == CHOOSE i \in 1..Len(placed) : placed[i].index = m
             w == RemoveAt(placed, at)
  <2>1. at \in 1..Len(placed) /\ placed[at].index = m
    BY <1>4
  <2>2. Without(m) = w
    BY <1>4 DEF Without
  <2> HIDE DEF at
  <2>3. /\ w \in Seq(P) /\ Len(w) = Len(placed) - 1
        /\ \A j \in 1..Len(placed) - 1 : w[j] = IF j < at THEN placed[j] ELSE placed[j + 1]
    BY <1>1, <2>1, RemoveAtIs
  <2> HIDE DEF w
  <2> DEFINE from(j) == IF j < at THEN j ELSE j + 1
  <2>4. \A j \in 1..Len(w) : from(j) \in 1..Len(placed) /\ from(j) # at /\ w[j] = placed[from(j)]
    BY <1>1, <2>1, <2>3
  <2>5. \A i, j \in 1..Len(w) : from(i) = from(j) => i = j
    BY <1>1, <2>1, <2>3
  <2>6. \A i \in 1..Len(placed) : i # at => \E j \in 1..Len(w) : from(j) = i
    <3> TAKE i \in 1..Len(placed)
    <3> HAVE i # at
    <3> DEFINE j == IF i < at THEN i ELSE i - 1
    <3>1. j \in 1..Len(w) /\ from(j) = i
      BY <1>1, <2>1, <2>3
    <3> QED BY <3>1
  <2> HIDE DEF from
  <2>7. \A j \in 1..Len(w) : w[j].index # m
    BY <1>2, <2>1, <2>4
  <2>8. \A i, j \in 1..Len(w) : w[i].index = w[j].index => i = j
    BY <1>2, <2>4, <2>5
  <2>9. \A i \in 1..Len(placed) : placed[i].index # m => \E j \in 1..Len(w) : w[j] = placed[i]
    BY <2>1, <2>4, <2>6
  <2> QED BY <2>2, <2>3, <2>4, <2>7, <2>8, <2>9
<1> QED BY <1>3, <1>4
-----------------------------------------------------------------------------
LEMMA InvInit == Init => Inv
<1> SUFFICES ASSUME Init PROVE Inv
  OBVIOUS
<1>1. PICK changed : memory = Holding([a \in Addresses |-> Blank], Executable, 0, changed)
  BY DEF Init
<1>2. Executable \in Units /\ Size[Executable] \in Nat /\ Size[Executable] < Top
  BY SizeFits DEF Units
<1>3. memory \in [Addresses -> Values]
  <2>1. [a \in Addresses |-> Blank] \in [Addresses -> Values]
    BY LibraryAssumption DEF LibraryAssumption
  <2>2. 0 + Size[Executable] <= Top /\ 0 \in Nat
    BY <1>2, SizeFits
  <2> QED BY <1>1, <1>2, <2>1, <2>2, HoldingType
<1>4. 0 \in Addresses
  BY TablesAssumption DEF TablesAssumption, Addresses
<1>5. TypeOK
  BY <1>2, <1>3, <1>4 DEF Init, TypeOK
<1>6. PlacesInv
  BY DEF Init, PlacesInv
<1>7. ToldInv
  BY DEF Init, ToldInv
<1>8. LoadedInv
  BY DEF Init, LoadedInv
<1>9. CheckedInv
  BY DEF Init, CheckedInv, InMemory, Units
<1> QED BY <1>5, <1>6, <1>7, <1>8, <1>9 DEF Inv

\* Code written to unit u is what its check finds, and no other unit's.
LEMMA WriteChecked ==
  ASSUME TypeOK, LoadedInv, CheckedInv, NEW u \in Units, NEW b \in Nat, b + Size[u] <= Top,
         NEW changed, NEW mem, mem = Holding(memory, u, b, changed),
         NEW v \in Units, v # u, InMemory(v), ToCheck(v) \notin due,
         \A k \in Extent(v) : k \notin b..b + Size[u] - 1
  PROVE  \A f \in Functions[v] \ stale[v] : \A a \in Code[v][f] :
           mem[Where(BaseOf(v), a)] = Made[v][a]
<1> SUFFICES ASSUME NEW f \in Functions[v] \ stale[v], NEW a \in Code[v][f]
             PROVE  mem[Where(BaseOf(v), a)] = Made[v][a]
  OBVIOUS
<1>1. a \in 0..Size[v] - 1
  BY TablesAssumption DEF TablesAssumption
<1>2. Where(BaseOf(v), a) \in Extent(v) /\ Where(BaseOf(v), a) \in Addresses
  BY <1>1, WhereIs
<1>3. mem[Where(BaseOf(v), a)] = memory[Where(BaseOf(v), a)]
  BY <1>2, HoldingKeeps
<1>4. memory[Where(BaseOf(v), a)] = Made[v][a]
  BY DEF CheckedInv
<1> QED BY <1>3, <1>4

LEMMA InvLoad == Inv /\ Load => Inv'
<1> SUFFICES ASSUME Inv, Load PROVE Inv'
  OBVIOUS
<1> USE DEF Inv
<1> DEFINE P(m, b, changed) ==
        /\ loaded[m] = 0
        /\ b + Size[m] <= Top /\ Apart(m, b)
        /\ loaded' = [loaded EXCEPT ![m] = b]
        /\ memory' = Holding(memory, m, b, changed)
        /\ due' = {ToPlace(m), ToCheck(m)}
<1>a. PICK m \in Modules, b \in Bases : \E changed \in SUBSET Patchable[m] : P(m, b, changed)
  BY DEF Load
<1>b. PICK changed \in SUBSET Patchable[m] : P(m, b, changed)
  BY <1>a
<1>0. P(m, b, changed)
  BY <1>b
<1>1. due = {} /\ base' = base /\ placed' = placed /\ stale' = stale /\ marked' = marked
  BY DEF Load
<1>2. /\ m \in Units /\ m # Executable /\ b \in Nat /\ b # 0 /\ b \in Addresses
      /\ Size[Executable] <= b
  BY LibraryAssumption, TablesAssumption DEF LibraryAssumption, TablesAssumption, Units, Addresses
<1>3. /\ loaded'[m] = b
      /\ \A n \in Modules \ {m} : loaded'[n] = loaded[n]
  BY <1>0 DEF TypeOK
<1>4. TypeOK'
  <2>1. memory' \in [Addresses -> Values]
    BY <1>0, <1>2, HoldingType DEF TypeOK
  <2>2. loaded' \in [Modules -> Bases \cup {0}]
    BY <1>0 DEF TypeOK
  <2>3. due' \subseteq {ToCheck(u) : u \in Units} \cup {ToPlace(n) : n \in Modules}
    BY <1>0, <1>2
  <2> QED BY <2>1, <2>2, <2>3, <1>1 DEF TypeOK
<1>5. PlacesInv'
  BY <1>1 DEF PlacesInv
<1>6. ToldInv'
  BY <1>0, <1>1, <1>3 DEF ToldInv
<1>7. LoadedInv'
  <2>1. \A n \in Modules \ {m} : loaded[n] # 0 => b + Size[m] <= loaded[n] \/ loaded[n] + Size[n] <= b
    BY <1>0 DEF Apart
  <2> QED BY <1>0, <1>3, <2>1 DEF LoadedInv
<1>8. CheckedInv'
  <2> SUFFICES ASSUME NEW v \in Units, InMemory(v)', ToCheck(v) \notin due'
               PROVE  \A f \in Functions[v] \ stale[v] : \A a \in Code[v][f] :
                        memory'[Where(BaseOf(v)', a)] = Made[v][a]
    BY <1>1 DEF CheckedInv, Where
  <2>1. v # m
    BY <1>0
  <2>2. InMemory(v) /\ BaseOf(v)' = BaseOf(v)
    BY <1>3, <2>1 DEF InMemory, BaseOf, Units
  <2>3. ASSUME NEW k \in Extent(v) PROVE k \notin b..b + Size[m] - 1
    <3>1. BaseOf(v) \in Nat /\ Size[v] \in Nat /\ Size[m] \in Nat
      BY <2>2, <1>2, BaseFits, SizeFits
    <3>2. BaseOf(v) + Size[v] <= b \/ b + Size[m] <= BaseOf(v)
      <4>1. CASE v = Executable
        BY <4>1, <1>2, <3>1 DEF BaseOf
      <4>2. CASE v # Executable
        <5>1. v \in Modules \ {m} /\ loaded[v] # 0 /\ BaseOf(v) = loaded[v]
          BY <4>2, <2>1, <2>2 DEF Units, InMemory, BaseOf
        <5> QED BY <5>1, <1>0 DEF Apart
      <4> QED BY <4>1, <4>2
    <3> QED BY <3>1, <3>2, <1>2 DEF Extent
  <2>4. ToCheck(v) \notin due
    BY <1>1
  <2>5. \A f \in Functions[v] \ stale[v] : \A a \in Code[v][f] :
          memory'[Where(BaseOf(v), a)] = Made[v][a]
    BY <1>0, <1>2, <2>1, <2>2, <2>3, <2>4, WriteChecked
  <2> QED BY <2>2, <2>5
<1> QED BY <1>4, <1>5, <1>6, <1>7, <1>8

LEMMA InvUnload == Inv /\ Unload => Inv'
<1> SUFFICES ASSUME Inv, Unload PROVE Inv'
  OBVIOUS
<1> USE DEF Inv
<1>0. PICK m \in Modules : loaded' = [loaded EXCEPT ![m] = 0] /\ due' = {ToPlace(m)}
  BY DEF Unload
<1>1. /\ due = {} /\ memory' = memory /\ base' = base /\ placed' = placed
      /\ stale' = stale /\ marked' = marked
  BY DEF Unload
<1>2. loaded'[m] = 0 /\ \A n \in Modules \ {m} : loaded'[n] = loaded[n]
  BY <1>0 DEF TypeOK
<1>3. TypeOK'
  BY <1>0, <1>1 DEF TypeOK
<1>4. PlacesInv'
  BY <1>1 DEF PlacesInv
<1>5. ToldInv'
  BY <1>0, <1>1, <1>2 DEF ToldInv
<1>6. LoadedInv'
  BY <1>2 DEF LoadedInv
<1>7. CheckedInv'
  <2> SUFFICES ASSUME NEW v \in Units, InMemory(v)'
               PROVE  \A f \in Functions[v] \ stale[v] : \A a \in Code[v][f] :
                        memory[Where(BaseOf(v)', a)] = Made[v][a]
    BY <1>1 DEF CheckedInv, Where
  <2>1. InMemory(v) /\ BaseOf(v)' = BaseOf(v)
    BY <1>2 DEF InMemory, BaseOf, Units
  <2> QED BY <2>1, <1>1 DEF CheckedInv
<1> QED BY <1>3, <1>4, <1>5, <1>6, <1>7

LEMMA InvPatch == Inv /\ Patch => Inv'
<1> SUFFICES ASSUME Inv, Patch PROVE Inv'
  OBVIOUS
<1> USE DEF Inv
<1> DEFINE P(u, changed) ==
        /\ u \in Modules => loaded[u] # 0
        /\ memory' = Holding(memory, u, BaseOf(u), changed)
        /\ due' = {ToCheck(u)}
<1>a. PICK u \in Units : \E changed \in SUBSET Patchable[u] : P(u, changed)
  BY DEF Patch
<1>b. PICK changed \in SUBSET Patchable[u] : P(u, changed)
  BY <1>a
<1>0. P(u, changed)
  BY <1>b
<1>1. /\ due = {} /\ loaded' = loaded /\ base' = base /\ placed' = placed
      /\ stale' = stale /\ marked' = marked
  BY DEF Patch
<1>2. InMemory(u)
  BY <1>0 DEF InMemory, Units
<1>3. BaseOf(u) \in Nat /\ BaseOf(u) + Size[u] <= Top
  BY <1>2, BaseFits
<1>4. TypeOK'
  <2>1. memory' \in [Addresses -> Values]
    BY <1>0, <1>3, HoldingType DEF TypeOK
  <2> QED BY <2>1, <1>0, <1>1 DEF TypeOK
<1>5. PlacesInv' /\ LoadedInv'
  BY <1>1 DEF PlacesInv, LoadedInv
<1>6. ToldInv'
  BY <1>1 DEF ToldInv
<1>7. CheckedInv'
  <2> SUFFICES ASSUME NEW v \in Units, InMemory(v), ToCheck(v) \notin due'
               PROVE  \A f \in Functions[v] \ stale[v] : \A a \in Code[v][f] :
                        memory'[Where(BaseOf(v), a)] = Made[v][a]
    BY <1>1 DEF CheckedInv, Where, InMemory, BaseOf
  <2>1. v # u
    BY <1>0
  <2>2. \A k \in Extent(v) : k \notin BaseOf(u)..BaseOf(u) + Size[u] - 1
    BY <1>2, <2>1, UnitsApart DEF Extent
  <2> QED BY <1>0, <1>1, <1>3, <2>1, <2>2, WriteChecked
<1> QED BY <1>4, <1>5, <1>6, <1>7

LEMMA InvPlace == Inv /\ Place => Inv'
<1> SUFFICES ASSUME Inv, Place PROVE Inv'
  OBVIOUS
<1> USE DEF Inv
<1>0. PICK m \in Modules : /\ ToPlace(m) \in due
                           /\ place(m, loaded[m])
                           /\ due' = due \ {ToPlace(m)}
  BY DEF Place
<1>1. memory' = memory /\ loaded' = loaded /\ stale' = stale /\ marked' = marked
  BY DEF Place
<1> DEFINE P == [base : Addresses \ {0}, size : Addresses, index : Modules]
           last == [base |-> loaded[m], size |-> Size[m], index |-> m]
           w == Without(m)
<1>2. base' = [base EXCEPT ![m] = loaded[m]] /\ placed' = IF loaded[m] = 0 THEN w ELSE Append(w, last)
  BY <1>0 DEF place
<1>3. loaded[m] \in Addresses /\ Size[m] \in Addresses
  <2>1. loaded[m] \in Bases \cup {0} /\ 0 \in Addresses
    BY TablesAssumption DEF TypeOK, TablesAssumption, Addresses
  <2> QED BY <2>1, LibraryAssumption, TablesAssumption DEF LibraryAssumption, TablesAssumption, Units
<1>4. base'[m] = loaded[m] /\ \A n \in Modules \ {m} : base'[n] = base[n]
  BY <1>2 DEF TypeOK
<1>5. loaded[m] # 0 => last \in P
  BY <1>3
<1>6. /\ w \in Seq(P)
      /\ \A j \in 1..Len(w) : w[j].index # m /\ \E i \in 1..Len(placed) : w[j] = placed[i]
      /\ \A i \in 1..Len(placed) : placed[i].index # m => \E j \in 1..Len(w) : w[j] = placed[i]
      /\ \A i, j \in 1..Len(w) : w[i].index = w[j].index => i = j
  BY WithoutIs
<1>7. \A j \in 1..Len(w) : w[j].index \in Modules
  <2> HIDE DEF w, P
  <2>1. \A j \in 1..Len(w) : w[j] \in P
    BY <1>6
  <2> QED BY <2>1 DEF P
<1>8. last.index = m /\ last.base = loaded[m] /\ last.size = Size[m]
  OBVIOUS
<1> HIDE DEF w, P, last
\* The elements of the list after the call.
<1>9. /\ placed' \in Seq(P)
      /\ \A j \in 1..Len(placed') : \/ j \in 1..Len(w) /\ placed'[j] = w[j]
                                    \/ loaded[m] # 0 /\ j = Len(w) + 1 /\ placed'[j] = last
      /\ \A j \in 1..Len(w) : j \in 1..Len(placed') /\ placed'[j] = w[j]
      /\ loaded[m] # 0 => Len(w) + 1 \in 1..Len(placed') /\ placed'[Len(w) + 1] = last
  <2>1. CASE loaded[m] = 0
    BY <1>2, <1>6, <2>1
  <2>2. CASE loaded[m] # 0
    <3>1. placed' = Append(w, last)
      BY <1>2, <2>2
    <3>2. /\ Append(w, last) \in Seq(P) /\ Len(Append(w, last)) = Len(w) + 1
          /\ \A j \in 1..Len(w) : Append(w, last)[j] = w[j]
          /\ Append(w, last)[Len(w) + 1] = last
      BY <1>5, <1>6, <2>2, AppendProperties
    <3>3. Len(w) \in Nat
      BY <1>6
    <3> QED BY <2>2, <3>1, <3>2, <3>3
  <2> QED BY <2>1, <2>2
<1>10. TypeOK'
  <2>1. base' \in [Modules -> Addresses]
    BY <1>2, <1>3 DEF TypeOK
  <2>2. due' \subseteq due
    BY <1>0
  <2> QED BY <2>1, <2>2, <1>1, <1>9 DEF TypeOK, P
<1>11. PlacesInv'
  <2>1. ASSUME NEW j \in 1..Len(placed')
        PROVE  placed'[j].size = Size[placed'[j].index] /\ placed'[j].base = base'[placed'[j].index]
    <3>1. CASE j \in 1..Len(w) /\ placed'[j] = w[j]
      <4>1. PICK i \in 1..Len(placed) : w[j] = placed[i]
        BY <1>6, <3>1
      <4>2. placed[i].size = Size[placed[i].index] /\ placed[i].base = base[placed[i].index]
        BY DEF PlacesInv
      <4>3. w[j].index \in Modules \ {m}
        BY <1>6, <1>7, <3>1
      <4> QED BY <1>4, <3>1, <4>1, <4>2, <4>3
    <3>2. CASE placed'[j] = last
      BY <1>4, <1>8, <3>2
    <3> QED BY <1>9, <3>1, <3>2
  <2>2. ASSUME NEW i \in 1..Len(placed'), NEW j \in 1..Len(placed'),
               placed'[i].index = placed'[j].index
        PROVE  i = j
    <3>1. CASE i \in 1..Len(w) /\ j \in 1..Len(w)
      BY <1>6, <1>9, <2>2, <3>1
    <3>2. CASE i \notin 1..Len(w) \/ j \notin 1..Len(w)
      BY <1>6, <1>8, <1>9, <2>2, <3>2
    <3> QED BY <3>1, <3>2
  <2>3. ASSUME NEW n \in Modules, base'[n] # 0
        PROVE  \E i \in 1..Len(placed') : placed'[i].index = n
    <3>1. CASE n = m
      BY <1>4, <1>8, <1>9, <2>3, <3>1
    <3>2. CASE n # m
      <4>1. PICK i \in 1..Len(placed) : placed[i].index = n
        BY <1>4, <2>3, <3>2 DEF PlacesInv
      <4>2. PICK j \in 1..Len(w) : w[j] = placed[i]
        BY <1>6, <3>2, <4>1
      <4> QED BY <1>9, <4>1, <4>2
    <3> QED BY <3>1, <3>2
  <2> QED BY <2>1, <2>2, <2>3 DEF PlacesInv
<1>12. ToldInv'
  <2> SUFFICES ASSUME NEW n \in Modules, ToPlace(n) \notin due' PROVE base'[n] = loaded[n]
    BY <1>1 DEF ToldInv, ToPlace
  <2>1. CASE n = m
    BY <1>4, <2>1
  <2>2. CASE n # m
    <3>1. ToPlace(n) # ToPlace(m)
      BY <2>2 DEF ToPlace
    <3>2. ToPlace(n) \notin due
      BY <1>0, <3>1
    <3> QED BY <1>4, <2>2, <3>2 DEF ToldInv
  <2> QED BY <2>1, <2>2
<1>13. LoadedInv'
  BY <1>1 DEF LoadedInv
<1>14. CheckedInv'
  <2>1. \A u : ToCheck(u) \notin due' => ToCheck(u) \notin due
    <3>1. \A u : ToCheck(u) # ToPlace(m)
      BY DEF ToCheck, ToPlace
    <3> QED BY <1>0, <3>1
  <2> QED BY <1>1, <2>1 DEF CheckedInv, InMemory, BaseOf, Where, ToCheck
<1> QED BY <1>10, <1>11, <1>12, <1>13, <1>14

\* Functions that are marked stale, and no others, change nothing else.
LEMMA InvMarked ==
  ASSUME Inv, guest' = guest, base' = base, placed' = placed,
         NEW u \in Units, NEW F \in SUBSET Functions[u],
         Mark(u, F)
  PROVE  Inv'
<1> USE DEF Inv, guest, Mark
<1>1. \A v \in Units : /\ stale[v] \subseteq stale'[v] /\ stale'[v] \subseteq Functions[v]
                       /\ marked'[v] \subseteq stale'[v]
  BY DEF TypeOK
<1>2. TypeOK'
  <2>1. /\ stale' \in [Units -> SUBSET UNION {Functions[v] : v \in Units}]
        /\ marked' \in [Units -> SUBSET UNION {Functions[v] : v \in Units}]
    BY DEF TypeOK
  <2> QED BY <1>1, <2>1 DEF TypeOK
<1>3. PlacesInv' /\ ToldInv' /\ LoadedInv'
  BY DEF PlacesInv, ToldInv, LoadedInv
<1>4. CheckedInv'
  BY <1>1 DEF CheckedInv, InMemory, BaseOf, Where
<1> QED BY <1>2, <1>3, <1>4

LEMMA InvCheck == Inv /\ Check => Inv'
<1> SUFFICES ASSUME Inv, Check PROVE Inv'
  OBVIOUS
<1> USE DEF Inv
<1>0. PICK u \in Units : /\ u \in Modules => loaded[u] # 0
                         /\ check(u, BaseOf(u))
                         /\ marked' = [marked EXCEPT ![u] = {}]
                         /\ due' = due \ {ToCheck(u)}
  BY DEF Check
<1>1. memory' = memory /\ loaded' = loaded /\ base' = base /\ placed' = placed
  BY DEF Check
<1>2. stale'[u] = {f \in Functions[u] : \E a \in Code[u][f] : memory[Where(BaseOf(u), a)] # Made[u][a]}
  BY <1>0, CheckFinds DEF check, TypeOK
<1>3. \A v \in Units \ {u} : stale'[v] = stale[v]
  BY <1>0 DEF check, TypeOK
<1>4. TypeOK'
  <2>1. \A v \in Units : stale'[v] \subseteq Functions[v]
    BY <1>2, <1>3 DEF TypeOK
  <2>4. /\ marked' \in [Units -> SUBSET UNION {Functions[v] : v \in Units}]
        /\ \A v \in Units : marked'[v] \subseteq stale'[v]
    BY <1>0, <1>3 DEF TypeOK
  <2>2. stale' \in [Units -> SUBSET UNION {Functions[v] : v \in Units}]
    BY <1>0, <2>1 DEF check, TypeOK
  <2>3. due' \subseteq due
    BY <1>0
  <2> QED BY <1>1, <2>1, <2>2, <2>3, <2>4 DEF TypeOK
<1>5. PlacesInv' /\ LoadedInv'
  BY <1>1 DEF PlacesInv, LoadedInv
<1>6. ToldInv'
  <2>1. \A m : ToPlace(m) \notin due' => ToPlace(m) \notin due
    <3>1. \A m : ToPlace(m) # ToCheck(u)
      BY DEF ToCheck, ToPlace
    <3> QED BY <1>0, <3>1
  <2> QED BY <1>1, <2>1 DEF ToldInv, ToPlace
<1>7. CheckedInv'
  <2> SUFFICES ASSUME NEW v \in Units, InMemory(v), ToCheck(v) \notin due',
                      NEW f \in Functions[v] \ stale'[v], NEW a \in Code[v][f]
               PROVE  memory[Where(BaseOf(v), a)] = Made[v][a]
    BY <1>1 DEF CheckedInv, InMemory, BaseOf, Where, ToCheck
  <2>1. CASE v = u
    BY <1>2, <2>1
  <2>2. CASE v # u
    <3>1. ToCheck(v) # ToCheck(u)
      BY <2>2 DEF ToCheck
    <3>2. ToCheck(v) \notin due
      BY <1>0, <3>1
    <3> QED BY <1>3, <2>2, <3>2 DEF CheckedInv
  <2> QED BY <2>1, <2>2
<1> QED BY <1>4, <1>5, <1>6, <1>7

LEMMA InvNext == Inv /\ [Next]_vars => Inv'
<1> SUFFICES ASSUME Inv, [Next]_vars PROVE Inv'
  OBVIOUS
<1>1. CASE Load
  BY <1>1, InvLoad
<1>2. CASE Unload
  BY <1>2, InvUnload
<1>3. CASE Patch
  BY <1>3, InvPatch
<1>4. CASE Place
  BY <1>4, InvPlace
<1>5. CASE Check
  BY <1>5, InvCheck
<1>6. CASE Interpret
  <2>1. PICK u \in Units : \E f \in Functions[u] : Mark(u, {f})
    BY <1>6 DEF Interpret
  <2>2. PICK f \in Functions[u] : Mark(u, {f})
    BY <2>1
  <2>3. {f} \in SUBSET Functions[u]
    OBVIOUS
  <2>4. guest' = guest /\ base' = base /\ placed' = placed
    BY <1>6 DEF Interpret
  <2> QED BY <2>2, <2>3, <2>4, InvMarked
<1>7. CASE InterpretAt
  <2> DEFINE F(u, a) == {f \in Functions[u] :
               \E r \in ToSet(Runs[u][f]) : \E i \in r.first + 1..r.end : a \in InPiece(u, i)}
  <2>1. PICK u \in Units, a \in Addresses : Mark(u, F(u, a))
    BY <1>7 DEF InterpretAt
  <2>2. F(u, a) \in SUBSET Functions[u]
    OBVIOUS
  <2>3. guest' = guest /\ base' = base /\ placed' = placed
    BY <1>7 DEF InterpretAt
  <2> HIDE DEF F
  <2> QED BY <2>1, <2>2, <2>3, InvMarked
<1>8. CASE UNCHANGED vars
  <2>1. /\ memory' = memory /\ loaded' = loaded /\ due' = due
        /\ base' = base /\ placed' = placed /\ stale' = stale /\ marked' = marked
    BY <1>8 DEF vars, guest
  <2>2. TypeOK' /\ PlacesInv' /\ ToldInv' /\ LoadedInv'
    BY <2>1 DEF Inv, TypeOK, PlacesInv, ToldInv, LoadedInv
  <2>3. CheckedInv'
    BY <2>1 DEF Inv, CheckedInv, InMemory, BaseOf, Where
  <2> QED BY <2>2, <2>3 DEF Inv
<1> QED BY <1>1, <1>2, <1>3, <1>4, <1>5, <1>6, <1>7, <1>8 DEF Next
-----------------------------------------------------------------------------
\* With the host's calls made, the code found at an address is the one there
\* is for it.
LEMMA ToldUnit ==
  ASSUME Inv, due = {}, NEW u \in Units
  PROVE  /\ (u \in Modules => base[u] # 0) <=> InMemory(u)
         /\ (IF u \in Modules THEN base[u] ELSE 0) = BaseOf(u)
<1>1. u \in Modules => base[u] = loaded[u]
  BY DEF Inv, ToldInv
<1>2. u \in Modules <=> u # Executable
  BY TablesAssumption DEF TablesAssumption, Units
<1> QED BY <1>1, <1>2 DEF InMemory, BaseOf

LEMMA FoundIs ==
  ASSUME Inv, due = {}, NEW k \in Addresses, NEW x
  PROVE  x \in Promise!Found(k) <=>
           \E u \in Units : \E a \in DOMAIN Entries[u] :
             /\ InMemory(u) /\ Where(BaseOf(u), a) = k /\ Entries[u][a] \notin stale[u]
             /\ x = <<u, Entries[u][a]>>
<1>1. Promise!Found(k) =
        UNION {{<<u, Entries[u][a]>> : a \in {a \in DOMAIN Entries[u] :
                 InMemory(u) /\ Where(BaseOf(u), a) = k /\ Entries[u][a] \notin stale[u]}} :
               u \in Units}
  <2>1. ASSUME NEW u \in Units
        PROVE  {a \in DOMAIN Entries[u] :
                 InMemory(u) /\ Where(BaseOf(u), a) = k /\ Entries[u][a] \notin stale[u]}
               = {a \in DOMAIN Entries[u] :
                   /\ u \in Modules => base[u] # 0
                   /\ Where(IF u \in Modules THEN base[u] ELSE 0, a) = k
                   /\ Entries[u][a] \notin stale[u]}
    BY ToldUnit
  <2> QED BY <2>1 DEF Promise!Found, Promise!Where, Promise!Units, Units, Where
<1>2. x \in Promise!Found(k) <=>
        \E u \in Units :
          x \in {<<u, Entries[u][a]>> : a \in {a \in DOMAIN Entries[u] :
                 InMemory(u) /\ Where(BaseOf(u), a) = k /\ Entries[u][a] \notin stale[u]}}
  BY <1>1, Zenon
<1> QED BY <1>2

\* An entry is at one address of its unit.
LEMMA EntryIs ==
  ASSUME Inv, NEW u \in Units, NEW a \in DOMAIN Entries[u], InMemory(u)
  PROVE  /\ a \in 0..Size[u] - 1
         /\ Where(BaseOf(u), a) = BaseOf(u) + a
         /\ BaseOf(u) + a \in Extent(u)
<1>1. a \in 0..Size[u] - 1
  BY TablesAssumption DEF TablesAssumption
<1> QED BY <1>1, WhereIs DEF Inv

\* What is placed is a module in memory, which takes its extent in.
LEMMA PlacedIs ==
  ASSUME Inv, due = {}, NEW i \in 1..Len(placed), NEW k \in Addresses
  PROVE  /\ placed[i].index \in Modules /\ placed[i].index \in Units
         /\ InMemory(placed[i].index)
         /\ placed[i].base = BaseOf(placed[i].index)
         /\ TakesIn(placed[i], k) <=> k \in Extent(placed[i].index)
<1> DEFINE m == placed[i].index
           P == [base : Addresses \ {0}, size : Addresses, index : Modules]
<1>1. placed[i] \in P
  <2>1. placed \in Seq(P)
    BY DEF Inv, TypeOK
  <2> HIDE DEF P
  <2> QED BY <2>1
<1>2. m \in Modules /\ placed[i].base # 0
  BY <1>1
<1>3. placed[i].size = Size[m] /\ placed[i].base = base[m]
  BY DEF Inv, PlacesInv
<1> HIDE DEF m
<1>4. m \in Units /\ base[m] = loaded[m] /\ m # Executable
  BY <1>2, TablesAssumption DEF Inv, ToldInv, Units, TablesAssumption
<1>5. InMemory(m) /\ placed[i].base = BaseOf(m)
  BY <1>2, <1>3, <1>4 DEF InMemory, BaseOf
<1>6. BaseOf(m) \in Nat /\ BaseOf(m) + Size[m] <= Top /\ Size[m] \in Nat /\ Size[m] < Top
  BY <1>4, <1>5, BaseFits, SizeFits DEF Inv
<1>7. (k - BaseOf(m)) % Top < Size[m] <=> BaseOf(m) <= k /\ k < BaseOf(m) + Size[m]
  BY <1>6, OffsetIs
<1>8. k \in Int
  BY TablesAssumption DEF Addresses, TablesAssumption
<1>9. TakesIn(placed[i], k) <=> k \in Extent(m)
  BY <1>3, <1>5, <1>6, <1>7, <1>8 DEF TakesIn, Extent
<1> QED BY <1>2, <1>4, <1>5, <1>9 DEF m

\* An address is in one of the placed modules.
LEMMA TakenInOnce ==
  ASSUME Inv, due = {}, NEW k \in Addresses,
         NEW i \in 1..Len(placed), NEW j \in 1..Len(placed),
         TakesIn(placed[i], k), TakesIn(placed[j], k)
  PROVE  i = j
<1>1. /\ placed[i].index \in Units /\ InMemory(placed[i].index) /\ k \in Extent(placed[i].index)
      /\ placed[j].index \in Units /\ InMemory(placed[j].index) /\ k \in Extent(placed[j].index)
  BY PlacedIs
<1>2. placed[i].index = placed[j].index
  BY <1>1, UnitsApart DEF Inv
<1> QED BY <1>2 DEF Inv, PlacesInv

\* Code there is for an address is what lookup finds.
LEMMA LookupFinds ==
  ASSUME Inv, due = {}, NEW k \in Addresses,
         NEW u \in Units, NEW a \in DOMAIN Entries[u],
         InMemory(u), Where(BaseOf(u), a) = k, Entries[u][a] \notin stale[u]
  PROVE  Lookup(k) = <<u, Entries[u][a]>>
<1>1. a \in 0..Size[u] - 1 /\ k = BaseOf(u) + a /\ k \in Extent(u)
  BY EntryIs
<1>2. BaseOf(u) \in Nat /\ Size[u] \in Nat
  BY BaseFits, SizeFits DEF Inv
<1>3. Find(u, a) = <<u, Entries[u][a]>> /\ Find(u, a) # NoCode
  BY DEF Find, NoCode
<1>4. CASE u = Executable
  <2>1. k = a
    BY <1>1, <1>2, <1>4 DEF BaseOf
  <2> QED BY <2>1, <1>3, <1>4 DEF Lookup
<1>5. CASE u # Executable
  <2>1. u \in Modules /\ loaded[u] # 0 /\ BaseOf(u) = loaded[u]
    BY <1>5 DEF Units, InMemory, BaseOf
  <2>2. Find(Executable, k) = NoCode
    <3>1. Executable \in Units /\ InMemory(Executable)
      BY DEF Units, InMemory
    <3>2. k \notin Extent(Executable)
      BY <1>1, <1>5, <3>1, UnitsApart DEF Inv
    <3>3. Size[Executable] \in Nat /\ k \in Nat
      BY <3>1, SizeFits, <1>1, <1>2
    <3>4. k \notin 0..Size[Executable] - 1
      BY <3>2, <3>3 DEF Extent, BaseOf
    <3> QED BY <3>1, <3>4, TablesAssumption DEF TablesAssumption, Find
  <2> DEFINE There == {i \in 1..Len(placed) : TakesIn(placed[i], k)}
  <2>3. PICK i \in 1..Len(placed) : placed[i].index = u
    <3>1. base[u] # 0
      BY <2>1 DEF Inv, ToldInv
    <3> QED BY <2>1, <3>1 DEF Inv, PlacesInv
  <2>4. i \in There /\ placed[i].base = BaseOf(u)
    BY <1>1, <2>3, PlacedIs
  <2>5. ASSUME NEW j \in There PROVE j = i
    BY <2>4, <2>5, TakenInOnce
  <2> HIDE DEF There
  <2>6. There = {i} /\ There # {}
    BY <2>4, <2>5
  <2>7. (CHOOSE l \in There : \A j \in There : l <= j) = i
    BY <2>6
  <2>8. Lookup(k) = Find(placed[i].index, k - placed[i].base)
    BY <2>2, <2>6, <2>7 DEF Lookup, There
  <2>9. k - placed[i].base = a
    BY <1>1, <1>2, <2>4
  <2> QED BY <1>3, <2>3, <2>8, <2>9
<1> QED BY <1>4, <1>5

\* lookup finds no code but what there is.
LEMMA LookupFound ==
  ASSUME Inv, due = {}, NEW k \in Addresses, Lookup(k) # NoCode
  PROVE  \E u \in Units : \E a \in DOMAIN Entries[u] :
           /\ InMemory(u) /\ Where(BaseOf(u), a) = k /\ Entries[u][a] \notin stale[u]
           /\ Lookup(k) = <<u, Entries[u][a]>>
<1>1. CASE Find(Executable, k) # NoCode
  <2>1. /\ k \in DOMAIN Entries[Executable] /\ Entries[Executable][k] \notin stale[Executable]
        /\ Lookup(k) = <<Executable, Entries[Executable][k]>>
    BY <1>1 DEF Find, Lookup
  <2>2. Executable \in Units /\ InMemory(Executable)
    BY DEF Units, InMemory
  <2>3. Where(BaseOf(Executable), k) = k
    <3>1. Where(BaseOf(Executable), k) = 0 + k
      BY <2>1, <2>2, EntryIs DEF BaseOf
    <3> QED BY <3>1, TablesAssumption DEF TablesAssumption, Addresses
  <2> QED BY <2>1, <2>2, <2>3
<1>2. CASE Find(Executable, k) = NoCode
  <2> DEFINE There == {i \in 1..Len(placed) : TakesIn(placed[i], k)}
             i == CHOOSE i \in There : \A j \in There : i <= j
             m == placed[i].index
  <2>1. There # {} /\ Lookup(k) = Find(m, k - placed[i].base)
    BY <1>2 DEF Lookup
  <2>2. i \in There
    <3>1. PICK j \in There : There = {j} /\ j \in Nat
      BY <2>1, TakenInOnce
    <3> QED BY <3>1
  <2>3. i \in 1..Len(placed) /\ TakesIn(placed[i], k)
    BY <2>2
  <2> HIDE DEF i
  <2>4. m \in Units /\ InMemory(m) /\ placed[i].base = BaseOf(m)
    BY <2>3, PlacedIs
  <2> HIDE DEF m, There
  <2> DEFINE a == k - BaseOf(m)
  <2>5. /\ a \in DOMAIN Entries[m] /\ Entries[m][a] \notin stale[m]
        /\ Lookup(k) = <<m, Entries[m][a]>>
    BY <2>1, <2>4 DEF Find
  <2>6. Where(BaseOf(m), a) = k
    <3>1. BaseOf(m) \in Nat /\ k \in Int
      BY <2>4, BaseFits, TablesAssumption DEF Inv, TablesAssumption, Addresses
    <3>2. Where(BaseOf(m), a) = BaseOf(m) + a
      BY <2>4, <2>5, EntryIs
    <3> QED BY <3>1, <3>2
  <2> QED BY <2>4, <2>5, <2>6
<1> QED BY <1>1, <1>2
-----------------------------------------------------------------------------
LEMMA Invariant == Spec => []Inv
<1> QED BY InvInit, InvNext, PTL DEF Spec

\* The library's and the guest's state keep their types.
THEOREM TypeCorrect == Spec => []TypeOK
<1>1. Inv => TypeOK
  BY DEF Inv
<1> QED BY <1>1, Invariant, PTL

\* Wherever modules come and go, lookup finds the one code there is at an
\* address, in every library whose modules the guest loads apart.
THEOREM LookupCorrect == Spec => []LookupIsRight
<1>1. Inv => LookupIsRight
  <2> SUFFICES ASSUME Inv, due = {}, NEW k \in Addresses
               PROVE  IF Promise!Found(k) = {} THEN Lookup(k) = NoCode
                      ELSE Promise!Found(k) = {Lookup(k)}
    BY DEF LookupIsRight
  <2>1. \A x \in Promise!Found(k) : x = Lookup(k)
    <3> TAKE x \in Promise!Found(k)
    <3>1. PICK u \in Units : \E a \in DOMAIN Entries[u] :
             /\ InMemory(u) /\ Where(BaseOf(u), a) = k /\ Entries[u][a] \notin stale[u]
             /\ x = <<u, Entries[u][a]>>
      BY FoundIs
    <3> QED BY <3>1, LookupFinds
  <2>2. Lookup(k) # NoCode => Lookup(k) \in Promise!Found(k)
    BY LookupFound, FoundIs
  <2> QED BY <2>1, <2>2
<1> QED BY <1>1, Invariant, PTL

\* What lookup finds is of a unit in memory, a function as it was made from.
THEOREM FoundCorrect == Spec => []FoundIsAsMade
<1>1. Inv => FoundIsAsMade
  <2> SUFFICES ASSUME Inv, due = {}, NEW k \in Addresses, Lookup(k) # NoCode
               PROVE  /\ Lookup(k)[1] \in Modules => loaded[Lookup(k)[1]] # 0
                      /\ \E a \in DOMAIN Entries[Lookup(k)[1]] :
                           /\ Where(BaseOf(Lookup(k)[1]), a) = k
                           /\ Entries[Lookup(k)[1]][a] = Lookup(k)[2]
                      /\ Lookup(k)[2] # NO_ORIGIN =>
                           \A a \in Code[Lookup(k)[1]][Lookup(k)[2]] :
                             memory[Where(BaseOf(Lookup(k)[1]), a)] = Made[Lookup(k)[1]][a]
    BY DEF FoundIsAsMade
  <2>1. PICK u \in Units : \E a \in DOMAIN Entries[u] :
           /\ InMemory(u) /\ Where(BaseOf(u), a) = k /\ Entries[u][a] \notin stale[u]
           /\ Lookup(k) = <<u, Entries[u][a]>>
    BY LookupFound
  <2>2. PICK a \in DOMAIN Entries[u] :
           /\ InMemory(u) /\ Where(BaseOf(u), a) = k /\ Entries[u][a] \notin stale[u]
           /\ Lookup(k) = <<u, Entries[u][a]>>
    BY <2>1
  <2> DEFINE f == Entries[u][a]
  <2>3. Lookup(k)[1] = u /\ Lookup(k)[2] = f
    BY <2>2
  <2>4. u \in Modules => loaded[u] # 0
    BY <2>2, TablesAssumption DEF InMemory, TablesAssumption
  <2>5. f # NO_ORIGIN => f \in Functions[u] \ stale[u]
    BY <2>2, TablesAssumption DEF TablesAssumption
  <2>6. f # NO_ORIGIN => \A b \in Code[u][f] : memory[Where(BaseOf(u), b)] = Made[u][b]
    BY <2>2, <2>5 DEF Inv, CheckedInv
  <2> QED BY <2>2, <2>3, <2>4, <2>6
<1> QED BY <1>1, Invariant, PTL

\* The library keeps its promise: its calls mark the functions they must and
\* no other.
THEOREM PromiseKept == Spec => Implements
<1> USE DEF Promise!Units, Units, Promise!Addresses, Addresses, Promise!vars
<1>1. Init => Promise!Init
  <2> SUFFICES ASSUME Init PROVE Promise!Init
    OBVIOUS
  <2>1. memory \in [Addresses -> Values]
    BY InvInit DEF Inv, TypeOK
  <2> QED BY <2>1 DEF Init, Promise!Init
<1>2. Inv /\ Inv' /\ [Next]_vars => [Promise!Next]_Promise!vars
  <2> SUFFICES ASSUME Inv, Inv', [Next]_vars PROVE [Promise!Next]_Promise!vars
    OBVIOUS
  <2>1. memory' \in [Addresses -> Values] /\ loaded' \in [Modules -> Addresses]
    <3>1. TypeOK'
      BY DEF Inv
    <3>2. 0 \in Addresses /\ Bases \subseteq Addresses
      BY TablesAssumption, LibraryAssumption DEF TablesAssumption, LibraryAssumption
    <3> QED BY <3>1, <3>2 DEF TypeOK
  <2>2. CASE base' = base /\ stale' = stale /\ marked' = marked
    BY <2>1, <2>2 DEF Promise!Write, Promise!Next
  <2>3. CASE Load
    BY <2>2, <2>3 DEF Load
  <2>4. CASE Unload
    BY <2>2, <2>4 DEF Unload
  <2>5. CASE Patch
    BY <2>2, <2>5 DEF Patch
  <2>6. CASE Place
    BY <2>6 DEF Place, place, Promise!Place, Promise!Next
  <2>7. CASE Check
    <3>1. PICK u \in Units : /\ u \in Modules => loaded[u] # 0
                             /\ check(u, BaseOf(u)) /\ marked' = [marked EXCEPT ![u] = {}]
      BY <2>7 DEF Check
    <3>2. stale' = [stale EXCEPT ![u] = {f \in Functions[u] : Promise!Differs(u, f)}]
      <4>1. \A f \in Functions[u] :
              Promise!Differs(u, f) <=> \E a \in Code[u][f] : memory[Where(BaseOf(u), a)] # Made[u][a]
        BY DEF Promise!Differs, Promise!Where, Where, Promise!BaseOf, BaseOf
      <4>2. stale' = [stale EXCEPT ![u] = {f \in Functions[u] :
              \E r \in ToSet(Runs[u][f]) :
                ChangedBefore(u, BaseOf(u), r.end) > ChangedBefore(u, BaseOf(u), r.first)}]
        BY <3>1 DEF check
      <4>3. {f \in Functions[u] :
              \E r \in ToSet(Runs[u][f]) :
                ChangedBefore(u, BaseOf(u), r.end) > ChangedBefore(u, BaseOf(u), r.first)}
            = {f \in Functions[u] : Promise!Differs(u, f)}
        BY <4>1, CheckFinds
      <4> QED BY <4>2, <4>3
    <3>3. memory' = memory /\ loaded' = loaded /\ base' = base
      BY <2>7 DEF Check
    <3>4. Promise!Check
      BY <3>1, <3>2, <3>3 DEF Promise!Check
    <3> QED BY <3>4 DEF Promise!Next
  <2>8. CASE Interpret
    <3>1. PICK u \in Units : \E f \in Functions[u] : Mark(u, {f})
      BY <2>8 DEF Interpret
    <3>2. PICK f \in Functions[u] : Mark(u, {f})
      BY <3>1
    <3>3. Start[u][f] \in Addresses /\ {f} = {g \in Functions[u] : Start[u][g] = Start[u][f]}
      BY TablesAssumption DEF TablesAssumption
    <3>4. memory' = memory /\ loaded' = loaded /\ base' = base
      BY <2>8 DEF Interpret, guest
    <3>5. Promise!Mark
      BY <3>2, <3>3, <3>4 DEF Promise!Mark, Promise!MarkOnly, Mark
    <3> QED BY <3>5 DEF Promise!Next
  <2>9. CASE InterpretAt
    <3>1. PICK u \in Units, a \in Addresses : Mark(u, {f \in Functions[u] :
            \E r \in ToSet(Runs[u][f]) : \E i \in r.first + 1..r.end : a \in InPiece(u, i)})
      BY <2>9 DEF InterpretAt
    <3>2. \A f \in Functions[u] :
            a \in Code[u][f] <=>
              \E r \in ToSet(Runs[u][f]) : \E i \in r.first + 1..r.end : a \in InPiece(u, i)
      BY CodeIs
    <3>3. Mark(u, {f \in Functions[u] : a \in Code[u][f]})
      BY <3>1, <3>2
    <3>4. memory' = memory /\ loaded' = loaded /\ base' = base
      BY <2>9 DEF InterpretAt, guest
    <3>5. Promise!Mark
      BY <3>3, <3>4 DEF Promise!Mark, Promise!MarkOnly, Mark
    <3> QED BY <3>5 DEF Promise!Next
  <2>10. CASE UNCHANGED vars
    BY <2>10 DEF vars, guest
  <2> QED BY <2>3, <2>4, <2>5, <2>6, <2>7, <2>8, <2>9, <2>10 DEF Next
<1> QED BY <1>1, <1>2, Invariant, PTL DEF Spec, Implements, Promise!Spec
=============================================================================
