---------------------------- MODULE BuildProofs ----------------------------
(***************************************************************************)
(* What DiscoverProofs shows of a program holds of every unit of every     *)
(* title, and of the executable when it is analyzed once more for the      *)
(* hints: each analysis begins where DiscoverProofs does, and nothing      *)
(* between them touches its state.  And what that comes to for the C that  *)
(* is written: a function that another holds can be entered in its home,   *)
(* so can whatever leads into a unit, and what an override calls as the    *)
(* original ends in generated code.                                        *)
(***************************************************************************)
EXTENDS Build, DiscoverProofs, WellFoundedInduction
-----------------------------------------------------------------------------
(* Sequences that are filtered.                                            *)

\* Natural numbers, if there are any, have a least.
LEMMA LeastNumber ==
  ASSUME NEW T \in SUBSET Nat, T # {}
  PROVE  \E x \in T : \A y \in T : x <= y
<1> DEFINE R == OpToRel(<, Nat)
<1>1. IsWellFoundedOn(R, Nat)
  BY NatLessThanWellFounded
<1>2. PICK x \in T : \A y \in T : ~(<<y, x>> \in R)
  <2> HIDE DEF R
  <2> QED BY <1>1, WFMin
<1>3. R = {ss \in Nat \X Nat : ss[1] < ss[2]}
  BY Zenon DEF OpToRel
<1>4. \A y \in T : ~(y < x)
  <2> TAKE y \in T
  <2>1. <<y, x>> \in Nat \X Nat
    OBVIOUS
  <2>2. <<y, x>> \in R <=> y < x
    <3> HIDE DEF R
    <3> QED BY <1>3, <2>1
  <2> QED BY <1>2, <2>2
<1> QED BY <1>4

\* What Within does with the first i of a sequence.
Picked(u, s, S, i) ==
  IF i = 0 THEN <<>> ELSE IF s[i] \in S THEN Append(u[i - 1], s[i]) ELSE u[i - 1]
Picks(u, s, S, n) == u = [i \in 0..n |-> Picked(u, s, S, i)]

\* Within is the last of what there is of such a function.
LEMMA WithinIs ==
  ASSUME NEW s, NEW S
  PROVE  Within(s, S) = (CHOOSE u : Picks(u, s, S, Len(s)))[Len(s)]
BY DEF Within, Picks, Picked

\* There is one, whatever the length.
LEMMA PicksExist ==
  ASSUME NEW s, NEW S, NEW k \in Nat
  PROVE  \E u : Picks(u, s, S, k)
<1> DEFINE Bad == {n \in Nat : ~\E u : Picks(u, s, S, n)}
<1>1. Bad = {}
  <2> SUFFICES ASSUME Bad # {} PROVE FALSE
    OBVIOUS
  <2>1. PICK n \in Bad : \A m \in Bad : n <= m
    <3>1. Bad \in SUBSET Nat
      OBVIOUS
    <3> HIDE DEF Bad
    <3> QED BY <3>1, LeastNumber
  <2>2. n \in Nat /\ ~\E u : Picks(u, s, S, n)
    OBVIOUS
  <2>3. CASE n = 0
    <3> DEFINE u == [i \in 0..0 |-> <<>>]
    <3>1. \A i \in 0..0 : Picked(u, s, S, i) = <<>>
      BY DEF Picked
    <3>2. Picks(u, s, S, 0)
      BY <3>1 DEF Picks
    <3> QED BY <2>2, <2>3, <3>2
  <2>4. CASE n # 0
    <3>1. n - 1 \in Nat /\ n - 1 \notin Bad
      <4> HIDE DEF Bad
      <4> QED BY <2>1, <2>2, <2>4
    <3>2. PICK t : Picks(t, s, S, n - 1)
      BY <3>1
    <3> DEFINE u == [i \in 0..n |-> Picked(t, s, S, i)]
    <3>3. \A i \in 0..n - 1 : t[i] = Picked(t, s, S, i)
      BY <3>2, Zenon DEF Picks
    <3>4. \A i \in 0..n - 1 : u[i] = t[i]
      BY <3>3, <2>2, <2>4
    <3>5. \A i \in 0..n : i # 0 => i - 1 \in 0..n - 1
      BY <2>2
    <3>6. \A i \in 0..n : Picked(t, s, S, i) = Picked(u, s, S, i)
      <4> HIDE DEF u
      <4> QED BY <3>4, <3>5 DEF Picked
    <3>7. u = [i \in 0..n |-> Picked(t, s, S, i)]
      OBVIOUS
    <3>8. Picks(u, s, S, n)
      <4> HIDE DEF u
      <4> QED BY <3>6, <3>7 DEF Picks
    <3> QED BY <2>2, <3>8
  <2> QED BY <2>3, <2>4
<1> QED BY <1>1

LEMMA RangeAppend ==
  ASSUME NEW T, NEW s \in Seq(T), NEW x \in T
  PROVE  Append(s, x) \in Seq(T) /\ Range(Append(s, x)) = Range(s) \cup {x}
<1>1. <<x>> \in Seq(T) /\ Range(<<x>>) = {x}
  BY DEF Range
<1>2. Append(s, x) = s \o <<x>> /\ Append(s, x) \in Seq(T)
  BY AppendIsConcat, AppendProperties
<1>3. Range(s \o <<x>>) = Range(s) \cup Range(<<x>>)
  BY <1>1, RangeConcatenation
<1> QED BY <1>1, <1>2, <1>3

\* Within keeps those that are in the set.
LEMMA WithinType ==
  ASSUME NEW T, NEW s \in Seq(T), NEW S
  PROVE  Within(s, S) \in Seq(T) /\ Range(Within(s, S)) = Range(s) \cap S
<1> DEFINE u == CHOOSE u : Picks(u, s, S, Len(s))
           Good(n) == u[n] \in Seq(T) /\ Range(u[n]) = {s[i] : i \in 1..n} \cap S
           Bad == {n \in 0..Len(s) : ~Good(n)}
<1>1. Len(s) \in Nat /\ DOMAIN s = 1..Len(s) /\ \A i \in 1..Len(s) : s[i] \in T
  OBVIOUS
<1>2. \A n \in 0..Len(s) : u[n] = Picked(u, s, S, n)
  <2>1. Picks(u, s, S, Len(s))
    BY <1>1, PicksExist
  <2> HIDE DEF u
  <2> QED BY <2>1, Zenon DEF Picks
<1>3. Within(s, S) = u[Len(s)]
  BY WithinIs
<1> HIDE DEF u
<1>4. Bad = {}
  <2> SUFFICES ASSUME Bad # {} PROVE FALSE
    OBVIOUS
  <2>1. PICK n \in Bad : \A m \in Bad : n <= m
    <3>1. Bad \in SUBSET Nat
      OBVIOUS
    <3> HIDE DEF Bad
    <3> QED BY <3>1, LeastNumber
  <2>2. n \in 0..Len(s) /\ ~Good(n)
    OBVIOUS
  <2>3. CASE n = 0
    <3>1. u[n] = <<>>
      BY <1>2, <2>2, <2>3 DEF Picked
    <3>2. {s[i] : i \in 1..n} = {}
      BY <2>3
    <3>3. Range(<<>>) = {} /\ <<>> \in Seq(T)
      BY DEF Range
    <3> QED BY <2>2, <3>1, <3>2, <3>3
  <2>4. CASE n # 0
    <3>1. n - 1 \in 0..Len(s) /\ n - 1 \notin Bad /\ n \in 1..Len(s) /\ n \in Nat
      <4> HIDE DEF Bad
      <4> QED BY <1>1, <2>1, <2>2, <2>4
    <3>2. u[n - 1] \in Seq(T) /\ Range(u[n - 1]) = {s[i] : i \in 1..n - 1} \cap S
      BY <3>1
    <3>3. {s[i] : i \in 1..n} = {s[i] : i \in 1..n - 1} \cup {s[n]}
      BY <3>1
    <3>4. u[n] = IF s[n] \in S THEN Append(u[n - 1], s[n]) ELSE u[n - 1]
      BY <1>2, <2>2, <2>4 DEF Picked
    <3>5. CASE s[n] \in S
      <4>1. u[n] = Append(u[n - 1], s[n]) /\ s[n] \in T
        BY <1>1, <3>1, <3>4, <3>5
      <4>2. u[n] \in Seq(T) /\ Range(u[n]) = Range(u[n - 1]) \cup {s[n]}
        BY <3>2, <4>1, RangeAppend
      <4> QED BY <2>2, <3>2, <3>3, <3>5, <4>2
    <3>6. CASE s[n] \notin S
      BY <2>2, <3>2, <3>3, <3>4, <3>6
    <3> QED BY <3>5, <3>6
  <2> QED BY <2>3, <2>4
<1>5. Len(s) \in 0..Len(s) /\ Range(s) = {s[i] : i \in 1..Len(s)}
  BY <1>1 DEF Range
<1>6. Good(Len(s))
  BY <1>4, <1>5
<1> QED BY <1>3, <1>5, <1>6
-----------------------------------------------------------------------------
(* Units and what leads into them.                                         *)

Seed == [address : Int, pointer : BOOLEAN]

LEMMA UnitFacts ==
  ASSUME NEW u, Unit(u)
  PROVE  /\ u.seeds \in Seq(Seed)
         /\ DOMAIN u = {"name", "end", "code", "words", "relocated", "slots", "seeds"}
         /\ Program(ProgramWith(u, <<>>, <<>>))
         /\ u.end \in Nat
<1>1. Program(ProgramWith(u, <<>>, <<>>))
  BY DEF Unit
<1>2. ProgramWith(u, <<>>, <<>>).end = u.end
  BY DEF ProgramWith
<1>3. u.end \in Nat
  BY <1>1, <1>2 DEF Program
<1> QED BY <1>1, <1>3 DEF Unit, Seed

\* The leads into a unit, those in the text being what its program is called with.
LEMMA ProgramLeads ==
  ASSUME NEW u, Unit(u)
  PROVE  /\ ProgramOf(u).calls \in Seq(Lead(u.end)) /\ \A l \in Range(ProgramOf(u).calls) : l.sure
         /\ ProgramOf(u).pointers \in Seq(Lead(u.end)) /\ \A l \in Range(ProgramOf(u).pointers) : ~l.sure
         /\ \A s \in Range(u.seeds) :
              /\ ~s.pointer /\ LeadOf(s).address \in 0..u.end - 1 /\ LeadOf(s).mode \in Modes
              => LeadOf(s) \in Range(ProgramOf(u).calls)
<1> DEFINE all == [i \in DOMAIN u.seeds |-> LeadOf(u.seeds[i])]
           inText(sure) == [address : 0..u.end - 1, mode : Modes, sure : {sure}]
           T == {LeadOf(s) : s \in Range(u.seeds)}
<1>1. ProgramOf(u).calls = Within(all, inText(TRUE)) /\ ProgramOf(u).pointers = Within(all, inText(FALSE))
  BY DEF ProgramOf, ProgramWith
<1>2. u.seeds \in Seq(Seed)
  BY UnitFacts
<1>3. all \in Seq(T) /\ Range(all) = T
  <2>1. DOMAIN u.seeds = 1..Len(u.seeds) /\ Len(u.seeds) \in Nat
    BY <1>2
  <2>2. \A i \in DOMAIN u.seeds : u.seeds[i] \in Range(u.seeds)
    BY DEF Range
  <2>3. all \in [1..Len(u.seeds) -> T]
    BY <2>1, <2>2
  <2>4. all \in Seq(T)
    <3> HIDE DEF all, T
    <3> QED BY <2>1, <2>3, SeqDef
  <2>5. Range(all) = T
    BY DEF Range
  <2> QED BY <2>4, <2>5
<1>4. \A S : Within(all, S) \in Seq(T) /\ Range(Within(all, S)) = T \cap S
  <2> HIDE DEF all, T
  <2> QED BY <1>3, WithinType
<1>5. \A S : Within(all, S) \in Seq(S)
  <2> SUFFICES ASSUME NEW S PROVE Within(all, S) \in Seq(S)
    OBVIOUS
  <2>1. Within(all, S) \in Seq(T) /\ Range(Within(all, S)) \subseteq S
    BY <1>4
  <2> HIDE DEF all, T
  <2>2. \A i \in 1..Len(Within(all, S)) : Within(all, S)[i] \in S
    BY <2>1 DEF Range
  <2> QED BY <2>1, <2>2
<1>6. \A b \in BOOLEAN : inText(b) \subseteq Lead(u.end) /\ \A l \in inText(b) : l.sure = b
  BY DEF Lead
<1>7. \A s \in Range(u.seeds) : LeadOf(s) = [address |-> LeadOf(s).address, mode |-> LeadOf(s).mode, sure |-> ~s.pointer]
  BY DEF LeadOf
<1>8. ASSUME NEW s \in Range(u.seeds), ~s.pointer, LeadOf(s).address \in 0..u.end - 1, LeadOf(s).mode \in Modes
      PROVE  LeadOf(s) \in Range(Within(all, inText(TRUE)))
  <2>1. LeadOf(s) \in inText(TRUE)
    <3>1. (~s.pointer) = TRUE
      BY <1>8
    <3>2. LeadOf(s) = [address |-> LeadOf(s).address, mode |-> LeadOf(s).mode, sure |-> TRUE]
      BY <1>7, <3>1
    <3>3. [address |-> LeadOf(s).address, mode |-> LeadOf(s).mode, sure |-> TRUE] \in inText(TRUE)
      BY <1>8
    <3> QED BY <3>2, <3>3
  <2>2. LeadOf(s) \in T
    OBVIOUS
  <2> HIDE DEF all, inText, T
  <2> QED BY <1>4, <2>1, <2>2
<1>9. ASSUME NEW b \in BOOLEAN
      PROVE  Within(all, inText(b)) \in Seq(Lead(u.end)) /\ \A l \in Range(Within(all, inText(b))) : l.sure = b
  <2> HIDE DEF all, inText, T
  <2>1. Within(all, inText(b)) \in Seq(inText(b)) /\ Range(Within(all, inText(b))) \subseteq inText(b)
    BY <1>4, <1>5
  <2> QED BY <2>1, <1>6
<1> HIDE DEF all, inText
<1> QED BY <1>1, <1>8, <1>9

\* So every unit has a program.
LEMMA UnitProgram ==
  ASSUME NEW u, Unit(u)
  PROVE  Program(ProgramOf(u))
<1> DEFINE p == ProgramOf(u)
           q == ProgramWith(u, <<>>, <<>>)
<1>1. Program(q)
  BY UnitFacts
<1>2. /\ q.end = p.end /\ q.code = p.code /\ q.points = p.points /\ q.relocated = p.relocated
      /\ q.slots = p.slots /\ p.end = u.end
  BY DEF ProgramOf, ProgramWith
<1>3. /\ p.calls \in Seq(Lead(p.end)) /\ p.pointers \in Seq(Lead(p.end))
      /\ \A i \in 1..Len(p.calls) : p.calls[i].sure
      /\ \A i \in 1..Len(p.pointers) : ~p.pointers[i].sure
  BY <1>2, ProgramLeads DEF Range
<1> HIDE DEF p, q
<1>4. Program(p)
  BY <1>1, <1>2, <1>3 DEF Program
<1> QED BY <1>4 DEF p

\* A unit is one with other seeds too.
LEMMA UnitSeeds ==
  ASSUME NEW u, Unit(u), NEW s \in Seq(Seed)
  PROVE  /\ Unit([u EXCEPT !.seeds = s])
         /\ [u EXCEPT !.seeds = s].seeds = s
         /\ [u EXCEPT !.seeds = s].name = u.name /\ [u EXCEPT !.seeds = s].end = u.end
<1> DEFINE v == [u EXCEPT !.seeds = s]
<1>1. /\ v.seeds = s /\ v.name = u.name /\ v.end = u.end /\ v.code = u.code /\ v.words = u.words
      /\ v.relocated = u.relocated /\ v.slots = u.slots /\ DOMAIN v = DOMAIN u
  BY UnitFacts
<1> HIDE DEF v
<1>2. ProgramWith(v, <<>>, <<>>) = ProgramWith(u, <<>>, <<>>)
  BY <1>1 DEF ProgramWith
<1>3. Unit(v)
  <2>1. Program(ProgramWith(v, <<>>, <<>>))
    BY <1>2, UnitFacts
  <2>2. v.seeds \in Seq([address : Int, pointer : BOOLEAN])
    BY <1>1 DEF Seed
  <2> QED BY <1>1, <2>1, <2>2 DEF Unit
<1> QED BY <1>1, <1>3 DEF v

Overrides == [module : STRING \cup {""}, address : Int, name : STRING \cup {"native"}]

LEMMA FunSeq ==
  ASSUME NEW S, NEW k \in Nat, NEW f \in [1..k -> S]
  PROVE  f \in Seq(S) /\ Len(f) = k
BY SeqDef

\* What is replaced: what is written by hand, and natives where nothing is.
LEMMA ReplacedFacts ==
  ASSUME NEW t \in Titles
  PROVE  /\ ByHand(t) \in Seq(Overrides) /\ Replaced(t) \in Seq(Overrides)
         /\ Len(ByHand(t)) \in Nat /\ Len(ByHand(t)) <= Len(Replaced(t))
         /\ \A i \in 1..Len(ByHand(t)) : Replaced(t)[i] = ByHand(t)[i]
         /\ \A i \in DOMAIN Replaced(t) :
              i > Len(ByHand(t)) => Replaced(t)[i].module = "" /\ ~ByHandAt(t, Replaced(t)[i].address)
<1> DEFINE hand == ByHand(t)
           Native == [kind : STRING, address : Int, size : Int, leads : SUBSET Int]
           free == {n \in Range(Natives(t)) : ~ByHandAt(t, n.address)}
           taken == Within(Natives(t), free)
           new == [i \in DOMAIN taken |-> [module |-> "", address |-> taken[i].address, name |-> "native"]]
<1>1. hand \in Seq(Overrides) /\ t.executable.natives \in Seq(Native)
  <2> DEFINE S == [module : STRING, address : Int, name : STRING]
  <2>1. hand \in Seq(S) /\ t.executable.natives \in Seq(Native)
    BY BuildAssumption DEF BuildAssumption
  <2>2. S \subseteq Overrides
    BY DEF Overrides
  <2> HIDE DEF hand, Native, S
  <2>3. Len(hand) \in Nat /\ hand \in [1..Len(hand) -> Overrides]
    BY <2>1, <2>2
  <2> QED BY <2>1, <2>3, FunSeq
<1>2. Natives(t) \in Seq(Native)
  BY <1>1, WithinType DEF Natives
<1>3. taken \in Seq(Native) /\ Range(taken) \subseteq free
  <2> HIDE DEF free
  <2> QED BY <1>2, WithinType
<1>4. \A i \in DOMAIN taken : taken[i] \in free
  BY <1>3 DEF Range
<1>5. \A n \in free : ~ByHandAt(t, n.address)
  OBVIOUS
<1>6. Replaced(t) = hand \o new
  BY DEF Replaced
<1> HIDE DEF taken, free, hand
<1>7. /\ DOMAIN new = 1..Len(taken) /\ Len(taken) \in Nat
      /\ \A i \in 1..Len(taken) : /\ new[i] \in Overrides /\ new[i].module = ""
                                  /\ ~ByHandAt(t, new[i].address)
  <2>1. DOMAIN taken = 1..Len(taken) /\ Len(taken) \in Nat /\ \A i \in 1..Len(taken) : taken[i] \in Native
    <3> HIDE DEF Native
    <3> QED BY <1>3
  <2>2. ASSUME NEW i \in 1..Len(taken)
        PROVE  new[i].address = taken[i].address /\ new[i] \in Overrides /\ new[i].module = ""
    <3>1. new[i] = [module |-> "", address |-> taken[i].address, name |-> "native"]
      BY <2>1
    <3>2. taken[i].address \in Int
      BY <2>1
    <3>3. [module |-> "", address |-> taken[i].address, name |-> "native"] \in Overrides
      BY <3>2 DEF Overrides
    <3> DEFINE r == [module |-> "", address |-> taken[i].address, name |-> "native"]
    <3>4. r.address = taken[i].address /\ r.module = ""
      OBVIOUS
    <3> HIDE DEF new, r
    <3> QED BY <3>1, <3>3, <3>4 DEF r
  <2> HIDE DEF new
  <2>3. \A i \in 1..Len(taken) : ~ByHandAt(t, taken[i].address)
    BY <1>4, <1>5, <2>1
  <2>4. DOMAIN new = 1..Len(taken)
    BY <2>1 DEF new
  <2> QED BY <2>1, <2>2, <2>3, <2>4
<1>8. new \in Seq(Overrides) /\ Len(new) = Len(taken)
  <2>1. new \in [1..Len(taken) -> Overrides]
    BY <1>7
  <2> HIDE DEF new
  <2> QED BY <1>7, <2>1, FunSeq
<1> HIDE DEF new
<1>9. /\ hand \o new \in Seq(Overrides) /\ Len(hand \o new) = Len(hand) + Len(new)
      /\ \A i \in 1..Len(hand \o new) :
           (hand \o new)[i] = IF i <= Len(hand) THEN hand[i] ELSE new[i - Len(hand)]
  BY <1>1, <1>8, ConcatProperties
<1>10. Len(hand) \in Nat /\ Len(new) \in Nat
  BY <1>1, <1>8
<1>11. \A i \in 1..Len(hand) : Replaced(t)[i] = hand[i]
  BY <1>6, <1>9, <1>10
<1>12. ASSUME NEW i \in DOMAIN Replaced(t), i > Len(hand)
       PROVE  Replaced(t)[i].module = "" /\ ~ByHandAt(t, Replaced(t)[i].address)
  <2>1. i \in 1..Len(hand) + Len(new) /\ i \in Int
    BY <1>6, <1>9, <1>10
  <2>2. Replaced(t)[i] = new[i - Len(hand)] /\ i - Len(hand) \in 1..Len(taken)
    BY <2>1, <1>6, <1>8, <1>9, <1>10, <1>12
  <2> QED BY <2>2, <1>7
<1>13. hand \in Seq(Overrides) /\ Replaced(t) \in Seq(Overrides) /\ Len(hand) \in Nat /\ Len(hand) <= Len(Replaced(t))
  BY <1>1, <1>6, <1>9, <1>10
<1> QED
  <2> SUFFICES /\ hand \in Seq(Overrides) /\ Replaced(t) \in Seq(Overrides)
               /\ Len(hand) \in Nat /\ Len(hand) <= Len(Replaced(t))
               /\ \A i \in 1..Len(hand) : Replaced(t)[i] = hand[i]
               /\ \A i \in DOMAIN Replaced(t) :
                    i > Len(hand) => Replaced(t)[i].module = "" /\ ~ByHandAt(t, Replaced(t)[i].address)
    BY DEF hand
  <2> QED BY <1>11, <1>12, <1>13

\* An override's unit goes by names alone.
LEMMA UnitOfNames ==
  ASSUME NEW us, NEW vs, Len(us) = Len(vs), \A n \in 1..Len(us) : us[n].name = vs[n].name, NEW o
  PROVE  UnitOf(us, o) = UnitOf(vs, o)
<1>1. {n \in 1..Len(us) : us[n].name = NameOf(o)} = {n \in 1..Len(vs) : vs[n].name = NameOf(o)}
  OBVIOUS
<1> QED BY <1>1 DEF UnitOf, SelectInSeq

AreUnits(us) == us \in Seq(Range(us)) /\ us # <<>> /\ \A u \in Range(us) : Unit(u)

BuildTypes ==
  /\ title \in Titles /\ AreUnits(units)
  /\ \E S : found \in Seq(S)

SeedFor(o) == [address |-> o.address, pointer |-> FALSE]

LEMMA SureIs ==
  ASSUME NEW s \in Seq(Int)
  PROVE  Sure(s) \in Seq(Seed) /\ Len(Sure(s)) = Len(s) /\ \A i \in 1..Len(s) : Sure(s)[i] = [address |-> s[i], pointer |-> FALSE]
<1>1. DOMAIN s = 1..Len(s) /\ Len(s) \in Nat /\ \A i \in 1..Len(s) : s[i] \in Int
  OBVIOUS
<1>2. Sure(s) \in [1..Len(s) -> Seed]
  BY <1>1 DEF Sure, Seed
<1>3. Sure(s) \in Seq(Seed) /\ Len(Sure(s)) = Len(s)
  BY <1>1, <1>2, SeqDef
<1>4. \A i \in 1..Len(s) : Sure(s)[i] = [address |-> s[i], pointer |-> FALSE]
  BY <1>1 DEF Sure
<1> QED BY <1>3, <1>4

\* The unit as overrides leave it.
LEMMA SeededIs ==
  ASSUME BuildTypes, NEW n \in 1..Len(units)
  PROVE  LET u == Seeded(title, units)[n]
         IN /\ Unit(u) /\ u.name = units[n].name
            /\ \A o \in Range(Replaced(title)) : UnitOf(units, o) = n => SeedFor(o) \in Range(u.seeds)
<1> DEFINE its == Within(Replaced(title), {o \in Range(Replaced(title)) : UnitOf(units, o) = n})
           at == [i \in DOMAIN its |-> its[i].address]
           new == Sure(Reverse(at)) \o units[n].seeds
<1>1. Seeded(title, units)[n] = [units[n] EXCEPT !.seeds = new]
  <2>1. n \in DOMAIN units
    BY DEF BuildTypes, AreUnits
  <2> QED BY <2>1 DEF Seeded
<1>2. Replaced(title) \in Seq(Overrides)
  BY ReplacedFacts DEF BuildTypes
<1>3. /\ its \in Seq(Overrides)
      /\ Range(its) = Range(Replaced(title)) \cap {o \in Range(Replaced(title)) : UnitOf(units, o) = n}
  BY <1>2, WithinType
<1>4. \A o \in Range(Replaced(title)) : UnitOf(units, o) = n => o \in Range(its)
  BY <1>3
<1>5. Unit(units[n])
  BY DEF BuildTypes, AreUnits, Range
<1> HIDE DEF its
<1>6. DOMAIN its = 1..Len(its) /\ Len(its) \in Nat /\ \A i \in 1..Len(its) : its[i] \in Overrides
  BY <1>3
<1>7. at \in Seq(Int) /\ Len(at) = Len(its) /\ \A i \in 1..Len(its) : at[i] = its[i].address
  <2>1. at \in [1..Len(its) -> Int]
    BY <1>6 DEF Overrides
  <2>2. \A i \in 1..Len(its) : at[i] = its[i].address
    BY <1>6
  <2> HIDE DEF at
  <2> QED BY <1>6, <2>1, <2>2, SeqDef
<1> HIDE DEF at
<1>8. /\ Reverse(at) \in Seq(Int) /\ Len(Reverse(at)) = Len(its)
      /\ \A i \in 1..Len(its) : Reverse(at)[i] = at[Len(its) - i + 1]
  <2>1. Reverse(at) = [i \in 1..Len(its) |-> at[Len(its) - i + 1]]
    BY <1>7 DEF Reverse
  <2>2. \A i \in 1..Len(its) : Len(its) - i + 1 \in 1..Len(its)
    BY <1>6
  <2>3. \A i \in 1..Len(its) : at[i] \in Int
    BY <1>7
  <2>4. Reverse(at) \in [1..Len(its) -> Int]
    BY <2>1, <2>2, <2>3
  <2>5. Reverse(at) \in Seq(Int) /\ Len(Reverse(at)) = Len(its)
    BY <1>6, <2>4, SeqDef
  <2> QED BY <2>1, <2>5
<1>9. /\ Sure(Reverse(at)) \in Seq(Seed) /\ Len(Sure(Reverse(at))) = Len(its)
      /\ \A i \in 1..Len(its) : Sure(Reverse(at))[i] = [address |-> Reverse(at)[i], pointer |-> FALSE]
  BY <1>8, SureIs
<1>10. units[n].seeds \in Seq(Seed)
  BY <1>5, UnitFacts
<1>11. new \in Seq(Seed) /\ Range(new) = Range(Sure(Reverse(at))) \cup Range(units[n].seeds)
  BY <1>9, <1>10, RangeConcatenation, ConcatProperties
<1> HIDE DEF new
<1>12. ASSUME NEW o \in Range(Replaced(title)), UnitOf(units, o) = n PROVE SeedFor(o) \in Range(new)
  <2>1. PICK i \in 1..Len(its) : its[i] = o
    BY <1>4, <1>6, <1>12 DEF Range
  <2>2. Len(its) - i + 1 \in 1..Len(its) /\ Len(its) - (Len(its) - i + 1) + 1 = i
    BY <1>6
  <2>3. Sure(Reverse(at))[Len(its) - i + 1] = SeedFor(o)
    BY <2>1, <2>2, <1>7, <1>8, <1>9 DEF SeedFor
  <2>4. SeedFor(o) \in Range(Sure(Reverse(at)))
    <3>1. DOMAIN Sure(Reverse(at)) = 1..Len(its)
      BY <1>9
    <3> QED BY <2>2, <2>3, <3>1 DEF Range
  <2> QED BY <2>4, <1>11
<1>13. /\ Unit([units[n] EXCEPT !.seeds = new]) /\ [units[n] EXCEPT !.seeds = new].seeds = new
       /\ [units[n] EXCEPT !.seeds = new].name = units[n].name
  BY <1>5, <1>11, UnitSeeds
<1>14. PICK u : u = Seeded(title, units)[n]
  OBVIOUS
<1> QED BY <1>1, <1>12, <1>13, <1>14

LEMMA UnitsFacts ==
  ASSUME NEW us, AreUnits(us)
  PROVE  /\ DOMAIN us = 1..Len(us) /\ Len(us) \in Nat \ {0}
         /\ us = [n \in 1..Len(us) |-> us[n]]
         /\ \A n \in 1..Len(us) : Unit(us[n])
<1>1. us \in Seq(Range(us)) /\ us # <<>>
  BY DEF AreUnits
<1>2. DOMAIN us = 1..Len(us) /\ Len(us) \in Nat \ {0} /\ us = [n \in 1..Len(us) |-> us[n]]
  BY <1>1, EmptySeq, LenProperties
<1>3. \A n \in 1..Len(us) : us[n] \in Range(us)
  BY <1>2 DEF Range
<1> QED BY <1>2, <1>3 DEF AreUnits

LEMMA UnitsMade ==
  ASSUME NEW us, NEW k \in Nat \ {0}, us = [n \in 1..k |-> us[n]], \A n \in 1..k : Unit(us[n])
  PROVE  AreUnits(us) /\ Len(us) = k
<1>1. DOMAIN us = 1..k
  BY Zenon
<1>2. \A n \in 1..k : us[n] \in Range(us)
  BY <1>1 DEF Range
<1>3. us \in [1..k -> Range(us)]
  BY <1>2
<1>4. us \in Seq(Range(us)) /\ Len(us) = k
  BY <1>3, FunSeq
<1>5. us # <<>>
  BY <1>4
<1>6. \A u \in Range(us) : \E n \in 1..k : u = us[n]
  BY <1>1 DEF Range
<1> QED BY <1>4, <1>5, <1>6 DEF AreUnits

\* What the overrides' seeds change of the units.
LEMMA LoadUnits ==
  ASSUME BuildTypes
  PROVE  LET us == Seeded(title, units)
         IN /\ AreUnits(us) /\ Len(us) = Len(units)
            /\ \A o : UnitOf(us, o) = UnitOf(units, o)
            /\ \A n \in 1..Len(us) : \A o \in Range(Replaced(title)) :
                 UnitOf(us, o) = n => SeedFor(o) \in Range(us[n].seeds)
<1>1. DOMAIN units = 1..Len(units) /\ Len(units) \in Nat \ {0}
  BY UnitsFacts DEF BuildTypes
<1>2. PICK us : us = Seeded(title, units)
  OBVIOUS
<1>3. us = [n \in 1..Len(units) |-> us[n]]
  BY <1>1, <1>2 DEF Seeded
<1>4. \A n \in 1..Len(units) : /\ Unit(us[n]) /\ us[n].name = units[n].name
                               /\ \A o \in Range(Replaced(title)) : UnitOf(units, o) = n => SeedFor(o) \in Range(us[n].seeds)
  BY <1>2, SeededIs
<1>5. AreUnits(us) /\ Len(us) = Len(units)
  BY <1>1, <1>3, <1>4, UnitsMade
<1>6. \A o : UnitOf(us, o) = UnitOf(units, o)
  BY <1>4, <1>5, UnitOfNames
<1> QED BY <1>2, <1>4, <1>5, <1>6

\* What the hints change.
LEMMA HintUnits ==
  ASSUME BuildTypes, NEW s \in Seq(Int)
  PROVE  LET us == [units EXCEPT ![1].seeds = @ \o Sure(s)]
         IN /\ AreUnits(us) /\ Len(us) = Len(units)
            /\ \A o : UnitOf(us, o) = UnitOf(units, o)
            /\ \A n \in 1..Len(us) : us[n].end = units[n].end /\ Range(units[n].seeds) \subseteq Range(us[n].seeds)
            /\ \A n \in 1..Len(us) : n # 1 => us[n] = units[n]
<1>1. /\ DOMAIN units = 1..Len(units) /\ Len(units) \in Nat \ {0} /\ 1 \in 1..Len(units)
      /\ \A n \in 1..Len(units) : Unit(units[n])
  BY UnitsFacts DEF BuildTypes
<1>2. PICK us : us = [units EXCEPT ![1].seeds = @ \o Sure(s)]
  OBVIOUS
<1>3. PICK u : u = units[1]
  OBVIOUS
<1>4. PICK new : new = u.seeds \o Sure(s)
  OBVIOUS
<1>5. /\ us = [n \in 1..Len(units) |-> us[n]] /\ us[1] = [u EXCEPT !.seeds = new]
      /\ \A n \in 1..Len(units) : n # 1 => us[n] = units[n]
  BY <1>1, <1>2, <1>3, <1>4
<1>6. Unit(u) /\ u.seeds \in Seq(Seed) /\ Sure(s) \in Seq(Seed)
  BY <1>1, <1>3, UnitFacts, SureIs
<1>7. new \in Seq(Seed) /\ Range(new) = Range(u.seeds) \cup Range(Sure(s))
  BY <1>4, <1>6, RangeConcatenation, ConcatProperties
<1>8. Unit(us[1]) /\ us[1].seeds = new /\ us[1].name = u.name /\ us[1].end = u.end
  <2>1. /\ Unit([u EXCEPT !.seeds = new]) /\ [u EXCEPT !.seeds = new].seeds = new
        /\ [u EXCEPT !.seeds = new].name = u.name /\ [u EXCEPT !.seeds = new].end = u.end
    BY <1>6, <1>7, UnitSeeds
  <2>2. us[1] = [u EXCEPT !.seeds = new]
    BY <1>5
  <2> QED BY <2>1, <2>2
<1>9. \A n \in 1..Len(units) : /\ Unit(us[n]) /\ us[n].name = units[n].name /\ us[n].end = units[n].end
                               /\ Range(units[n].seeds) \subseteq Range(us[n].seeds)
  BY <1>1, <1>3, <1>5, <1>7, <1>8
<1>10. AreUnits(us) /\ Len(us) = Len(units)
  BY <1>1, <1>5, <1>9, UnitsMade
<1>11. \A o : UnitOf(us, o) = UnitOf(units, o)
  BY <1>9, <1>10, UnitOfNames
<1> QED BY <1>2, <1>5, <1>9, <1>10, <1>11

\* The hints that start functions, in order.
LEMMA HintsType ==
  ASSUME BuildTypes, NEW outside \in Sorted(NewFunctions)
  PROVE  outside \in Seq(Int)
<1>1. NewFunctions \subseteq title.hints /\ IsFiniteSet(title.hints) /\ title.hints \subseteq Int
  BY BuildAssumption DEF BuildAssumption, BuildTypes, NewFunctions, Hinted
<1>2. IsFiniteSet(NewFunctions) /\ NewFunctions \subseteq Int
  BY <1>1, FS_Subset
<1>3. Cardinality(NewFunctions) \in Nat /\ outside \in [1..Cardinality(NewFunctions) -> NewFunctions]
  BY <1>2, SortedType
<1>4. outside \in [1..Cardinality(NewFunctions) -> Int]
  BY <1>2, <1>3
<1> QED BY <1>3, <1>4, FunSeq
-----------------------------------------------------------------------------
(* Each analysis of each unit.                                             *)

BuildInv == BuildTypes /\ AllInv
\* What DiscoverProofs shows of the start, in the next state.
LEMMA StartInvNext == Program(program)' /\ Start' => AllInv'
BY StartAll, PTL

\* analyze begins with what is known when nothing is.
LEMMA AnalyzeInv ==
  ASSUME NEW p, Program(p), Analyze(p)
  PROVE  AllInv'
<1>1. Program(program)'
  BY DEF Analyze
<1>2. Start'
  BY DEF Analyze, Start, Halfwords
<1> QED BY <1>1, <1>2, StartInvNext

LEMMA NothingProgram == Program(Nothing)
<1>1. \A m \in Modes : Nothing.code[m] = <<>>
  BY DEF Nothing
<1>2. DOMAIN Nothing.code = Modes /\ Nothing.end = 0 /\ Nothing.points = <<>> /\ ~Nothing.relocated
      /\ Nothing.relocated \in BOOLEAN /\ Nothing.slots = {} /\ Nothing.calls = <<>> /\ Nothing.pointers = <<>>
  BY DEF Nothing
<1>3. DOMAIN <<>> = {} /\ Len(<<>>) = 0 /\ \A S : <<>> \in Seq(S)
  OBVIOUS
<1>4. \A m \in Modes : DOMAIN Nothing.code[m] = {}
  BY <1>1, <1>3
<1> QED BY <1>2, <1>3, <1>4 DEF Program, Modes

LEMMA BuildInitInv == BuildInit => BuildInv
<1> SUFFICES ASSUME BuildInit PROVE BuildInv
  OBVIOUS
<1>1. BuildTypes
  <2>1. title \in Titles /\ units = Units(title) /\ found \in Seq({})
    BY DEF BuildInit
  <2>2. AreUnits(units)
    BY <2>1, BuildAssumption DEF BuildAssumption, AreUnits
  <2> QED BY <2>1, <2>2 DEF BuildTypes
<1>2. Program(program) /\ Halfwords = {}
  BY NothingProgram DEF BuildInit, Nothing, Halfwords
<1>3. /\ phase = "done" /\ queue = <<>> /\ guesses = <<>> /\ functions = <<>>
      /\ map = <<>> /\ modes = <<>> /\ cuts = <<>>
      /\ entries = {} /\ rejected = {} /\ guessed = {} /\ joins = {}
      /\ exploring = FALSE /\ ex = Nowhere /\ trial = NoTrial /\ round = NoRound
  BY DEF BuildInit
<1>e. DOMAIN functions = {} /\ exploring \in BOOLEAN /\ ~exploring
  <2>1. DOMAIN <<>> = {}
    OBVIOUS
  <2>2. exploring \in BOOLEAN /\ ~exploring
    BY <1>3, Zenon
  <2> QED BY <1>3, <2>1, <2>2
<1>4. /\ round \in [number : 0..4, huge : SUBSET Halfwords, left : SUBSET Halfwords]
      /\ round.number \in 0..4 /\ round.left \subseteq round.huge /\ round.huge \subseteq DOMAIN functions
  BY <1>3, <1>e DEF NoRound
<1>5. /\ DOMAIN trial.before \subseteq Halfwords
      /\ trial.calls \in Seq(Leads) /\ trial.pointers \in Seq(Leads)
      /\ trial.joins \subseteq Halfwords \X Modes /\ trial.entries \subseteq entries
  BY <1>3 DEF NoTrial
<1>6. /\ map \in [Halfwords -> Bytes] /\ modes \in [Halfwords -> SUBSET Modes]
      /\ cuts \in [Halfwords -> SUBSET Halfwords]
  BY <1>2, <1>3
<1>7. ex \in Exploration /\ ex.code \subseteq DOMAIN program.code[ex.mode]
  BY <1>3, NoTrialType DEF Nowhere
<1>8. queue \in Seq(Leads) /\ guesses \in Seq(Leads)
  BY <1>3
<1>9. TypeOK
  BY <1>3, <1>e, <1>4, <1>5, <1>6, <1>7, <1>8, Zenon DEF TypeOK, Leads
<1>10. Types
  BY <1>2, <1>3, <1>e, <1>4, <1>9, NoTrialType DEF Types
<1>11. MarksAreHeld /\ TrialInv
  BY <1>2, <1>e DEF MarksAreHeld, TrialInv
<1>12. Phases /\ JoinsInv /\ LabelsInv
  <2>1. DOMAIN functions = {} /\ ~exploring /\ phase = "done" /\ joins = {} /\ trial.joins = {}
    BY <1>3, <1>e DEF NoTrial
  <2>2. Phases /\ JoinsInv
    BY <2>1 DEF Phases, JoinsInv, JoinsAreLabels
  <2>3. LabelledWith({})
    BY <2>1 DEF LabelledWith
  <2> QED BY <2>1, <2>2, <2>3 DEF LabelsInv
<1>13. FollowedInv /\ CallsInv /\ WholeInv /\ EntriesInv
  <2>1. program.calls = <<>> /\ DOMAIN <<>> = {}
    BY DEF BuildInit, Nothing
  <2> QED BY <2>1, <1>2, <1>e DEF FollowedInv, FunctionsFollowed, CallsInv, WholeInv, EntriesInv
<1> QED BY <1>1, <1>10, <1>11, <1>12, <1>13 DEF BuildInv, Inv, AllInv

\* Discovery begins with the overrides' seeds.
LEMMA LoadIs ==
  ASSUME BuildTypes, Load
  PROVE  /\ BuildTypes' /\ AllInv'
         /\ title' = title /\ found' = found /\ stage' = "analyze"
         /\ program' = ProgramOf(units'[1]) /\ Len(units') = Len(units)
         /\ \A n \in 1..Len(units') : \A o \in Range(Replaced(title)) :
              UnitOf(units', o) = n => SeedFor(o) \in Range(units'[n].seeds)
<1>1. units' = Seeded(title, units) /\ title' = title /\ found' = found /\ stage' = "analyze"
  BY DEF Load
<1>2. PICK us : us = Seeded(title, units)
  OBVIOUS
<1>3. /\ AreUnits(us) /\ Len(us) = Len(units) /\ 1 \in 1..Len(us) /\ Unit(us[1])
      /\ \A n \in 1..Len(us) : \A o \in Range(Replaced(title)) :
           UnitOf(us, o) = n => SeedFor(o) \in Range(us[n].seeds)
  <2>1. /\ AreUnits(us) /\ Len(us) = Len(units)
        /\ \A n \in 1..Len(us) : \A o \in Range(Replaced(title)) :
             UnitOf(us, o) = n => SeedFor(o) \in Range(us[n].seeds)
    BY <1>2, LoadUnits
  <2>2. 1 \in 1..Len(us) /\ Unit(us[1])
    BY <2>1, UnitsFacts
  <2> QED BY <2>1, <2>2
<1>4. Analyze(ProgramOf(us[1]))
  <2>1. \E p \in {ProgramOf(units'[1])} : Analyze(p)
    BY DEF Load
  <2>2. Analyze(ProgramOf(units'[1]))
    BY <2>1
  <2>3. units' = us
    BY <1>1, <1>2
  <2> QED BY <2>2, <2>3
<1>5. AllInv'
  BY <1>3, <1>4, UnitProgram, AnalyzeInv
<1>6. BuildTypes'
  BY <1>1, <1>2, <1>3 DEF BuildTypes
<1>7. program' = ProgramOf(us[1])
  BY <1>4 DEF Analyze
<1> QED BY <1>1, <1>2, <1>3, <1>5, <1>6, <1>7

\* And again with those of the hints, which take none away.
LEMMA AgainIs ==
  ASSUME BuildTypes, AnalyzeAgain
  PROVE  /\ BuildTypes' /\ AllInv'
         /\ title' = title /\ found' = found /\ stage = "hints" /\ stage' = "again"
         /\ program' = ProgramOf(units'[1]) /\ Len(units') = Len(units)
         /\ \A o : UnitOf(units', o) = UnitOf(units, o)
         /\ \A n \in 1..Len(units') : /\ units'[n].end = units[n].end
                                      /\ Range(units[n].seeds) \subseteq Range(units'[n].seeds)
                                      /\ n # 1 => units'[n] = units[n]
<1>1. PICK outside \in Sorted(NewFunctions) : units' = [units EXCEPT ![1].seeds = @ \o Sure(outside)]
  BY DEF AnalyzeAgain
<1>2. title' = title /\ found' = found /\ stage = "hints" /\ stage' = "again"
  BY DEF AnalyzeAgain
<1>3. PICK us : us = [units EXCEPT ![1].seeds = @ \o Sure(outside)]
  OBVIOUS
<1>4. /\ AreUnits(us) /\ Len(us) = Len(units)
      /\ \A o : UnitOf(us, o) = UnitOf(units, o)
      /\ \A n \in 1..Len(us) : us[n].end = units[n].end /\ Range(units[n].seeds) \subseteq Range(us[n].seeds)
      /\ \A n \in 1..Len(us) : n # 1 => us[n] = units[n]
  <2>1. outside \in Seq(Int)
    BY HintsType
  <2> QED BY <1>3, <2>1, HintUnits
<1>5. 1 \in 1..Len(us) /\ Unit(us[1])
  BY <1>4, UnitsFacts
<1>6. units' = us
  BY <1>1, <1>3
<1>7. Analyze(ProgramOf(us[1]))
  <2>1. \E p \in {ProgramOf(units'[1])} : Analyze(p)
    BY DEF AnalyzeAgain
  <2>2. Analyze(ProgramOf(units'[1]))
    BY <2>1
  <2> QED BY <2>2, <1>6
<1>8. AllInv'
  BY <1>5, <1>7, UnitProgram, AnalyzeInv
<1>9. BuildTypes'
  BY <1>2, <1>4, <1>6 DEF BuildTypes
<1>10. program' = ProgramOf(us[1])
  BY <1>7 DEF Analyze
<1> HIDE <1>1, <1>3
<1> QED BY <1>2, <1>4, <1>6, <1>8, <1>9, <1>10

LEMMA BuildNextInv == BuildInv /\ [BuildNext]_<<vars, buildVars>> => BuildInv'
<1> SUFFICES ASSUME BuildInv, [BuildNext]_<<vars, buildVars>> PROVE BuildInv'
  OBVIOUS
<1>t. /\ DOMAIN units = 1..Len(units) /\ Len(units) \in Nat \ {0}
  BY UnitsFacts DEF BuildInv, BuildTypes
<1>1. ASSUME UNCHANGED vars, title' = title, units' = units, found' = found PROVE BuildInv'
  <2>1. AllInv'
    BY <1>1, NextAll DEF BuildInv
  <2> QED BY <1>1, <2>1 DEF BuildInv, BuildTypes
<1>2. CASE Load
  BY <1>2, LoadIs DEF BuildInv
<1>3. CASE Discovering
  <2>1. AllInv'
    BY <1>3, NextAll DEF Discovering, BuildInv
  <2> QED BY <1>3, <2>1 DEF Discovering, BuildInv, BuildTypes, buildVars
<1>4. CASE NextUnit
  <2>1. PICK S : found \in Seq(S)
    BY DEF BuildInv, BuildTypes
  <2>2. title' = title /\ units' = units /\ found' = Append(found, [functions |-> functions, map |-> map])
    BY <1>4 DEF NextUnit
  <2>3. found' \in Seq(S \cup {[functions |-> functions, map |-> map]})
    BY <2>1, <2>2
  <2>4. BuildTypes'
    BY <2>2, <2>3 DEF BuildInv, BuildTypes
  <2>5. CASE Len(found) + 1 < Len(units)
    <3>1. PICK n : n = Len(found) + 2
      OBVIOUS
    <3>2. Analyze(ProgramOf(units[n])) /\ n \in 1..Len(units)
      <4>1. n \in 1..Len(units)
        BY <1>t, <2>1, <2>5, <3>1
      <4>2. Analyze(ProgramOf(units[n]))
        BY <1>4, <2>5, <3>1 DEF NextUnit
      <4> QED BY <4>1, <4>2
    <3>3. Unit(units[n])
      BY <3>2, UnitsFacts DEF BuildInv, BuildTypes
    <3>4. AllInv'
      BY <3>2, <3>3, UnitProgram, AnalyzeInv
    <3> QED BY <2>4, <3>4 DEF BuildInv
  <2>6. CASE ~(Len(found) + 1 < Len(units))
    <3>1. UNCHANGED vars
      BY <1>4, <2>6 DEF NextUnit
    <3>2. AllInv'
      BY <3>1, NextAll DEF BuildInv
    <3> QED BY <2>4, <3>2 DEF BuildInv
  <2> QED BY <2>5, <2>6
<1>5. CASE AnalyzeAgain
  BY <1>5, AgainIs DEF BuildInv
<1>6. CASE TakeAgain
  <2>1. PICK S : found \in Seq(S)
    BY DEF BuildInv, BuildTypes
  <2>2. UNCHANGED vars /\ title' = title /\ units' = units
        /\ found' = [found EXCEPT ![1] = [functions |-> functions, map |-> map]]
    BY <1>6 DEF TakeAgain
  <2>3. found' \in Seq(S \cup {[functions |-> functions, map |-> map]})
    <3> DEFINE new == [functions |-> functions, map |-> map]
    <3>1. found' = [found EXCEPT ![1] = new] /\ Len(found) \in Nat /\ found \in [1..Len(found) -> S]
      BY <2>1, <2>2
    <3> HIDE DEF new
    <3>2. found' \in [1..Len(found) -> S \cup {new}]
      BY <3>1
    <3>3. found' \in Seq(S \cup {new})
      BY <3>1, <3>2, SeqDef
    <3> QED BY <3>3 DEF new
  <2>4. AllInv'
    BY <2>2, NextAll DEF BuildInv
  <2> QED BY <2>2, <2>3, <2>4 DEF BuildInv, BuildTypes
<1>7. CASE Fail \/ NoHints \/ Generate
  BY <1>1, <1>7 DEF Fail, NoHints, Generate
<1>8. CASE UNCHANGED <<vars, buildVars>>
  BY <1>1, <1>8 DEF buildVars
<1> QED BY <1>2, <1>3, <1>4, <1>5, <1>6, <1>7, <1>8 DEF BuildNext

\* The types of discovery's state hold from the first unit of any title to the
\* last analysis of it.
THEOREM BuildTypeCorrect == BuildSpec => []TypeOK
<1>1. BuildInv => TypeOK
  BY DEF BuildInv, AllInv, Inv, Types
<1> QED BY BuildInitInv, BuildNextInv, <1>1, PTL DEF BuildSpec

\* Whatever overrides, imports and hints lead into a unit, what its functions hold
\* is marked as code and nothing else is until they are split, in the analysis with
\* the hints as in the first.
THEOREM BuildMarksCorrect == BuildSpec => []MarksAreHeld
<1>1. BuildInv => MarksAreHeld
  BY DEF BuildInv, AllInv, Inv
<1> QED BY BuildInitInv, BuildNextInv, <1>1, PTL DEF BuildSpec

\* And what a guess joins in any unit is a label of the functions that hold it.
THEOREM BuildJoinsCorrect == BuildSpec => []JoinsAreLabels
<1>1. BuildInv => JoinsAreLabels
  BY DEF BuildInv, AllInv, JoinsInv
<1> QED BY BuildInitInv, BuildNextInv, <1>1, PTL DEF BuildSpec

\* Every path is followed to its end in every unit until it is split: wherever an
\* instruction of a function leads, some function goes on from there unless it was
\* found not to be code, in the analysis with the hints as in the first.
THEOREM BuildPathsCorrect == BuildSpec => [](round.number = 0 => PathsAreFollowed)
<1>1. BuildInv => (round.number = 0 => PathsAreFollowed)
  BY PathsHold DEF BuildInv
<1> QED BY BuildInitInv, BuildNextInv, <1>1, PTL DEF BuildSpec
-----------------------------------------------------------------------------
(* Which function the host runs in the place of another.                   *)

\* The functions that outrank one and how many there are.
Superiors(fs, e) == {d \in DOMAIN fs : Outranks(fs, d, e)}
Rank(fs, e) == Cardinality(Superiors(fs, e))

\* Functions of finitely many instructions, by entry.
Found(fs) ==
  /\ IsFiniteSet(DOMAIN fs) /\ DOMAIN fs \subseteq Int
  /\ \A e \in DOMAIN fs : IsFiniteSet(fs[e].code)

LEMMA RankType ==
  ASSUME NEW fs, Found(fs), NEW e
  PROVE  Rank(fs, e) \in Nat /\ Rank(fs, e) <= Cardinality(DOMAIN fs) /\ Cardinality(DOMAIN fs) \in Nat
         /\ IsFiniteSet(Superiors(fs, e))
<1>1. Superiors(fs, e) \in SUBSET DOMAIN fs
  BY DEF Superiors
<1>2. IsFiniteSet(DOMAIN fs)
  BY DEF Found
<1> QED BY <1>1, <1>2, FS_Subset, FS_CardinalityType DEF Rank

\* Of two functions one outranks the other, and has fewer before it.
LEMMA RankFalls ==
  ASSUME NEW fs, Found(fs), NEW d \in DOMAIN fs, NEW e \in DOMAIN fs
  PROVE  /\ d # e => Outranks(fs, d, e) \/ Outranks(fs, e, d)
         /\ Outranks(fs, d, e) => Rank(fs, d) < Rank(fs, e)
<1> DEFINE size(f) == Cardinality(fs[f].code)
<1>1. \A f \in DOMAIN fs : size(f) \in Nat /\ f \in Int
  BY FS_CardinalityType DEF Found
<1>2. \A f, g \in DOMAIN fs : Outranks(fs, f, g) <=> size(f) > size(g) \/ (size(f) = size(g) /\ f < g)
  BY DEF Outranks
<1> HIDE DEF size
<1>3. d # e => Outranks(fs, d, e) \/ Outranks(fs, e, d)
  BY <1>1, <1>2
<1>4. ASSUME Outranks(fs, d, e) PROVE Rank(fs, d) < Rank(fs, e)
  <2>1. \A f \in DOMAIN fs : Outranks(fs, f, d) => Outranks(fs, f, e)
    BY <1>1, <1>2, <1>4
  <2>2. d \notin Superiors(fs, d) /\ d \in Superiors(fs, e)
    BY <1>1, <1>2, <1>4 DEF Superiors
  <2>3. Superiors(fs, d) \in SUBSET Superiors(fs, e) /\ Superiors(fs, d) # Superiors(fs, e)
    BY <2>1, <2>2 DEF Superiors
  <2>4. /\ Cardinality(Superiors(fs, d)) <= Cardinality(Superiors(fs, e))
        /\ Cardinality(Superiors(fs, d)) # Cardinality(Superiors(fs, e))
    BY <2>3, RankType, FS_Subset
  <2>5. Rank(fs, d) \in Nat /\ Rank(fs, e) \in Nat
    BY RankType
  <2> QED BY <2>4, <2>5 DEF Rank
<1> QED BY <1>3, <1>4

\* In a set of functions one comes first.
LEMMA FirstFunction ==
  ASSUME NEW fs, Found(fs), NEW S \in SUBSET DOMAIN fs, S # {}
  PROVE  \E d \in S : \A o \in S : Rank(fs, d) <= Rank(fs, o)
<1> DEFINE T == {Rank(fs, d) : d \in S}
<1>1. T \in SUBSET Nat /\ T # {}
  BY RankType
<1>2. PICK n \in T : \A k \in T : n <= k
  <2> HIDE DEF T
  <2> QED BY <1>1, LeastNumber
<1> QED BY <1>2

\* Of the functions that hold one the first is its parent.
LEMMA ParentIs ==
  ASSUME NEW fs, Found(fs), NEW e \in Recompiled(fs), Owners(fs, e) # {}
  PROVE  /\ Parent(fs, e) \in Owners(fs, e)
         /\ Parent(fs, e) \in Recompiled(fs)
         /\ Rank(fs, Parent(fs, e)) < Rank(fs, e)
<1>1. Owners(fs, e) \in SUBSET DOMAIN fs /\ e \in DOMAIN fs
  BY DEF Owners, Recompiled
<1>2. PICK d \in Owners(fs, e) : \A o \in Owners(fs, e) : Rank(fs, d) <= Rank(fs, o)
  BY <1>1, FirstFunction
<1>3. ASSUME NEW o \in Owners(fs, e), o # d PROVE Outranks(fs, d, o)
  <2>1. ~(Rank(fs, o) < Rank(fs, d))
    BY <1>2, RankType
  <2> QED BY <2>1, <1>1, <1>3, RankFalls
<1>4. Parent(fs, e) \in Owners(fs, e)
  <2> DEFINE P(x) == x \in Owners(fs, e) /\ \A o \in Owners(fs, e) : o = x \/ Outranks(fs, x, o)
  <2>1. P(d)
    BY <1>3
  <2>2. P(CHOOSE x : P(x))
    BY <2>1, Zenon
  <2>3. Parent(fs, e) = CHOOSE x : P(x)
    BY DEF Parent
  <2> QED BY <2>2, <2>3
<1>5. Parent(fs, e) \in DOMAIN fs /\ Parent(fs, e) \in Recompiled(fs) /\ Outranks(fs, Parent(fs, e), e)
  BY <1>4, <1>1 DEF Owners
<1> QED BY <1>1, <1>4, <1>5, RankFalls

\* What the recursive function of containers is: the last parent of a function.
Up(t, fs, e) == IF Owners(fs, e) = {} THEN e ELSE t[Parent(fs, e)]
IsTop(t, fs, S) == t = [e \in S |-> Up(t, fs, e)]
Top(fs) == CHOOSE t : IsTop(t, fs, Recompiled(fs))

LEMMA HomesAre ==
  ASSUME NEW fs
  PROVE  Homes(fs) = [e \in Recompiled(fs) |-> IF Cardinality(fs[e].code) > OwnFunction THEN Top(fs)[e] ELSE e]
BY DEF Homes, Top, IsTop, Up

\* There is one, since every parent has a lower rank.
LEMMA TopExists ==
  ASSUME NEW fs, Found(fs)
  PROVE  IsTop(Top(fs), fs, Recompiled(fs))
<1> DEFINE R == Recompiled(fs)
           Below(n) == {e \in R : Rank(fs, e) < n}
           Bad == {n \in Nat : ~\E t : IsTop(t, fs, Below(n))}
<1>1. Bad = {}
  <2> SUFFICES ASSUME Bad # {} PROVE FALSE
    OBVIOUS
  <2>1. PICK n \in Bad : \A k \in Bad : n <= k
    <3>1. Bad \in SUBSET Nat
      OBVIOUS
    <3> HIDE DEF Bad
    <3> QED BY <3>1, LeastNumber
  <2>2. n \in Nat /\ ~\E t : IsTop(t, fs, Below(n))
    OBVIOUS
  <2>3. n # 0
    <3>1. Below(0) = {}
      BY RankType
    <3>2. \A t : [e \in {} |-> Up(t, fs, e)] = <<>>
      OBVIOUS
    <3>3. IsTop(<<>>, fs, {})
      BY <3>2 DEF IsTop
    <3> QED BY <3>1, <3>3, <2>2
  <2>4. n - 1 \in Nat /\ n - 1 \notin Bad
    <3>1. n \in Nat
      BY <2>2
    <3> HIDE DEF Bad
    <3> QED BY <2>1, <2>3, <3>1
  <2>5. PICK t : IsTop(t, fs, Below(n - 1))
    <3> HIDE DEF Below
    <3> QED BY <2>4
  <2> DEFINE u == [e \in Below(n) |-> Up(t, fs, e)]
  <2>6. \A e \in Below(n - 1) : t[e] = Up(t, fs, e)
    <3> HIDE DEF Below
    <3> QED BY <2>5 DEF IsTop
  <2>7. Below(n - 1) \subseteq Below(n)
    BY <2>2, RankType
  <2>8. \A e \in Below(n - 1) : u[e] = t[e]
    <3> HIDE DEF Below
    <3> QED BY <2>6, <2>7
  <2>9. ASSUME NEW e \in Below(n) PROVE u[e] = Up(u, fs, e)
    <3>1. CASE Owners(fs, e) = {}
      <4> HIDE DEF Below
      <4> QED BY <3>1 DEF Up
    <3>2. CASE Owners(fs, e) # {}
      <4>1. Parent(fs, e) \in Below(n - 1)
        <5>1. /\ e \in R /\ Rank(fs, e) < n /\ Rank(fs, e) \in Nat /\ Rank(fs, Parent(fs, e)) \in Nat
          BY RankType
        <5>2. Parent(fs, e) \in R /\ Rank(fs, Parent(fs, e)) < Rank(fs, e)
          BY <5>1, <3>2, ParentIs
        <5> QED BY <5>1, <5>2, <2>2
      <4>2. u[Parent(fs, e)] = t[Parent(fs, e)]
        BY <4>1, <2>8
      <4>3. u[e] = Up(t, fs, e)
        <5> HIDE DEF Below
        <5> QED OBVIOUS
      <4> HIDE DEF u
      <4> QED BY <3>2, <4>2, <4>3 DEF Up
    <3> QED BY <3>1, <3>2
  <2>10. IsTop(u, fs, Below(n))
    <3>1. u = [e \in Below(n) |-> u[e]]
      <4> HIDE DEF Below
      <4> QED OBVIOUS
    <3>2. [e \in Below(n) |-> u[e]] = [e \in Below(n) |-> Up(u, fs, e)]
      <4> HIDE DEF Below, u
      <4> QED BY <2>9
    <3> HIDE DEF Below, u
    <3> QED BY <3>1, <3>2 DEF IsTop
  <2> HIDE DEF Below, u
  <2> QED BY <2>2, <2>10
<1>2. Below(Cardinality(DOMAIN fs) + 1) = R
  BY RankType
<1>3. Cardinality(DOMAIN fs) + 1 \in Nat
  BY RankType
<1>4. \E t : IsTop(t, fs, R)
  <2> HIDE DEF Below, R
  <2> QED BY <1>1, <1>2, <1>3
<1> QED BY <1>4, Zenon DEF Top

\* What every parent has, the last one has.
LEMMA HomesHave ==
  ASSUME NEW fs, Found(fs),
         \A e \in Recompiled(fs) : \A d \in Owners(fs, e) : fs[e].labels \subseteq fs[d].labels
  PROVE  Enterable(fs)
<1> DEFINE top == Top(fs)
           Bad == {e \in Recompiled(fs) : ~(fs[e].labels \subseteq fs[top[e]].labels)}
<1>1. \A e \in Recompiled(fs) : top[e] = Up(top, fs, e)
  <2>1. IsTop(top, fs, Recompiled(fs))
    BY TopExists
  <2> HIDE DEF top
  <2> QED BY <2>1 DEF IsTop
<1>2. Bad = {}
  <2> SUFFICES ASSUME Bad # {} PROVE FALSE
    OBVIOUS
  <2>1. Bad \in SUBSET DOMAIN fs
    BY DEF Recompiled
  <2>2. PICK e \in Bad : \A d \in Bad : Rank(fs, e) <= Rank(fs, d)
    <3> HIDE DEF Bad
    <3> QED BY <2>1, FirstFunction
  <2>3. e \in Recompiled(fs) /\ ~(fs[e].labels \subseteq fs[top[e]].labels)
    OBVIOUS
  <2>4. Owners(fs, e) # {}
    BY <2>3, <1>1 DEF Up
  <2>5. /\ Parent(fs, e) \in Owners(fs, e) /\ Parent(fs, e) \in Recompiled(fs)
        /\ Rank(fs, Parent(fs, e)) < Rank(fs, e)
    BY <2>3, <2>4, ParentIs
  <2>6. Parent(fs, e) \notin Bad
    <3>1. Rank(fs, Parent(fs, e)) \in Nat /\ Rank(fs, e) \in Nat
      BY RankType
    <3> HIDE DEF Bad
    <3> QED BY <2>2, <2>5, <3>1
  <2>7. top[e] = top[Parent(fs, e)]
    BY <2>3, <2>4, <1>1 DEF Up
  <2>8. fs[Parent(fs, e)].labels \subseteq fs[top[e]].labels
    BY <2>5, <2>6, <2>7
  <2> QED BY <2>3, <2>5, <2>8
<1>3. \A e \in Recompiled(fs) : Homes(fs)[e] = top[e] \/ Homes(fs)[e] = e
  BY HomesAre
<1> QED BY <1>2, <1>3 DEF Enterable

\* A function that holds another needs at least its labels.
LEMMA OwnersLabelled ==
  ASSUME NEW J, LabelledWith(J), NEW e \in Recompiled(functions), NEW d \in Owners(functions, e)
  PROVE  functions[e].labels \subseteq functions[d].labels
<1>1. /\ e \in DOMAIN functions /\ d \in DOMAIN functions
      /\ e \in functions[d].labels /\ functions[d].mode = functions[e].mode
      /\ functions[e].code \subseteq functions[d].code
  BY DEF Owners, Recompiled
<1>2. \A f \in {d, e} :
        functions[f].labels = functions[f].code \cap ({f} \cup AllLabels(functions[f].mode, functions[f].code)
                                \cup {a \in functions[f].code : <<a, functions[f].mode>> \in J})
  BY <1>1 DEF LabelledWith
<1>3. AllLabels(functions[e].mode, functions[e].code) \subseteq AllLabels(functions[d].mode, functions[d].code)
  BY <1>1 DEF AllLabels
<1> QED BY <1>1, <1>2, <1>3

\* The functions there are lie in the program, which is finite.
LEMMA FunctionsFound == Inv => Found(functions)
<1> SUFFICES ASSUME Inv PROVE Found(functions)
  OBVIOUS
<1>1. program.end \in Nat
  BY TypesFacts DEF Inv, Program
<1>2. IsFiniteSet(Halfwords) /\ Halfwords \subseteq Int
  BY <1>1, FS_Interval DEF Halfwords
<1>3. DOMAIN functions \subseteq Halfwords /\ \A e \in DOMAIN functions : functions[e].code \subseteq Halfwords
  BY TypesFacts DEF Inv
<1> QED BY <1>2, <1>3, FS_Subset DEF Found

LEMMA HomesCorrect ==
  ASSUME Inv, LabelsInv
  PROVE  HomesHaveLabels
<1> SUFFICES ASSUME phase = "done", round.number = 0 PROVE Enterable(functions)
  BY DEF HomesHaveLabels
<1>1. Found(functions)
  BY FunctionsFound
<1>2. PICK J : LabelledWith(J)
  BY DEF LabelsInv
<1> QED BY <1>1, <1>2, OwnersLabelled, HomesHave

\* In code that is not split, in every unit of any title, a function that is run by
\* another that holds its code can be entered there at all of its labels, however
\* many functions hold each other.
THEOREM BuildHomesCorrect == BuildSpec => []HomesHaveLabels
<1>1. BuildInv => HomesHaveLabels
  BY HomesCorrect DEF BuildInv, AllInv
<1> QED BY BuildInitInv, BuildNextInv, <1>1, PTL DEF BuildSpec

\* The last parent of a function has none, and is in its mode.
LEMMA TopIs ==
  ASSUME NEW fs, Found(fs), NEW o \in Recompiled(fs)
  PROVE  /\ Top(fs)[o] \in Recompiled(fs) /\ Owners(fs, Top(fs)[o]) = {}
         /\ fs[Top(fs)[o]].mode = fs[o].mode
<1> DEFINE top == Top(fs)
           Tops(e) == top[e] \in Recompiled(fs) /\ Owners(fs, top[e]) = {} /\ fs[top[e]].mode = fs[e].mode
           Bad == {e \in Recompiled(fs) : ~Tops(e)}
<1>1. \A e \in Recompiled(fs) : top[e] = Up(top, fs, e)
  <2>1. IsTop(top, fs, Recompiled(fs))
    BY TopExists
  <2> HIDE DEF top
  <2> QED BY <2>1 DEF IsTop
<1>2. Bad = {}
  <2> SUFFICES ASSUME Bad # {} PROVE FALSE
    OBVIOUS
  <2>1. Bad \in SUBSET DOMAIN fs
    BY DEF Recompiled
  <2>2. PICK e \in Bad : \A d \in Bad : Rank(fs, e) <= Rank(fs, d)
    <3> HIDE DEF Bad
    <3> QED BY <2>1, FirstFunction
  <2>3. e \in Recompiled(fs) /\ ~Tops(e)
    OBVIOUS
  <2>4. Owners(fs, e) # {}
    BY <2>3, <1>1 DEF Up
  <2>5. /\ Parent(fs, e) \in Owners(fs, e) /\ Parent(fs, e) \in Recompiled(fs)
        /\ Rank(fs, Parent(fs, e)) < Rank(fs, e)
    BY <2>3, <2>4, ParentIs
  <2>6. Parent(fs, e) \notin Bad
    <3>1. Rank(fs, Parent(fs, e)) \in Nat /\ Rank(fs, e) \in Nat
      BY RankType
    <3> HIDE DEF Bad
    <3> QED BY <2>2, <2>5, <3>1
  <2>7. Tops(Parent(fs, e))
    BY <2>5, <2>6
  <2>8. top[e] = top[Parent(fs, e)]
    BY <2>3, <2>4, <1>1 DEF Up
  <2>9. fs[Parent(fs, e)].mode = fs[e].mode
    BY <2>5 DEF Owners
  <2> HIDE DEF Bad, top
  <2> QED BY <2>3, <2>7, <2>8, <2>9
<1> QED BY <1>2

\* So the home of a function becomes C.
LEMMA HomesWritten ==
  ASSUME NEW fs, Found(fs), NEW e \in Recompiled(fs)
  PROVE  Homes(fs)[e] \in Written(fs) /\ fs[Homes(fs)[e]].mode = fs[e].mode
<1> DEFINE big(d) == Cardinality(fs[d].code) > OwnFunction
<1>1. \A d \in Recompiled(fs) : Homes(fs)[d] = IF big(d) THEN Top(fs)[d] ELSE d
  BY HomesAre
<1> HIDE DEF big
<1>2. CASE ~big(e)
  BY <1>1, <1>2 DEF Written
<1>3. CASE big(e)
  <2>1. /\ Top(fs)[e] \in Recompiled(fs) /\ Owners(fs, Top(fs)[e]) = {}
        /\ fs[Top(fs)[e]].mode = fs[e].mode
    BY TopIs
  <2>2. Top(fs)[Top(fs)[e]] = Top(fs)[e]
    <3>1. IsTop(Top(fs), fs, Recompiled(fs))
      BY TopExists
    <3>2. Top(fs)[Top(fs)[e]] = Up(Top(fs), fs, Top(fs)[e])
      BY <2>1, <3>1 DEF IsTop
    <3> QED BY <2>1, <3>2 DEF Up
  <2>3. Homes(fs)[e] = Top(fs)[e] /\ Homes(fs)[Top(fs)[e]] = Top(fs)[e]
    BY <1>1, <1>3, <2>1, <2>2
  <2> QED BY <2>1, <2>3 DEF Written
<1> QED BY <1>2, <1>3
-----------------------------------------------------------------------------
(* What leads into a unit from outside is where one of its functions begins. *)

\* What is known of the functions of a program that was analyzed.
Analyzed(fs, p) ==
  /\ Found(fs)
  /\ \A i \in DOMAIN p.calls : p.calls[i].address \in DOMAIN fs
  /\ \A e \in DOMAIN fs :
       /\ fs[e].mode \in Modes
       /\ e \in fs[e].code => e \in fs[e].labels
       /\ \A l \in fs[e].labels : l \in 0..p.end - 1 /\ (fs[e].mode = "Arm" => l % 2 = 0)

UnitDone(n) == Analyzed(found[n].functions, ProgramOf(units[n]))

\* What overrides replace leads into their units.
SeedsThere ==
  \A n \in 1..Len(units) : \A o \in Range(Replaced(title)) :
    UnitOf(units, o) = n => SeedFor(o) \in Range(units[n].seeds)

\* The programs that are analyzed, and what is known of those that were, except of
\* the executable while it is analyzed once more.
StagesInv ==
  /\ Len(found) <= Len(units)
  /\ stage = "load" => found = <<>>
  /\ stage = "analyze" => Len(found) < Len(units) /\ program = ProgramOf(units[Len(found) + 1])
  /\ stage \in {"hints", "again"} => found # <<>>
  /\ stage = "again" => program = ProgramOf(units[1])
  /\ \A n \in DOMAIN found : (stage = "again" => n # 1) => UnitDone(n)
  /\ stage \notin {"load", "failed"} => SeedsThere

\* What surely leads into a program that was analyzed starts a function.
LEMMA CallsKnown ==
  ASSUME AllInv, phase = "done", NEW p, p = program, NEW i \in DOMAIN p.calls
  PROVE  p.calls[i].address \in DOMAIN functions
<1>1. ~exploring
  BY DEF AllInv, Phases
<1> QED BY <1>1 DEF AllInv, CallsInv, Known

LEMMA AnalysisDone ==
  ASSUME AllInv, phase = "done"
  PROVE  Analyzed(functions, program)
<1>1. Found(functions)
  BY FunctionsFound DEF AllInv
<1>2. \A i \in DOMAIN program.calls : program.calls[i].address \in DOMAIN functions
  BY CallsKnown
<1>3. ASSUME NEW e \in DOMAIN functions
      PROVE  /\ functions[e].mode \in Modes
             /\ e \in functions[e].code => e \in functions[e].labels
             /\ \A l \in functions[e].labels :
                  l \in 0..program.end - 1 /\ (functions[e].mode = "Arm" => l % 2 = 0)
  <2>1. /\ functions[e] \in [mode : Modes, code : SUBSET Halfwords, labels : SUBSET Nat]
        /\ functions[e].labels \subseteq functions[e].code
        /\ functions[e].code \subseteq DOMAIN program.code[functions[e].mode]
        /\ Program(program)
    BY TypesFacts DEF AllInv, Inv
  <2>2. \A a \in DOMAIN program.code["Arm"] : a % 2 = 0
    BY <2>1 DEF Program
  <2>3. e \in functions[e].code => e \in functions[e].labels
    BY DEF AllInv, EntriesInv
  <2> QED BY <2>1, <2>2, <2>3 DEF Halfwords
<1> QED BY <1>1, <1>2, <1>3 DEF Analyzed

LEMMA StagesInit == BuildInit => StagesInv
<1> SUFFICES ASSUME BuildInit PROVE StagesInv
  OBVIOUS
<1>1. stage = "load" /\ found = <<>> /\ AreUnits(units)
  BY BuildInitInv DEF BuildInit, BuildInv, BuildTypes
<1>2. DOMAIN <<>> = {} /\ Len(<<>>) = 0
  OBVIOUS
<1>3. Len(units) \in Nat
  BY <1>1, UnitsFacts
<1> QED BY <1>1, <1>2, <1>3 DEF StagesInv

\* Where the unit and its functions are left alone.
LEMMA DoneStays ==
  ASSUME NEW n, units'[n] = units[n], found'[n] = found[n], UnitDone(n)
  PROVE  UnitDone(n)'
BY DEF UnitDone

LEMMA StagesNext == BuildInv /\ StagesInv /\ [BuildNext]_<<vars, buildVars>> => StagesInv'
<1> SUFFICES ASSUME BuildInv, StagesInv, [BuildNext]_<<vars, buildVars>> PROVE StagesInv'
  OBVIOUS
<1>u. Len(units) \in Nat \ {0} /\ BuildTypes
  BY UnitsFacts DEF BuildInv, BuildTypes
<1>f. PICK S : found \in Seq(S)
  BY DEF BuildInv, BuildTypes
<1>1. CASE Fail \/ NoHints \/ Generate \/ Discovering \/ UNCHANGED <<vars, buildVars>>
  <2>1. /\ title' = title /\ units' = units /\ found' = found
        /\ \/ stage' = stage
           \/ stage \in {"load", "hints", "generate"} /\ stage' \in {"failed", "generate", "written"}
        /\ stage' \notin {"load", "failed"} => stage \notin {"load", "failed"}
    BY <1>1 DEF Fail, NoHints, Generate, Discovering, buildVars
  <2>2. program' = program
    BY <1>1, ProgramSame DEF Fail, NoHints, Generate, Discovering, vars
  <2>3. ASSUME NEW n \in DOMAIN found, UnitDone(n) PROVE UnitDone(n)'
    BY <2>1, <2>3, DoneStays
  <2>4. \A n \in DOMAIN found' : (stage' = "again" => n # 1) => UnitDone(n)'
    BY <2>1, <2>3 DEF StagesInv
  <2>5. stage' \notin {"load", "failed"} => SeedsThere'
    BY <2>1 DEF StagesInv, SeedsThere
  <2> QED BY <2>1, <2>2, <2>4, <2>5 DEF StagesInv
<1>2. CASE Load
  <2>1. /\ title' = title /\ found' = found /\ stage' = "analyze"
        /\ program' = ProgramOf(units'[1]) /\ Len(units') = Len(units)
        /\ \A n \in 1..Len(units') : \A o \in Range(Replaced(title)) :
             UnitOf(units', o) = n => SeedFor(o) \in Range(units'[n].seeds)
    BY <1>2, <1>u, LoadIs
  <2>2. found = <<>>
    BY <1>2 DEF Load, StagesInv
  <2>3. DOMAIN found' = {} /\ Len(found') = 0 /\ Len(found') + 1 = 1
    BY <2>1, <2>2
  <2>4. SeedsThere'
    BY <2>1 DEF SeedsThere
  <2> QED BY <1>u, <2>1, <2>3, <2>4 DEF StagesInv
<1>4. CASE NextUnit
  <2> DEFINE new == [functions |-> functions, map |-> map]
  <2>n. PICK n : n = Len(found) + 1
    OBVIOUS
  <2>1. /\ stage = "analyze" /\ phase = "done" /\ found' = Append(found, new)
        /\ title' = title /\ units' = units
        /\ n <= Len(units) /\ program = ProgramOf(units[n])
    <3>1. /\ stage = "analyze" /\ phase = "done" /\ found' = Append(found, new)
          /\ title' = title /\ units' = units
      BY <1>4 DEF NextUnit
    <3>2. Len(found) < Len(units) /\ program = ProgramOf(units[n]) /\ Len(found) \in Nat
      BY <3>1, <2>n, <1>f DEF StagesInv
    <3> QED BY <3>1, <3>2, <2>n, <1>u
  <2>2. /\ n \in Nat \ {0} /\ DOMAIN found = 1..Len(found) /\ DOMAIN found' = 1..n /\ Len(found') = n
        /\ found'[n] = new /\ \A k \in DOMAIN found : found'[k] = found[k]
    BY <1>f, <2>n, <2>1
  <2>3. ASSUME NEW k \in DOMAIN found PROVE UnitDone(k)'
    BY <2>1, <2>2, DoneStays DEF StagesInv
  <2>4. UnitDone(n)'
    <3>1. Analyzed(functions, program)
      BY <2>1, AnalysisDone DEF BuildInv
    <3>2. found'[n].functions = functions
      BY <2>2
    <3>3. ProgramOf(units'[n]) = program
      BY <2>1
    <3>4. Analyzed(found'[n].functions, ProgramOf(units'[n]))
      BY <3>1, <3>2, <3>3
    <3> QED BY <3>4 DEF UnitDone
  <2>5. \A k \in DOMAIN found' : UnitDone(k)'
    <3>1. \A k \in DOMAIN found' : k \in DOMAIN found \/ k = n
      <4>1. Len(found) \in Nat
        BY <1>f
      <4> QED BY <4>1, <2>2, <2>n
    <3> QED BY <2>3, <2>4, <3>1
  <2>6. SeedsThere'
    BY <2>1 DEF StagesInv, SeedsThere
  <2>7. CASE n < Len(units)
    <3>1. stage' = stage /\ \E p \in {ProgramOf(units[Len(found) + 2])} : Analyze(p)
      BY <1>4, <2>7, <2>n DEF NextUnit
    <3>2. program' = ProgramOf(units[n + 1])
      <4>1. Len(found) + 2 = n + 1
        BY <1>f, <2>n
      <4> QED BY <3>1, <4>1 DEF Analyze
    <3> QED BY <2>1, <2>2, <2>5, <2>6, <2>7, <3>1, <3>2 DEF StagesInv
  <2>8. CASE ~(n < Len(units))
    <3>1. stage' = "hints"
      BY <1>4, <2>8, <2>n DEF NextUnit
    <3>2. found' # <<>>
      BY <2>2
    <3> QED BY <2>1, <2>2, <2>5, <2>6, <3>1, <3>2 DEF StagesInv
  <2> QED BY <2>7, <2>8
<1>5. CASE AnalyzeAgain
  <2>1. /\ title' = title /\ found' = found /\ stage = "hints" /\ stage' = "again"
        /\ program' = ProgramOf(units'[1]) /\ Len(units') = Len(units)
        /\ \A o : UnitOf(units', o) = UnitOf(units, o)
        /\ \A n \in 1..Len(units') : /\ Range(units[n].seeds) \subseteq Range(units'[n].seeds)
                                     /\ n # 1 => units'[n] = units[n]
    BY <1>5, <1>u, AgainIs
  <2>2. ASSUME NEW n \in DOMAIN found, n # 1 PROVE UnitDone(n)'
    <3>1. UnitDone(n)
      BY <2>1 DEF StagesInv
    <3>2. n \in 1..Len(units)
      BY <1>f, <1>u DEF StagesInv
    <3> QED BY <2>1, <2>2, <3>1, <3>2, DoneStays
  <2>3. SeedsThere'
    <3>1. SeedsThere
      BY <2>1 DEF StagesInv
    <3> QED BY <2>1, <3>1 DEF SeedsThere
  <2> QED BY <2>1, <2>2, <2>3 DEF StagesInv
<1>6. CASE TakeAgain
  <2> DEFINE new == [functions |-> functions, map |-> map]
  <2>1. /\ stage = "again" /\ phase = "done" /\ stage' = "generate"
        /\ title' = title /\ units' = units
        /\ found' = [found EXCEPT ![1] = new] /\ found # <<>> /\ program = ProgramOf(units[1])
    BY <1>6 DEF TakeAgain, StagesInv
  <2>2. /\ DOMAIN found' = DOMAIN found /\ found'[1] = new /\ Len(found') = Len(found)
        /\ \A k \in DOMAIN found : k # 1 => found'[k] = found[k]
    <3>1. DOMAIN found = 1..Len(found) /\ Len(found) \in Nat
      BY <1>f
    <3>2. 1 \in DOMAIN found
      BY <1>f, <2>1, <3>1
    <3> HIDE DEF new
    <3> QED BY <1>f, <2>1, <3>1, <3>2
  <2>3. ASSUME NEW k \in DOMAIN found, k # 1 PROVE UnitDone(k)'
    <3>1. UnitDone(k)
      BY <2>1, <2>3 DEF StagesInv
    <3> QED BY <2>1, <2>2, <2>3, <3>1, DoneStays
  <2>4. ASSUME NEW k, k = 1 PROVE UnitDone(k)'
    <3>1. Analyzed(functions, program)
      BY <2>1, AnalysisDone DEF BuildInv
    <3>2. found'[k].functions = functions
      BY <2>2, <2>4
    <3>3. ProgramOf(units'[k]) = program
      BY <2>1, <2>4
    <3>4. Analyzed(found'[k].functions, ProgramOf(units'[k]))
      BY <3>1, <3>2, <3>3
    <3> QED BY <3>4 DEF UnitDone
  <2>5. \A k \in DOMAIN found' : UnitDone(k)'
    <3>1. ASSUME NEW k, k = 1 PROVE UnitDone(k)'
      BY <2>4, <3>1
    <3> QED BY <2>2, <2>3, <3>1
  <2>6. SeedsThere'
    BY <2>1 DEF StagesInv, SeedsThere
  <2> QED BY <2>1, <2>2, <2>5, <2>6 DEF StagesInv
<1> QED BY <1>1, <1>2, <1>4, <1>5, <1>6 DEF BuildNext

\* An address that surely leads in began a function, whose home is entered there.
LEMMA LeadsHold == BuildInv /\ StagesInv => LeadsAreEntries
<1> SUFFICES ASSUME BuildInv, StagesInv PROVE LeadsAreEntries
  OBVIOUS
<1>1. ASSUME stage = "written", NEW n \in DOMAIN found, NEW p, p = ProgramOf(units[n]), NEW i \in DOMAIN p.calls
      PROVE  p.calls[i].address \in DOMAIN found[n].functions
  <2>1. UnitDone(n)
    BY <1>1 DEF StagesInv
  <2> QED BY <1>1, <2>1 DEF UnitDone, Analyzed
<1>2. ASSUME phase = "done", round.number = 0, NEW i \in DOMAIN program.calls, NEW l, l = program.calls[i]
      PROVE  \/ \E d \in Written(functions) : functions[d].mode = l.mode /\ l.address \in functions[d].labels
             \/ IsData(l.address) \/ ~Decoded(l.address, l.mode)
             \/ Known(l) /\ functions[l.address].mode # l.mode
  <2> DEFINE e == l.address
  <2>1. e \in DOMAIN functions
    BY <1>2, CallsKnown DEF BuildInv
  <2>2. Known(l) /\ Begun(e)
    BY <1>2, <2>1 DEF Known, BuildInv, AllInv, FollowedInv, FunctionsFollowed
  <2>3. CASE functions[e].mode = l.mode /\ e \in functions[e].code
    <3>1. Found(functions)
      BY FunctionsFound DEF BuildInv, AllInv
    <3>2. e \in functions[e].labels
      <4>1. PICK J : LabelledWith(J)
        BY <1>2 DEF BuildInv, AllInv, LabelsInv
      <4> QED BY <2>1, <2>3, <4>1 DEF LabelledWith
    <3>3. e \in Recompiled(functions)
      BY <2>1, <3>2 DEF Recompiled
    <3>4. Enterable(functions)
      BY <1>2, HomesCorrect DEF HomesHaveLabels, BuildInv, AllInv
    <3>5. Homes(functions)[e] \in Written(functions) /\ functions[Homes(functions)[e]].mode = l.mode
      BY <2>3, <3>1, <3>3, HomesWritten
    <3>6. e \in functions[Homes(functions)[e]].labels
      BY <3>2, <3>3, <3>4 DEF Enterable
    <3> QED BY <3>5, <3>6
  <2>4. CASE functions[e].mode # l.mode
    BY <2>2, <2>4
  <2>5. CASE OldMap(e) # "Unknown" /\ FunctionsLoad(e)
    <3>1. ~exploring /\ Inv
      BY <1>2 DEF BuildInv, AllInv, Phases
    <3>2. trial = NoTrial
      BY <3>1, TypesFacts DEF Inv
    <3>3. map[e] # "Unknown"
      BY <2>5, <3>2 DEF OldMap, NoTrial
    <3>4. map[e] \in Bytes
      BY <2>1, <3>1, TypesFacts DEF Inv
    <3>5. Loaded(e)
      BY <2>5 DEF FunctionsLoad, Loaded
    <3> QED BY <3>3, <3>4, <3>5 DEF IsData, Bytes
  <2>6. CASE functions[e].mode = l.mode /\ ~Decoded(e, functions[e].mode)
    BY <2>6
  <2> QED BY <2>2, <2>3, <2>4, <2>5, <2>6 DEF Begun
<1> QED BY <1>1, <1>2 DEF LeadsAreEntries

-----------------------------------------------------------------------------
(* What runs in the place of an override's code.                           *)

LEMMA LatestIs ==
  ASSUME NEW k \in Nat, NEW S \in SUBSET (1..k), S # {}
  PROVE  Latest(S) \in S /\ \A j \in S : j <= Latest(S)
<1> DEFINE T == {k - j : j \in S}
<1>1. T \in SUBSET Nat /\ T # {}
  <2>1. \A j \in S : k - j \in Nat
    OBVIOUS
  <2>2. PICK j \in S : TRUE
    OBVIOUS
  <2> QED BY <2>1, <2>2
<1>2. PICK x \in T : \A y \in T : x <= y
  <2> HIDE DEF T
  <2> QED BY <1>1, LeastNumber
<1>3. PICK i \in S : x = k - i
  OBVIOUS
<1>4. \A j \in S : k - j \in T
  OBVIOUS
<1>5. \A j \in S : j <= i
  <2> HIDE DEF T
  <2> QED BY <1>2, <1>3, <1>4
<1> QED BY <1>5 DEF Latest

\* The overrides of an address are in the order of the titles' files.
LEMMA AtFacts ==
  ASSUME title \in Titles, NEW n, NEW k, NEW i \in At(n, k)
  PROVE  /\ Len(Replaced(title)) \in Nat /\ DOMAIN Replaced(title) = 1..Len(Replaced(title))
         /\ At(n, k) \in SUBSET (1..Len(Replaced(title)))
         /\ i \in InUnit(n) /\ Replaced(title)[i].address = k
         /\ k \in Int
<1>1. Replaced(title) \in Seq(Overrides)
  BY ReplacedFacts
<1>2. Len(Replaced(title)) \in Nat /\ DOMAIN Replaced(title) = 1..Len(Replaced(title))
  BY <1>1
<1>3. At(n, k) \in SUBSET DOMAIN Replaced(title) /\ i \in InUnit(n) /\ Replaced(title)[i].address = k
  BY DEF At, InUnit
<1>4. Replaced(title)[i] \in Overrides
  BY <1>1, <1>2, <1>3
<1> QED BY <1>2, <1>3, <1>4 DEF Overrides

\* Where calls and the host go for an override of something written by hand.
LEMMA HandRuns ==
  ASSUME title \in Titles, NEW n, NEW i \in InUnit(n), i <= Len(ByHand(title)), NEW fs
  PROVE  \A tab \in {Names(n, fs), Entries(n, fs)} :
           LET run == tab[Replaced(title)[i].address] IN run.kind = "override" /\ run.at <= Len(ByHand(title))
<1> DEFINE k == Replaced(title)[i].address
           l == Latest(At(n, k))
           hand == Len(ByHand(title))
<1>1. i \in At(n, k)
  BY DEF At
<1>2. /\ Len(Replaced(title)) \in Nat /\ DOMAIN Replaced(title) = 1..Len(Replaced(title))
      /\ At(n, k) \in SUBSET (1..Len(Replaced(title)))
  <2> HIDE DEF k
  <2> QED BY <1>1, AtFacts
<1>3. l \in At(n, k)
  <2> HIDE DEF k
  <2> QED BY <1>1, <1>2, LatestIs
<1>4. Names(n, fs)[k] = Override(l)
  <2>1. k \in DOMAIN GeneratedNames(fs) \cup {Replaced(title)[j].address : j \in InUnit(n)} /\ At(n, k) # {}
    BY <1>1
  <2> HIDE DEF k, l
  <2> QED BY <2>1 DEF Names, l
<1>5. Entries(n, fs)[k] = Override(l)
  <2> DEFINE keys(e) == {Key(a, fs[e].mode) : a \in fs[e].labels}
             with(x) == {e \in Written(fs) : x \in keys(e)}
             first(S) == CHOOSE e \in S : \A d \in S : e <= d
             labels == UNION {keys(e) : e \in Written(fs)}
             places == {Replaced(title)[j].address : j \in InUnit(n)}
             D == (UNION {keys(e) : e \in Written(fs)}) \cup {Replaced(title)[j].address : j \in InUnit(n)}
             other(x) == Generated(IF x \div 2 \in with(x) THEN x \div 2 ELSE first(with(x)))
  <2>1. k \in D /\ At(n, k) # {}
    <3>1. k \in places
      OBVIOUS
    <3>2. D = labels \cup places
      BY Zenon
    <3> HIDE DEF k, labels, places, D
    <3> QED BY <1>1, <3>1, <3>2
  <2>2. Entries(n, fs) = [x \in D |-> IF At(n, x) # {} THEN Override(Latest(At(n, x))) ELSE other(x)]
    BY DEF Entries
  <2> HIDE DEF k, l, D, other
  <2> QED BY <2>1, <2>2 DEF l
<1>6. l <= hand
  <2> SUFFICES ASSUME ~(l <= hand) PROVE FALSE
    OBVIOUS
  <2>1. /\ l \in InUnit(n) /\ Replaced(title)[l].address = k /\ l \in DOMAIN Replaced(title)
        /\ Replaced(title)[l].module = Replaced(title)[i].module
    BY <1>3 DEF At, InUnit
  <2>2. hand \in Nat /\ l \in Nat /\ i \in 1..hand
    <3>1. hand \in Nat
      BY ReplacedFacts
    <3>2. i \in 1..Len(Replaced(title)) /\ l \in 1..Len(Replaced(title))
      BY <1>1, <1>2, <1>3
    <3> HIDE DEF l, k, hand
    <3> QED BY <3>1, <3>2 DEF hand
  <2>3. l > hand
    <3> HIDE DEF l, hand
    <3> QED BY <2>2
  <2>4. Replaced(title)[l].module = "" /\ ~ByHandAt(title, k)
    BY <2>1, <2>3, ReplacedFacts
  <2>5. Replaced(title)[i] = ByHand(title)[i]
    BY <2>2, ReplacedFacts
  <2>6. ByHand(title)[i] \in Range(ByHand(title))
    <3>1. DOMAIN ByHand(title) = 1..hand
      <4>1. ByHand(title) \in Seq(Overrides)
        BY ReplacedFacts
      <4> QED BY <4>1
    <3> QED BY <2>2, <3>1 DEF Range
  <2>7. ByHandAt(title, k)
    BY <2>1, <2>4, <2>5, <2>6 DEF ByHandAt
  <2> QED BY <2>4, <2>7
<1> HIDE DEF l, k
<1>7. Override(l).kind = "override" /\ Override(l).at = l
  BY DEF Override
<1> QED BY <1>4, <1>5, <1>6, <1>7 DEF k

\* What the recursive function of Chain is.
EndOf(u, o, j) == IF o[j].kind = "override" /\ o[j].at \in DOMAIN o THEN u[o[j].at] ELSE o[j]
IsEnd(u, o, S) == u = [j \in S |-> EndOf(u, o, j)]

LEMMA ChainIs ==
  ASSUME NEW n, NEW fs, NEW i
  PROVE  LET o == Originals(n, fs)
         IN Chain(n, fs, i) <=> i \in DOMAIN o /\ (CHOOSE u : IsEnd(u, o, DOMAIN o))[i].kind = "generated"
BY DEF Chain, IsEnd, EndOf

\* There is one where overrides lead to those before them.
LEMMA EndExists ==
  ASSUME NEW o, NEW k \in Nat, DOMAIN o \subseteq 1..k,
         \A j \in DOMAIN o : o[j].kind = "override" => o[j].at < j
  PROVE  \E u : IsEnd(u, o, DOMAIN o)
<1> DEFINE Below(n) == {j \in DOMAIN o : j <= n}
           Bad == {n \in Nat : ~\E u : IsEnd(u, o, Below(n))}
<1>1. Bad = {}
  <2> SUFFICES ASSUME Bad # {} PROVE FALSE
    OBVIOUS
  <2>1. PICK n \in Bad : \A m \in Bad : n <= m
    <3>1. Bad \in SUBSET Nat
      OBVIOUS
    <3> HIDE DEF Bad
    <3> QED BY <3>1, LeastNumber
  <2>2. n \in Nat /\ ~\E u : IsEnd(u, o, Below(n))
    OBVIOUS
  <2>3. n # 0
    <3>1. Below(0) = {}
      OBVIOUS
    <3>2. \A u : [j \in {} |-> EndOf(u, o, j)] = <<>>
      OBVIOUS
    <3>3. IsEnd(<<>>, o, {})
      BY <3>2 DEF IsEnd
    <3> QED BY <3>1, <3>3, <2>2
  <2>4. n - 1 \in Nat /\ n - 1 \notin Bad
    <3>1. n \in Nat
      BY <2>2
    <3> HIDE DEF Bad
    <3> QED BY <2>1, <2>3, <3>1
  <2>5. PICK t : IsEnd(t, o, Below(n - 1))
    <3> HIDE DEF Below
    <3> QED BY <2>4
  <2> DEFINE u == [j \in Below(n) |-> EndOf(t, o, j)]
  <2>6. \A j \in Below(n - 1) : j \in Below(n) /\ t[j] = EndOf(t, o, j)
    <3>1. \A j \in Below(n - 1) : j \in Below(n)
      BY <2>2
    <3> HIDE DEF Below
    <3> QED BY <3>1, <2>5, Zenon DEF IsEnd
  <2>7. \A j \in Below(n - 1) : u[j] = t[j]
    <3> HIDE DEF Below
    <3> QED BY <2>6
  <2>8. \A j \in Below(n) : o[j].kind = "override" /\ o[j].at \in DOMAIN o => o[j].at \in Below(n - 1)
    BY <2>2
  <2>9. \A j \in Below(n) : EndOf(t, o, j) = EndOf(u, o, j)
    <3> HIDE DEF u, Below
    <3> QED BY <2>7, <2>8 DEF EndOf
  <2>10. u = [j \in Below(n) |-> EndOf(t, o, j)]
    OBVIOUS
  <2>11. IsEnd(u, o, Below(n))
    <3> HIDE DEF u, Below
    <3> QED BY <2>9, <2>10 DEF IsEnd
  <2> HIDE DEF u, Below
  <2> QED BY <2>2, <2>11
<1>2. Below(k) = DOMAIN o
  OBVIOUS
<1> HIDE DEF Below
<1> QED BY <1>1, <1>2

\* Where there is generated code at an address, all its overrides have an original.
LEMMA ChainHolds ==
  ASSUME title \in Titles, NEW n, NEW fs, NEW k, NEW i \in At(n, k), k \in DOMAIN GeneratedNames(fs)
  PROVE  Chain(n, fs, i)
<1> DEFINE o == Originals(n, fs)
           u == CHOOSE u : IsEnd(u, o, DOMAIN o)
           addr(j) == Replaced(title)[j].address
           before(j) == {m \in At(n, addr(j)) : m < j}
           names == GeneratedNames(fs)
           Bad == {j \in At(n, k) : u[j].kind # "generated"}
<1>1. /\ DOMAIN o = {j \in InUnit(n) : before(j) # {} \/ addr(j) \in DOMAIN names}
      /\ \A j \in DOMAIN o : o[j] = IF before(j) # {} THEN Override(Latest(before(j))) ELSE names[addr(j)]
  BY DEF Originals
<1>2. Len(Replaced(title)) \in Nat /\ DOMAIN Replaced(title) = 1..Len(Replaced(title))
  BY AtFacts
<1>3. ASSUME NEW j \in InUnit(n), before(j) # {}
      PROVE  Latest(before(j)) \in At(n, addr(j)) /\ Latest(before(j)) < j
  <2>1. before(j) \in SUBSET (1..Len(Replaced(title)))
    BY <1>2 DEF At, InUnit
  <2>2. Latest(before(j)) \in before(j)
    <3> HIDE DEF before
    <3> QED BY <1>2, <1>3, <2>1, LatestIs
  <2> QED BY <2>2
<1>4. \A j : Override(j).kind = "override" /\ Override(j).at = j
  BY DEF Override
<1>5. \A a \in DOMAIN names : names[a].kind = "generated"
  BY DEF GeneratedNames, Generated
<1>6. ASSUME NEW j \in DOMAIN o, o[j].kind = "override"
      PROVE  before(j) # {} /\ o[j].at = Latest(before(j))
  <2> HIDE DEF o, before, addr, names
  <2>1. o[j].kind # "generated"
    BY <1>6
  <2>2. before(j) # {}
    BY <1>1, <1>5, <2>1
  <2> QED BY <1>1, <1>4, <2>2
<1>7. \A j \in DOMAIN o : j \in InUnit(n) /\ j \in 1..Len(Replaced(title))
  BY <1>1, <1>2 DEF InUnit
<1>8. IsEnd(u, o, DOMAIN o)
  <2>1. \E w : IsEnd(w, o, DOMAIN o)
    <3> HIDE DEF o, before, addr
    <3> QED BY <1>2, <1>3, <1>6, <1>7, EndExists
  <2> HIDE DEF o
  <2> QED BY <2>1
<1> HIDE DEF u
<1>9. \A j \in At(n, k) : j \in InUnit(n) /\ addr(j) = k /\ j \in DOMAIN o /\ j \in Nat
  <2>1. \A j \in At(n, k) : j \in InUnit(n) /\ addr(j) = k
    BY DEF At
  <2> HIDE DEF o, before, addr, names
  <2> QED BY <2>1, <1>1, <1>7 DEF names
<1>10. Bad = {}
  <2> SUFFICES ASSUME Bad # {} PROVE FALSE
    OBVIOUS
  <2>1. PICK j \in Bad : \A m \in Bad : j <= m
    <3>1. Bad \in SUBSET Nat
      BY <1>9
    <3> HIDE DEF Bad
    <3> QED BY <3>1, LeastNumber
  <2>2. j \in At(n, k) /\ u[j].kind # "generated"
    OBVIOUS
  <2>3. u[j] = EndOf(u, o, j)
    <3> HIDE DEF o
    <3> QED BY <1>8, <1>9, <2>2, Zenon DEF IsEnd
  <2>4. CASE o[j].kind = "override"
    <3>1. before(j) # {} /\ o[j].at = Latest(before(j))
      BY <1>6, <1>9, <2>2, <2>4
    <3>2. o[j].at \in At(n, k) /\ o[j].at < j
      <4> HIDE DEF o, before, addr
      <4> QED BY <1>3, <1>9, <2>2, <3>1
    <3>3. o[j].at \in DOMAIN o /\ o[j].at \in Nat /\ j \in Nat
      BY <1>9, <2>2, <3>2
    <3>4. o[j].at \notin Bad
      <4> HIDE DEF Bad, o
      <4> QED BY <2>1, <3>2, <3>3
    <3>5. u[o[j].at].kind = "generated"
      BY <3>2, <3>4
    <3> HIDE DEF o
    <3> QED BY <2>2, <2>3, <2>4, <3>3, <3>5 DEF EndOf
  <2>5. CASE o[j].kind # "override"
    <3>1. u[j] = o[j]
      <4> HIDE DEF o
      <4> QED BY <2>3, <2>5 DEF EndOf
    <3>2. before(j) = {}
      <4> HIDE DEF o, before, addr, names
      <4> QED BY <1>1, <1>4, <1>9, <2>2, <2>5
    <3>3. o[j] = names[k]
      <4> HIDE DEF o, before, addr, names
      <4> QED BY <1>1, <1>9, <2>2, <3>2
    <3>4. names[k].kind = "generated"
      BY <1>5
    <3> QED BY <2>2, <3>1, <3>3, <3>4
  <2> QED BY <2>4, <2>5
<1>11. i \in DOMAIN o /\ u[i].kind = "generated"
  BY <1>9, <1>10
<1> HIDE DEF o
<1> QED BY <1>11, ChainIs DEF o, u

\* An address is the key of where it leads.
LEMMA KeyOf ==
  ASSUME NEW v \in Int
  PROVE  /\ Key(v \div 2, ModeOf(v)) = v
         /\ ModeOf(v) \in Modes
         /\ LeadOf([address |-> v, pointer |-> FALSE]).address = v \div 2
         /\ (ModeOf(v) = "Arm" => (v \div 2) % 2 = 0) =>
              LeadOf([address |-> v, pointer |-> FALSE]).mode = ModeOf(v)
<1> DEFINE s == [address |-> v, pointer |-> FALSE]
<1>1. LeadOf(s).address = v \div 2
  BY DEF LeadOf, Code
<1>2. LeadOf(s).mode = IF v % 2 = 1 THEN "Thumb" ELSE IF v % 4 = 0 THEN "Arm" ELSE "Neither"
  BY DEF LeadOf, Code
<1> HIDE DEF s
<1>3. v % 2 \in {0, 1} /\ v = 2 * (v \div 2) + (v % 2)
  OBVIOUS
<1>4. v % 2 = 0 /\ (v \div 2) % 2 = 0 => v % 4 = 0
  OBVIOUS
<1>5. (ModeOf(v) = "Arm" => (v \div 2) % 2 = 0) => LeadOf(s).mode = ModeOf(v)
  BY <1>2, <1>3, <1>4 DEF ModeOf
<1>6. Key(v \div 2, ModeOf(v)) = v
  BY <1>3 DEF Key, ModeOf
<1>7. ModeOf(v) \in Modes
  BY DEF ModeOf, Modes
<1> QED BY <1>1, <1>5, <1>6, <1>7 DEF s

LEMMA OverridesHold == BuildInv /\ StagesInv => OverridesRun
<1> SUFFICES ASSUME BuildInv, StagesInv, stage = "written", NEW n \in DOMAIN found, NEW i \in InUnit(n),
                    NEW fs, fs = found[n].functions, NEW o, o = Replaced(title)[i], NEW t, t = o.address \div 2
             PROVE  /\ UnitOf(units, o) = n =>
                         \/ Noted(fs, i) \/ Chain(n, fs, i)
                         \/ t \in DOMAIN fs /\ (fs[t].mode # ModeOf(o.address) \/ t \notin fs[t].code)
                    /\ i <= Len(ByHand(title)) =>
                         \A tab \in {Names(n, fs), Entries(n, fs)} :
                           LET run == tab[o.address] IN run.kind = "override" /\ run.at <= Len(ByHand(title))
  BY DEF OverridesRun
<1>t. title \in Titles /\ BuildTypes
  BY DEF BuildInv, BuildTypes
<1>1. i <= Len(ByHand(title)) =>
        \A tab \in {Names(n, fs), Entries(n, fs)} :
          LET run == tab[o.address] IN run.kind = "override" /\ run.at <= Len(ByHand(title))
  BY <1>t, HandRuns
<1>2. ASSUME UnitOf(units, o) = n, ~Noted(fs, i), t \in DOMAIN fs => fs[t].mode = ModeOf(o.address) /\ t \in fs[t].code
      PROVE  Chain(n, fs, i)
  <2>1. i \in At(n, o.address)
    BY DEF At
  <2>2. o.address \in Int /\ o \in Range(Replaced(title))
    <3>1. i \in DOMAIN Replaced(title)
      BY DEF InUnit
    <3>2. o.address \in Int
      BY <1>t, <2>1, AtFacts
    <3> QED BY <3>1, <3>2 DEF Range
  <2>3. n \in 1..Len(units)
    <3>1. PICK S : found \in Seq(S)
      BY <1>t DEF BuildTypes
    <3>2. Len(units) \in Nat
      BY <1>t, UnitsFacts DEF BuildTypes
    <3>3. n \in 1..Len(found) /\ Len(found) \in Nat
      BY <3>1
    <3> QED BY <3>2, <3>3 DEF StagesInv
  <2>4. PICK u : u = units[n]
    OBVIOUS
  <2>5. Unit(u) /\ SeedFor(o) \in Range(u.seeds)
    <3>1. Unit(u)
      BY <1>t, <2>3, <2>4, UnitsFacts DEF BuildTypes
    <3>2. SeedsThere
      BY DEF StagesInv
    <3> QED BY <3>1, <3>2, <1>2, <2>2, <2>3, <2>4 DEF SeedsThere
  <2>6. PICK p : p = ProgramOf(u)
    OBVIOUS
  <2>7. Analyzed(fs, p)
    <3>1. UnitDone(n)
      BY DEF StagesInv
    <3> QED BY <3>1, <2>4, <2>6 DEF UnitDone
  <2>8. p.end = u.end
    BY <2>6 DEF ProgramOf, ProgramWith
  <2>9. PICK e \in DOMAIN fs : fs[e].mode = ModeOf(o.address) /\ t \in fs[e].labels
    BY <1>2 DEF Noted
  <2>10. t \in 0..u.end - 1 /\ (ModeOf(o.address) = "Arm" => t % 2 = 0)
    BY <2>7, <2>8, <2>9 DEF Analyzed
  <2>11. PICK s : s = SeedFor(o)
    OBVIOUS
  <2>12. ~s.pointer /\ LeadOf(s).address = t /\ LeadOf(s).mode = ModeOf(o.address) /\ ModeOf(o.address) \in Modes
    <3>1. s = [address |-> o.address, pointer |-> FALSE]
      BY <2>11 DEF SeedFor
    <3>2. ~s.pointer
      BY <3>1
    <3> QED BY <2>2, <2>10, <3>1, <3>2, KeyOf
  <2>13. LeadOf(s) \in Range(p.calls)
    BY <2>5, <2>6, <2>10, <2>11, <2>12, ProgramLeads
  <2>14. t \in DOMAIN fs
    <3>1. PICK j \in DOMAIN p.calls : p.calls[j] = LeadOf(s)
      BY <2>13 DEF Range
    <3> QED BY <2>7, <2>12, <3>1 DEF Analyzed
  <2>15. t \in Recompiled(fs)
    BY <1>2, <2>7, <2>14 DEF Analyzed, Recompiled
  <2>16. o.address \in DOMAIN GeneratedNames(fs)
    <3>1. Key(t, fs[t].mode) = o.address
      BY <1>2, <2>2, <2>14, KeyOf
    <3> QED BY <2>15, <3>1 DEF GeneratedNames
  <2> QED BY <1>t, <2>1, <2>16, ChainHolds
<1> QED BY <1>1, <1>2

\* In code that is not split, what overrides, imports, relocations and hints surely
\* lead to can be entered in a function that becomes C, whichever analysis found it.
THEOREM BuildLeadsCorrect == BuildSpec => []LeadsAreEntries
BY BuildInitInv, BuildNextInv, StagesInit, StagesNext, LeadsHold, PTL DEF BuildSpec

\* However many overrides there are of an address, each there is no note about ends
\* in generated code when it calls its original, with the exceptions of OverridesRun,
\* and a function written by hand is what runs, whatever natives there are.
THEOREM BuildOverridesCorrect == BuildSpec => []OverridesRun
BY BuildInitInv, BuildNextInv, StagesInit, StagesNext, OverridesHold, PTL DEF BuildSpec
=============================================================================
