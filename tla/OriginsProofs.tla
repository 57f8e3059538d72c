--------------------------- MODULE OriginsProofs ---------------------------
(***************************************************************************)
(* The pieces and runs write_origins makes are right for every unit.       *)
(***************************************************************************)
EXTENDS Origins, FiniteSetTheorems, SequenceTheorems, WellFoundedInduction, TLAPS

\* What is done of the first loop.
SpansInv ==
  /\ Len(spans) <= Len(unit)
  /\ \A f \in 1..Len(spans) - 1 : Covers(ToSet(spans[f])) = Covers(ToSet(unit[f]))
  /\ spans # <<>> =>
       /\ taken \in 0..Len(unit[Len(spans)])
       /\ Covers(ToSet(spans[Len(spans)])) =
            Covers({unit[Len(spans)][i] : i \in 1..taken})
  /\ spans = <<>> => taken = 0
  /\ at = "spans" => rest = {} /\ covered = None /\ cutting = None /\ pieces = <<>>
  /\ at = "pieces" => Len(spans) = Len(unit) /\ FunctionRead

\* The pieces, what is left of the stretch being cut, the stretch covered and
\* the spans to come follow one another.
Order ==
  /\ PiecesInOrder
  /\ \A i \in 1..Len(pieces) :
       /\ cutting # None => pieces[i][2] <= cutting[1]
       /\ covered # None => pieces[i][2] <= covered[1]
       /\ \A s \in rest : pieces[i][2] <= s[1]
  /\ cutting # None /\ covered # None => cutting[2] <= covered[1]
  /\ \A s \in rest :
       /\ cutting # None => cutting[2] <= s[1]
       /\ covered # None => covered[1] <= s[1]

\* They hold what the spans do.
Part(stretch) == IF stretch = None THEN {} ELSE Bytes(stretch)
Coverage ==
  at = "pieces" =>
    Covers(AllSpans) =
      Covers(ToSet(pieces)) \cup Part(cutting) \cup Part(covered) \cup Covers(rest)

\* No span starts or ends inside a piece, and stretches end at cuts.
Whole ==
  /\ \A i \in 1..Len(pieces) : \A c \in Cuts : c <= pieces[i][1] \/ pieces[i][2] <= c
  /\ rest \subseteq AllSpans

Inv == TypeOK /\ SpansInv /\ Order /\ Coverage /\ Whole
-----------------------------------------------------------------------------
\* What is covered, byte by byte.
LEMMA CoversIff ==
  ASSUME NEW S
  PROVE  \A x : x \in Covers(S) <=> \E i \in S : x \in Bytes(i)
BY DEF Covers

LEMMA BytesIff ==
  ASSUME NEW i \in Interval
  PROVE  \A x : x \in Bytes(i) <=> x \in Nat /\ i[1] <= x /\ x < i[2]
BY DEF Bytes, Interval

LEMMA CoversUnion ==
  ASSUME NEW S, NEW T
  PROVE  Covers(S \cup T) = Covers(S) \cup Covers(T)
BY DEF Covers

\* Two stretches that meet are one.
LEMMA Joined ==
  ASSUME NEW s \in Interval, NEW t \in Interval, s[1] <= t[1], t[1] <= s[2],
         NEW e \in Nat, e = IF s[2] > t[2] THEN s[2] ELSE t[2]
  PROVE  /\ <<s[1], e>> \in Interval
         /\ Bytes(<<s[1], e>>) = Bytes(s) \cup Bytes(t)
<1>1. <<s[1], e>> \in Interval
  BY DEF Interval
<1>2. \A x : x \in Bytes(<<s[1], e>>) <=> x \in Bytes(s) \/ x \in Bytes(t)
  <2>1. \A x : x \in Bytes(<<s[1], e>>) <=> x \in Nat /\ s[1] <= x /\ x < e
    BY <1>1, BytesIff
  <2> QED BY <2>1, BytesIff DEF Interval
<1> QED BY <1>1, <1>2

\* A set of numbers has a least one.
LEMMA LeastNumber ==
  ASSUME NEW S, S \subseteq Nat, S # {}
  PROVE  \E c \in S : \A d \in S : c <= d
<1> DEFINE R == OpToRel(<, Nat)
<1>1. IsWellFoundedOn(R, Nat)
  BY NatLessThanWellFounded
<1>2. PICK x \in S : \A y \in S : ~(<<y, x>> \in R)
  <2> HIDE DEF R
  <2> QED BY <1>1, WFMin
<1>3. R = {ss \in Nat \X Nat : ss[1] < ss[2]}
  BY Zenon DEF OpToRel
<1>4. \A y \in S : ~(y < x)
  <2> TAKE y \in S
  <2>1. <<y, x>> \in Nat \X Nat
    OBVIOUS
  <2>2. <<y, x>> \in R <=> y < x
    <3> HIDE DEF R
    <3> QED BY <1>3, <2>1
  <2> QED BY <1>2, <2>2
<1> QED BY <1>4

\* There is a first span among those left.
LEMMA FirstSpanIs ==
  ASSUME rest \subseteq Interval, rest # {}
  PROVE  /\ FirstSpan \in rest
         /\ \A t \in rest : FirstSpan[1] <= t[1]
<1> DEFINE S1 == {s[1] : s \in rest}
<1>1. PICK a \in S1 : \A b \in S1 : a <= b
  <2>1. S1 \subseteq Nat /\ S1 # {}
    BY DEF Interval
  <2> HIDE DEF S1
  <2> QED BY <2>1, LeastNumber
<1> DEFINE S2 == {s[2] : s \in {s \in rest : s[1] = a}}
<1>2. PICK e \in S2 : \A b \in S2 : e <= b
  <2>1. S2 \subseteq Nat /\ S2 # {}
    BY DEF Interval
  <2> HIDE DEF S2
  <2> QED BY <2>1, LeastNumber
<1>3. PICK s \in rest : s[1] = a /\ s[2] = e
  OBVIOUS
<1>4. \A t \in rest : Precedes(s, t)
  BY <1>1, <1>2, <1>3 DEF Precedes, Interval
<1>5. FirstSpan \in rest /\ \A t \in rest : Precedes(FirstSpan, t)
  BY <1>4 DEF FirstSpan
<1> QED BY <1>5 DEF Precedes, Interval

\* Appending to a sequence of intervals.
LEMMA ElementsAppend ==
  ASSUME NEW s \in Seq(Interval), NEW i \in Interval
  PROVE  /\ Append(s, i) \in Seq(Interval)
         /\ ToSet(Append(s, i)) = ToSet(s) \cup {i}
         /\ Covers(ToSet(Append(s, i))) = Covers(ToSet(s)) \cup Bytes(i)
<1>1. Append(s, i) \in Seq(Interval)
  OBVIOUS
<1>2. ToSet(Append(s, i)) = ToSet(s) \cup {i}
  <2>1. DOMAIN Append(s, i) = 1..Len(s) + 1 /\ DOMAIN s = 1..Len(s)
    OBVIOUS
  <2>2. \A k \in 1..Len(s) + 1 : Append(s, i)[k] = IF k = Len(s) + 1 THEN i ELSE s[k]
    OBVIOUS
  <2> QED BY <2>1, <2>2 DEF ToSet
<1>3. Covers({i}) = Bytes(i)
  BY DEF Covers
<1> QED BY <1>1, <1>2, <1>3, CoversUnion

\* Joining an instruction adds what it covers.
LEMMA JoinCovers ==
  ASSUME NEW s \in Seq(Interval), NEW i \in Interval
  PROVE  /\ Join(s, i) \in Seq(Interval)
         /\ Covers(ToSet(Join(s, i))) = Covers(ToSet(s)) \cup Bytes(i)
<1>1. CASE s # <<>> /\ s[Len(s)][2] = i[1]
  <2> DEFINE n == Len(s)
             j == <<s[n][1], i[2]>>
  <2>1. n \in 1..Len(s) /\ s[n] \in Interval
    BY <1>1
  <2>2. j \in Interval /\ Bytes(j) = Bytes(s[n]) \cup Bytes(i)
    <3>1. s[n][1] <= i[1] /\ i[1] <= s[n][2] /\ i[2] = IF s[n][2] > i[2] THEN s[n][2] ELSE i[2]
      BY <1>1, <2>1 DEF Interval
    <3>2. i[2] \in Nat
      BY DEF Interval
    <3> HIDE DEF n
    <3> QED BY <2>1, <3>1, <3>2, Joined
  <2>3. Join(s, i) = [s EXCEPT ![n] = j]
    BY <1>1 DEF Join
  <2>4. Join(s, i) \in Seq(Interval) /\ Len(Join(s, i)) = n
    BY <2>1, <2>2, <2>3
  <2>5. \A x : x \in Covers(ToSet(Join(s, i))) <=> x \in Covers(ToSet(s)) \/ x \in Bytes(i)
    <3>1. \A x : x \in Covers(ToSet(s)) <=> \E k \in 1..n : x \in Bytes(s[k])
      BY CoversIff DEF ToSet
    <3>2. \A x : x \in Covers(ToSet(Join(s, i))) <=> \E k \in 1..n : x \in Bytes(Join(s, i)[k])
      BY <2>4, CoversIff DEF ToSet
    <3>3. \A k \in 1..n : Join(s, i)[k] = IF k = n THEN j ELSE s[k]
      BY <2>3
    <3> HIDE DEF j
    <3> QED BY <2>1, <2>2, <3>1, <3>2, <3>3
  <2> QED BY <2>4, <2>5
<1>2. CASE ~(s # <<>> /\ s[Len(s)][2] = i[1])
  BY <1>2, ElementsAppend DEF Join
<1> QED BY <1>1, <1>2
-----------------------------------------------------------------------------
LEMMA InvInit == Init => Inv
<1> SUFFICES ASSUME Init PROVE Inv
  OBVIOUS
<1> USE DEF Init
<1>1. TypeOK
  BY OriginsAssumption DEF TypeOK
<1>2. SpansInv
  BY OriginsAssumption DEF SpansInv
<1>3. Order
  BY DEF Order, PiecesInOrder
<1>4. Coverage /\ Whole
  BY DEF Coverage, Whole
<1> QED BY <1>1, <1>2, <1>3, <1>4 DEF Inv

\* The first loop leaves pieces alone, and the second one the spans.
LEMMA ReadingSteps ==
  ASSUME Inv, Function \/ Instruction
  PROVE  Inv'
<1> USE DEF Inv
<1>1. at = "spans" /\ at' = "spans" /\ UNCHANGED <<unit, rest, covered, cutting, pieces>>
  BY DEF Function, Instruction
<1>2. rest = {} /\ covered = None /\ cutting = None /\ pieces = <<>>
  BY <1>1 DEF SpansInv
<1>3. Order' /\ Coverage' /\ Whole'
  BY <1>1, <1>2 DEF Order, PiecesInOrder, Coverage, Whole
<1>4. CASE Function
  <2> USE DEF Function
  <2>1. spans' = Append(spans, <<>>) /\ spans \in Seq(Seq(Interval)) /\ unit \in Seq(Seq(Interval))
    BY <1>4 DEF TypeOK
  <2>2. /\ spans' \in Seq(Seq(Interval)) /\ Len(spans') = Len(spans) + 1
        /\ \A f \in 1..Len(spans) : spans'[f] = spans[f]
        /\ spans'[Len(spans')] = <<>>
    BY <2>1
  <2>3. TypeOK'
    BY <1>1, <1>2, <1>4, <2>2 DEF TypeOK
  <2>4. \A f \in 1..Len(spans') - 1 : Covers(ToSet(spans'[f])) = Covers(ToSet(unit'[f]))
    <3> SUFFICES ASSUME NEW f \in 1..Len(spans)
                 PROVE  Covers(ToSet(spans[f])) = Covers(ToSet(unit[f]))
      BY <1>1, <2>1, <2>2
    <3>1. CASE f < Len(spans)
      BY <2>1, <3>1 DEF SpansInv
    <3>2. CASE f = Len(spans)
      <4>1. spans # <<>> /\ taken = Len(unit[f])
        BY <1>4, <2>1, <3>2 DEF FunctionRead
      <4>2. {unit[f][i] : i \in 1..taken} = ToSet(unit[f])
        BY <4>1 DEF ToSet
      <4> QED BY <3>2, <4>1, <4>2 DEF SpansInv
    <3> QED BY <2>1, <3>1, <3>2
  <2>5. spans' # <<>> /\ Len(spans') <= Len(unit')
    BY <1>1, <1>4, <2>1, <2>2
  <2>6. /\ taken' \in 0..Len(unit'[Len(spans')])
        /\ Covers(ToSet(spans'[Len(spans')])) = Covers({unit'[Len(spans')][i] : i \in 1..taken'})
    <3>1. taken' = 0 /\ unit' = unit
      BY <1>4
    <3>2. Len(unit[Len(spans) + 1]) \in Nat
      BY <1>4, <2>1
    <3>3. ToSet(spans'[Len(spans')]) = {} /\ {unit'[Len(spans')][i] : i \in 1..taken'} = {}
      BY <2>2, <3>1 DEF ToSet
    <3>4. taken' \in 0..Len(unit'[Len(spans')])
      BY <2>1, <2>2, <3>1, <3>2
    <3> QED BY <3>3, <3>4
  <2>7. SpansInv'
    BY <1>1, <1>2, <2>4, <2>5, <2>6 DEF SpansInv
  <2> QED BY <1>3, <2>3, <2>7
<1>5. CASE Instruction
  <2> USE DEF Instruction
  <2> DEFINE n == Len(spans)
             i == unit[n][taken + 1]
  <2>1. spans \in Seq(Seq(Interval)) /\ unit \in Seq(Seq(Interval)) /\ taken \in Nat
    BY DEF TypeOK
  <2>2. spans # <<>> /\ n \in 1..Len(unit) /\ taken # Len(unit[n])
    BY <1>5, <2>1 DEF SpansInv, FunctionRead
  <2>3. taken + 1 \in 1..Len(unit[n]) /\ unit[n] \in Seq(Interval) /\ i \in Interval
    BY <2>1, <2>2 DEF SpansInv
  <2>4. spans[n] \in Seq(Interval)
    BY <2>1, <2>2
  <2>5. spans' = [spans EXCEPT ![n] = Join(spans[n], i)] /\ taken' = taken + 1
    BY <1>5
  <2>6. /\ Join(spans[n], i) \in Seq(Interval)
        /\ Covers(ToSet(Join(spans[n], i))) = Covers(ToSet(spans[n])) \cup Bytes(i)
    <3> HIDE DEF n, i
    <3> QED BY <2>3, <2>4, JoinCovers
  <2>7. /\ spans' \in Seq(Seq(Interval)) /\ Len(spans') = n
        /\ \A f \in 1..n : spans'[f] = IF f = n THEN Join(spans[n], i) ELSE spans[f]
    <3> HIDE DEF i
    <3> QED BY <2>1, <2>2, <2>5, <2>6
  <2>8. TypeOK'
    BY <1>1, <1>2, <2>5, <2>7 DEF TypeOK
  <2>9. Covers({unit[n][k] : k \in 1..taken + 1}) = Covers({unit[n][k] : k \in 1..taken}) \cup Bytes(i)
    <3>1. {unit[n][k] : k \in 1..taken + 1} = {unit[n][k] : k \in 1..taken} \cup {i}
      BY <2>1
    <3>2. Covers({i}) = Bytes(i)
      BY DEF Covers
    <3> HIDE DEF i, n
    <3> QED BY <3>1, <3>2, CoversUnion
  <2>10. Covers(ToSet(spans'[n])) = Covers({unit[n][k] : k \in 1..taken'})
    <3>1. Covers(ToSet(spans[n])) = Covers({unit[n][k] : k \in 1..taken})
      BY <2>2 DEF SpansInv
    <3>2. n \in 1..n
      BY <2>1, <2>2
    <3>3. spans'[n] = Join(spans[n], i)
      BY <2>7, <3>2
    <3> HIDE DEF i, n
    <3> QED BY <2>5, <2>6, <2>9, <3>1, <3>3
  <2>11. \A f \in 1..n - 1 : Covers(ToSet(spans'[f])) = Covers(ToSet(unit[f]))
    BY <2>1, <2>7 DEF SpansInv
  <2>12. SpansInv'
    <3>1. Len(spans') = n /\ unit' = unit /\ spans' # <<>> /\ n <= Len(unit)
      BY <1>1, <2>1, <2>2, <2>7
    <3>2. taken' \in 0..Len(unit[n])
      BY <2>1, <2>3, <2>5
    <3> HIDE DEF n, i
    <3> QED BY <1>1, <1>2, <2>10, <2>11, <3>1, <3>2 DEF SpansInv
  <2> QED BY <1>3, <2>8, <2>12
<1> QED BY <1>4, <1>5

LEMMA SpansAreIntervals ==
  ASSUME TypeOK
  PROVE  AllSpans \subseteq Interval /\ Cuts \subseteq Nat
<1>1. \A f \in 1..Len(spans) : \A i \in 1..Len(spans[f]) : spans[f][i] \in Interval
  <2>1. \A f \in 1..Len(spans) : spans[f] \in Seq(Interval)
    BY DEF TypeOK
  <2> QED BY <2>1
<1>2. AllSpans \subseteq Interval
  BY <1>1 DEF AllSpans, ToSet
<1> QED BY <1>2 DEF Cuts, Interval

LEMMA CoveredIff ==
  ASSUME Inv, at = "pieces"
  PROVE  \A x : x \in Covers(AllSpans) <=>
           \/ x \in Covers(ToSet(pieces)) \/ x \in Covers(rest)
           \/ x \in Part(cutting) \/ x \in Part(covered)
BY DEF Inv, Coverage

LEMMA CoverageAfter ==
  ASSUME AllSpans' = AllSpans,
         \A x : x \in Covers(AllSpans) <=>
           \/ x \in Covers(ToSet(pieces')) \/ x \in Covers(rest')
           \/ x \in Part(cutting') \/ x \in Part(covered')
  PROVE  Coverage'
BY DEF Coverage, Part

LEMMA PartOf ==
  /\ \A x : x \notin Part(None)
  /\ \A s \in Interval : s # None /\ Part(s) = Bytes(s)
BY DEF Part, None, Interval

LEMMA SortStep ==
  ASSUME Inv, Sort
  PROVE  Inv'
<1> USE DEF Inv, Sort
<1>1. /\ rest' = AllSpans /\ at' = "pieces"
      /\ UNCHANGED <<unit, spans, taken, covered, cutting, pieces>>
  OBVIOUS
<1>2. covered = None /\ cutting = None /\ pieces = <<>>
  BY DEF SpansInv
<1>3. AllSpans' = AllSpans /\ Cuts' = Cuts
  BY <1>1 DEF AllSpans, Cuts
<1>4. TypeOK'
  BY <1>1, SpansAreIntervals DEF TypeOK
<1>5. SpansInv'
  BY <1>1 DEF SpansInv, FunctionRead
<1>6. Order'
  BY <1>1, <1>2 DEF Order, PiecesInOrder
<1>7. Coverage'
  <2>1. \A x : x \notin Part(cutting') /\ x \notin Part(covered')
    BY <1>1, <1>2 DEF Part
  <2>2. \A x : x \notin Covers(ToSet(pieces'))
    BY <1>1, <1>2 DEF ToSet, Covers
  <2>3. \A x : x \in Covers(AllSpans) <=>
           \/ x \in Covers(ToSet(pieces')) \/ x \in Covers(rest')
           \/ x \in Part(cutting') \/ x \in Part(covered')
    BY <1>1, <2>1, <2>2
  <2> QED BY <1>3, <2>3, CoverageAfter
<1>8. Whole'
  BY <1>1, <1>2, <1>3 DEF Whole
<1> QED BY <1>4, <1>5, <1>6, <1>7, <1>8

\* What the second loop leaves as it is.
LEMMA SecondLoop ==
  ASSUME Inv, TakeIn \/ NextStretch \/ LastStretch \/ CutOff \/ LastPiece
  PROVE  /\ at = "pieces"
         /\ UNCHANGED <<unit, at, spans, taken>>
         /\ AllSpans' = AllSpans /\ Cuts' = Cuts
         /\ SpansInv'
<1>1. at = "pieces"
  BY DEF Inv, SpansInv, TypeOK, TakeIn, NextStretch, LastStretch, CutOff, LastPiece
<1>2. UNCHANGED <<unit, at, spans, taken>>
  BY DEF TakeIn, NextStretch, LastStretch, CutOff, LastPiece
<1>3. AllSpans' = AllSpans /\ Cuts' = Cuts
  BY <1>2 DEF AllSpans, Cuts
<1>4. SpansInv'
  BY <1>1, <1>2 DEF Inv, SpansInv, FunctionRead
<1> QED BY <1>1, <1>2, <1>3, <1>4

LEMMA StretchSteps ==
  ASSUME Inv, TakeIn \/ NextStretch \/ LastStretch
  PROVE  Inv'
<1> USE DEF Inv
<1>1. /\ at = "pieces" /\ at' = at /\ UNCHANGED <<unit, spans, taken>>
      /\ AllSpans' = AllSpans /\ Cuts' = Cuts /\ SpansInv'
  BY SecondLoop
<1>2. pieces' = pieces /\ cutting = None
  BY DEF TakeIn, NextStretch, LastStretch
<1>3. rest' \subseteq rest
  BY DEF TakeIn, NextStretch, LastStretch
<1>4. Whole'
  BY <1>1, <1>2, <1>3 DEF Whole
<1>5. \A x : x \in Covers(AllSpans) <=>
        x \in Covers(ToSet(pieces)) \/ x \in Covers(rest) \/ x \in Part(covered)
  BY <1>1, <1>2, CoveredIff, PartOf
<1>6. rest # {} =>
        /\ FirstSpan \in rest /\ FirstSpan \in Interval /\ \A t \in rest : FirstSpan[1] <= t[1]
        /\ \A x : x \in Covers(rest) <=> x \in Bytes(FirstSpan) \/ x \in Covers(rest \ {FirstSpan})
  <2> SUFFICES ASSUME rest # {}
               PROVE  /\ FirstSpan \in rest /\ FirstSpan \in Interval /\ \A t \in rest : FirstSpan[1] <= t[1]
                      /\ \A x : x \in Covers(rest) <=> x \in Bytes(FirstSpan) \/ x \in Covers(rest \ {FirstSpan})
    OBVIOUS
  <2>1. rest \subseteq Interval
    BY DEF TypeOK
  <2>2. FirstSpan \in rest /\ \A t \in rest : FirstSpan[1] <= t[1]
    BY <2>1, FirstSpanIs
  <2> HIDE DEF Inv
  <2> QED BY <2>1, <2>2 DEF Covers
<1>7. CASE TakeIn
  <2> DEFINE e == IF covered[2] > FirstSpan[2] THEN covered[2] ELSE FirstSpan[2]
  <2>1. /\ rest # {} /\ covered # None /\ FirstSpan[1] <= covered[2]
        /\ covered' = <<covered[1], e>> /\ rest' = rest \ {FirstSpan} /\ cutting' = None
    BY <1>7, <1>2 DEF TakeIn
  <2>2. covered \in Interval /\ covered[1] <= FirstSpan[1] /\ e \in Nat
    BY <2>1, <1>6 DEF TypeOK, Order, Interval
  <2>3. <<covered[1], e>> \in Interval /\ Bytes(<<covered[1], e>>) = Bytes(covered) \cup Bytes(FirstSpan)
    <3>1. e = IF covered[2] > FirstSpan[2] THEN covered[2] ELSE FirstSpan[2]
      OBVIOUS
    <3> HIDE DEF e, Inv
    <3> QED BY <1>6, <2>1, <2>2, <3>1, Joined
  <2> HIDE DEF e
  <2>4. covered' # None /\ covered'[1] = covered[1]
    BY <2>1 DEF None
  <2>5. TypeOK'
    BY <1>1, <1>2, <1>3, <2>1, <2>3 DEF TypeOK
  <2>6. Order'
    BY <1>2, <1>3, <2>1, <2>4 DEF Order, PiecesInOrder
  <2>7. Coverage'
    <3>1. Part(covered') = Part(covered) \cup Bytes(FirstSpan) /\ cutting' = None
      BY <2>1, <2>2, <2>3, PartOf
    <3> HIDE DEF Inv
    <3>2. \A x : x \in Covers(AllSpans) <=>
           \/ x \in Covers(ToSet(pieces')) \/ x \in Covers(rest')
           \/ x \in Part(cutting') \/ x \in Part(covered')
      BY <1>2, <1>5, <1>6, <2>1, <3>1, PartOf
    <3> QED BY <1>1, <3>2, CoverageAfter
  <2> QED BY <1>1, <1>4, <2>5, <2>6, <2>7
<1>8. CASE NextStretch
  <2>1. /\ rest # {} /\ (covered # None => FirstSpan[1] > covered[2])
        /\ cutting' = covered /\ covered' = FirstSpan /\ rest' = rest \ {FirstSpan}
    BY <1>8 DEF NextStretch
  <2>2. FirstSpan \in Interval /\ FirstSpan # None
    BY <1>6, <2>1 DEF Interval, None
  <2>3. TypeOK'
    BY <1>1, <1>2, <1>3, <2>1, <2>2 DEF TypeOK
  <2>4. Order'
    <3>1. covered # None => covered \in Interval
      BY DEF TypeOK
    <3>2. \A s \in rest : s \in Interval
      BY DEF TypeOK
    <3>3. PiecesInOrder'
      BY <1>2 DEF Order, PiecesInOrder
    <3>4. \A i \in 1..Len(pieces) :
            /\ covered # None => pieces[i][2] <= covered[1]
            /\ \A s \in rest : pieces[i][2] <= s[1]
      BY DEF Order
    <3>5. covered # None => covered[2] <= FirstSpan[1]
      BY <2>1, <2>2, <3>1 DEF Interval
    <3>6. \A s \in rest' : covered # None => covered[2] <= s[1]
      BY <1>3, <1>6, <2>1, <2>2, <3>1, <3>2, <3>5 DEF Interval
    <3> HIDE DEF Inv
    <3> QED BY <1>2, <1>3, <1>6, <2>1, <3>3, <3>4, <3>5, <3>6 DEF Order
  <2>5. Coverage'
    <3> HIDE DEF Inv
    <3>2. \A x : x \in Covers(AllSpans) <=>
           \/ x \in Covers(ToSet(pieces')) \/ x \in Covers(rest')
           \/ x \in Part(cutting') \/ x \in Part(covered')
      BY <1>2, <1>5, <1>6, <2>1, <2>2, PartOf
    <3> QED BY <1>1, <3>2, CoverageAfter
  <2> QED BY <1>1, <1>4, <2>3, <2>4, <2>5
<1>9. CASE LastStretch
  <2>1. covered # None /\ cutting' = covered /\ covered' = None /\ rest' = rest /\ rest = {}
    BY <1>9 DEF LastStretch
  <2>3. TypeOK'
    BY <1>1, <1>2, <2>1 DEF TypeOK
  <2>4. Order'
    BY <1>2, <2>1 DEF Order, PiecesInOrder
  <2>5. Coverage'
    <3> HIDE DEF Inv
    <3>2. \A x : x \in Covers(AllSpans) <=>
           \/ x \in Covers(ToSet(pieces')) \/ x \in Covers(rest')
           \/ x \in Part(cutting') \/ x \in Part(covered')
      BY <1>2, <1>5, <2>1, PartOf
    <3> QED BY <1>1, <3>2, CoverageAfter
  <2> QED BY <1>1, <1>4, <2>3, <2>4, <2>5
<1> QED BY <1>7, <1>8, <1>9

\* A piece cut from the front of the stretch being cut.
LEMMA CutSteps ==
  ASSUME Inv, CutOff \/ LastPiece
  PROVE  Inv'
<1> USE DEF Inv
<1>1. /\ at = "pieces" /\ at' = at /\ UNCHANGED <<unit, spans, taken>>
      /\ AllSpans' = AllSpans /\ Cuts' = Cuts /\ SpansInv'
  BY SecondLoop
<1>2. UNCHANGED <<rest, covered>> /\ cutting # None /\ cutting \in Interval
  BY DEF CutOff, LastPiece, TypeOK
<1>3. Cuts \subseteq Nat /\ pieces \in Seq(Interval) /\ rest \subseteq Interval
  BY SpansAreIntervals DEF TypeOK
\* Either way there is an end e of the piece such that no cut is in it.
<1>4. PICK e \in Nat :
        /\ cutting[1] < e /\ e <= cutting[2]
        /\ pieces' = Append(pieces, <<cutting[1], e>>)
        /\ cutting' = IF e = cutting[2] THEN None ELSE <<e, cutting[2]>>
        /\ \A c \in Cuts : c <= cutting[1] \/ e <= c
  <2>1. CASE CutOff
    <3> DEFINE c == CHOOSE c \in Inside : \A d \in Inside : c <= d
    <3>1. Inside \subseteq Nat /\ Inside # {}
      BY <1>3, <2>1 DEF CutOff, Inside
    <3>2. c \in Inside /\ \A d \in Inside : c <= d
      BY <3>1, LeastNumber
    <3>3. pieces' = Append(pieces, <<cutting[1], c>>) /\ cutting' = <<c, cutting[2]>>
      BY <2>1 DEF CutOff
    <3> HIDE DEF c
    <3>4. c \in Nat /\ cutting[1] < c /\ c < cutting[2]
      BY <3>1, <3>2 DEF Inside
    <3>5. \A d \in Cuts : d <= cutting[1] \/ c <= d
      BY <1>2, <1>3, <3>2, <3>4 DEF Inside, Interval
    <3>6. c # cutting[2] /\ c <= cutting[2]
      BY <1>2, <3>4 DEF Interval
    <3> QED BY <3>3, <3>4, <3>5, <3>6
  <2>2. CASE LastPiece
    <3>1. cutting[2] \in Nat /\ cutting[1] < cutting[2] /\ cutting = <<cutting[1], cutting[2]>>
      BY <1>2 DEF Interval
    <3>2. pieces' = Append(pieces, cutting) /\ cutting' = None /\ Inside = {}
      BY <2>2 DEF LastPiece
    <3>3. \A c \in Cuts : c <= cutting[1] \/ cutting[2] <= c
      BY <1>2, <1>3, <3>2 DEF Inside, Interval
    <3> QED BY <3>1, <3>2, <3>3
  <2> QED BY <2>1, <2>2
<1> DEFINE p == <<cutting[1], e>>
<1>5. p \in Interval /\ p[1] = cutting[1] /\ p[2] = e /\ cutting[1] \in Nat /\ cutting[2] \in Nat
  BY <1>2, <1>4 DEF Interval
<1>6. pieces' = Append(pieces, p)
  BY <1>4
<1> HIDE DEF p
<1>7. cutting' # None =>
        cutting' \in Interval /\ cutting'[1] = e /\ cutting'[2] = cutting[2]
  BY <1>4, <1>5 DEF Interval
<1>8. /\ pieces' \in Seq(Interval) /\ Len(pieces') = Len(pieces) + 1
      /\ \A i \in 1..Len(pieces) : pieces'[i] = pieces[i]
      /\ pieces'[Len(pieces) + 1] = p
      /\ Covers(ToSet(pieces')) = Covers(ToSet(pieces)) \cup Bytes(p)
  BY <1>3, <1>5, <1>6, ElementsAppend
<1>9. \A i \in 1..Len(pieces) : pieces[i] \in Interval
  BY <1>3
<1>10. TypeOK'
  <2>1. cutting' \in Interval \cup {None}
    BY <1>7
  <2> QED BY <1>1, <1>2, <1>8, <2>1 DEF TypeOK
<1>11. Whole'
  <2>1. \A i \in 1..Len(pieces') : \A c \in Cuts : c <= pieces'[i][1] \/ pieces'[i][2] <= c
    <3> TAKE i \in 1..Len(pieces')
    <3>1. CASE i = Len(pieces) + 1
      BY <1>4, <1>5, <1>8, <3>1
    <3>2. CASE i \in 1..Len(pieces)
      BY <1>8, <3>2 DEF Whole
    <3> QED BY <1>3, <1>8, <3>1, <3>2
  <2> QED BY <1>1, <1>2, <2>1 DEF Whole
<1>12. Order'
  <2>1. \A i \in 1..Len(pieces) :
          pieces[i][1] \in Nat /\ pieces[i][2] \in Nat /\ pieces[i][2] <= cutting[1]
    BY <1>2, <1>9 DEF Order, Interval
  <2>2. PiecesInOrder'
    <3> SUFFICES ASSUME NEW i \in 1..Len(pieces'), NEW j \in 1..Len(pieces'), i < j
                 PROVE  pieces'[i][2] <= pieces'[j][1]
      BY DEF PiecesInOrder
    <3>1. i \in 1..Len(pieces)
      BY <1>3, <1>8
    <3>2. CASE j \in 1..Len(pieces)
      BY <1>8, <3>1, <3>2 DEF Order, PiecesInOrder
    <3>3. CASE j = Len(pieces) + 1
      BY <1>5, <1>8, <2>1, <3>1, <3>3
    <3> QED BY <1>3, <1>8, <3>2, <3>3
  <2>3. covered # None => covered \in Interval /\ cutting[2] <= covered[1]
    BY <1>2 DEF TypeOK, Order
  <2>4. \A s \in rest : s \in Interval /\ cutting[2] <= s[1] /\ (covered # None => covered[1] <= s[1])
    BY <1>2, <1>3 DEF Order
  <2>5. e <= cutting[2] /\ cutting[1] < e
    BY <1>4
  <2>6. \A i \in 1..Len(pieces') : pieces'[i][2] \in Nat /\ pieces'[i][2] <= e
    <3> TAKE i \in 1..Len(pieces')
    <3>1. CASE i = Len(pieces) + 1
      BY <1>5, <1>8, <3>1
    <3>2. CASE i \in 1..Len(pieces)
      BY <1>5, <1>8, <2>1, <2>5, <3>2
    <3> QED BY <1>3, <1>8, <3>1, <3>2
  <2>7. \A i \in 1..Len(pieces') :
          /\ cutting' # None => pieces'[i][2] <= cutting'[1]
          /\ covered' # None => pieces'[i][2] <= covered'[1]
          /\ \A s \in rest' : pieces'[i][2] <= s[1]
    <3> TAKE i \in 1..Len(pieces')
    <3>1. pieces'[i][2] \in Nat /\ pieces'[i][2] <= e
      BY <2>6
    <3>2. cutting' # None => pieces'[i][2] <= cutting'[1]
      BY <1>7, <3>1
    <3>3. covered' # None => pieces'[i][2] <= covered'[1]
      BY <1>2, <1>5, <2>3, <2>5, <3>1 DEF Interval
    <3>4. \A s \in rest' : pieces'[i][2] <= s[1]
      BY <1>2, <1>5, <2>4, <2>5, <3>1 DEF Interval
    <3> QED BY <3>2, <3>3, <3>4
  <2>8. cutting' # None /\ covered' # None => cutting'[2] <= covered'[1]
    BY <1>2, <1>7, <2>3
  <2>9. \A s \in rest' :
          /\ cutting' # None => cutting'[2] <= s[1]
          /\ covered' # None => covered'[1] <= s[1]
    BY <1>2, <1>7, <2>4
  <2> HIDE DEF Inv
  <2> QED BY <2>2, <2>7, <2>8, <2>9 DEF Order
<1>13. Coverage'
  <2>1. \A x : x \in Part(cutting) <=> x \in Bytes(p) \/ x \in Part(cutting')
    <3>1. \A x : x \in Part(cutting) <=> x \in Nat /\ cutting[1] <= x /\ x < cutting[2]
      BY <1>2, BytesIff, PartOf
    <3>2. \A x : x \in Bytes(p) <=> x \in Nat /\ cutting[1] <= x /\ x < e
      BY <1>5, BytesIff
    <3>3. CASE cutting' = None
      <4>1. e = cutting[2]
        BY <1>4, <3>3 DEF None
      <4> QED BY <3>1, <3>2, <3>3, <4>1, PartOf
    <3>4. CASE cutting' # None
      <4>1. \A x : x \in Part(cutting') <=> x \in Nat /\ e <= x /\ x < cutting[2]
        BY <1>7, <3>4, BytesIff, PartOf
      <4> QED BY <1>4, <1>5, <3>1, <3>2, <3>4, <4>1
    <3> QED BY <3>3, <3>4
  <2>2. \A x : x \in Covers(AllSpans) <=>
           \/ x \in Covers(ToSet(pieces)) \/ x \in Covers(rest)
           \/ x \in Part(cutting) \/ x \in Part(covered)
    BY <1>1, <1>2, CoveredIff
  <2> HIDE DEF Inv
  <2>3. \A x : x \in Covers(AllSpans) <=>
           \/ x \in Covers(ToSet(pieces')) \/ x \in Covers(rest')
           \/ x \in Part(cutting') \/ x \in Part(covered')
    BY <1>2, <1>8, <2>1, <2>2
  <2> QED BY <1>1, <2>3, CoverageAfter
<1> QED BY <1>1, <1>10, <1>11, <1>12, <1>13

LEMMA InvStep == Inv /\ [Next]_vars => Inv'
<1> SUFFICES ASSUME Inv, [Next]_vars PROVE Inv'
  OBVIOUS
<1>1. CASE Function \/ Instruction
  BY <1>1, ReadingSteps
<1>2. CASE Sort
  BY <1>2, SortStep
<1>3. CASE TakeIn \/ NextStretch \/ LastStretch
  BY <1>3, StretchSteps
<1>4. CASE CutOff \/ LastPiece
  BY <1>4, CutSteps
<1>5. CASE UNCHANGED vars
  <2>1. TypeOK'
    BY <1>5 DEF Inv, TypeOK, vars
  <2>2. SpansInv'
    BY <1>5 DEF Inv, SpansInv, FunctionRead, vars
  <2>3. Order'
    BY <1>5 DEF Inv, Order, PiecesInOrder, vars
  <2>4. Coverage' /\ Whole'
    BY <1>5 DEF Inv, Coverage, Whole, AllSpans, Cuts, vars
  <2> QED BY <2>1, <2>2, <2>3, <2>4 DEF Inv
<1> QED BY <1>1, <1>2, <1>3, <1>4, <1>5 DEF Next

THEOREM Invariant == Spec => []Inv
BY InvInit, InvStep, PTL DEF Spec

\* The loops keep their variables' types for every unit.
THEOREM TypeCorrect == Spec => []TypeOK
<1>1. Inv => TypeOK
  BY DEF Inv
<1> QED BY <1>1, Invariant, PTL

\* For every unit, whatever its functions share, pieces makes them in order
\* and apart.
THEOREM OrderCorrect == Spec => []PiecesInOrder
<1>1. Inv => PiecesInOrder
  BY DEF Inv, Order
<1> QED BY <1>1, Invariant, PTL
-----------------------------------------------------------------------------
\* Once the loops are done the spans and the pieces cover what the functions
\* do.
LEMMA DoneCovers ==
  ASSUME Inv, Done
  PROVE  /\ Len(spans) = Len(unit)
         /\ \A f \in 1..Len(unit) : Covers(ToSet(spans[f])) = Covers(ToSet(unit[f]))
         /\ Covers(AllSpans) = Covers(ToSet(pieces))
<1>1. Len(spans) = Len(unit) /\ FunctionRead
  BY DEF Inv, SpansInv, Done
<1>2. \A f \in 1..Len(unit) : Covers(ToSet(spans[f])) = Covers(ToSet(unit[f]))
  <2> SUFFICES ASSUME NEW f \in 1..Len(unit)
               PROVE  Covers(ToSet(spans[f])) = Covers(ToSet(unit[f]))
    OBVIOUS
  <2>1. Len(unit) \in Nat /\ spans \in Seq(Seq(Interval))
    BY DEF Inv, TypeOK
  <2>2. CASE f \in 1..Len(spans) - 1
    BY <2>2 DEF Inv, SpansInv
  <2>3. CASE f = Len(spans)
    <3>1. spans # <<>>
      BY <1>1, <2>1, <2>3
    <3>2. taken = Len(unit[f])
      BY <1>1, <2>3, <3>1 DEF FunctionRead
    <3>3. {unit[f][i] : i \in 1..taken} = ToSet(unit[f])
      BY <3>2 DEF ToSet
    <3> QED BY <2>3, <3>1, <3>3 DEF Inv, SpansInv
  <2> QED BY <1>1, <2>1, <2>2, <2>3
<1>3. \A x : x \in Covers(AllSpans) <=> x \in Covers(ToSet(pieces))
  <2>1. \A x : x \notin Covers(rest)
    BY DEF Done, Covers
  <2>2. at = "pieces" /\ cutting = None /\ covered = None
    BY DEF Done
  <2> QED BY <2>1, <2>2, CoveredIff, PartOf
<1>4. Covers(AllSpans) = Covers(ToSet(pieces))
  BY <1>3
<1> QED BY <1>1, <1>2, <1>4

\* For every unit the pieces are the code its functions were made from.
THEOREM CodeCorrect == Spec => []PiecesAreCode
<1>1. Inv => PiecesAreCode
  <2> SUFFICES ASSUME Inv, Done
               PROVE  Covers(ToSet(pieces)) = UNION {Covers(ToSet(unit[f])) : f \in 1..Len(unit)}
    BY DEF PiecesAreCode
  <2>1. \A x : x \in Covers(AllSpans) <=> \E f \in 1..Len(spans) : x \in Covers(ToSet(spans[f]))
    BY DEF AllSpans, Covers
  <2>2. \A x : x \in Covers(ToSet(pieces)) <=> \E f \in 1..Len(unit) : x \in Covers(ToSet(unit[f]))
    <3> HIDE DEF Inv
    <3> QED BY <2>1, DoneCovers
  <2> QED BY <2>2
<1> QED BY <1>1, Invariant, PTL

\* partition_point: of pieces in order those that start before b are the
\* first CountBefore(b).
LEMMA CountIs ==
  ASSUME Inv, NEW b \in Nat, NEW i \in 1..Len(pieces)
  PROVE  i <= CountBefore(b) <=> pieces[i][1] < b
<1> DEFINE n == Len(pieces)
           B == {k \in 1..n : pieces[k][1] < b}
<1>1. n \in Nat /\ \A k \in 1..n : pieces[k] \in Interval
  BY DEF Inv, TypeOK
<1>2. \A k \in 1..n : pieces[k][1] \in Nat /\ pieces[k][2] \in Nat /\ pieces[k][1] < pieces[k][2]
  BY <1>1 DEF Interval
<1>3. \A j, k \in 1..n : j < k => pieces[j][2] <= pieces[k][1]
  BY DEF Inv, Order, PiecesInOrder
<1>4. \A j, k \in 1..n : j < k /\ k \in B => j \in B
  BY <1>2, <1>3
\* The pieces after those of B, and n + 1.
<1> DEFINE A == {k \in 1..n + 1 : \A j \in B : j < k}
<1>5. A \subseteq Nat /\ n + 1 \in A
  BY <1>1
<1>6. PICK m \in A : \A k \in A : m <= k
  <2> HIDE DEF A
  <2> QED BY <1>5, LeastNumber
<1>7. B = 1..m - 1
  <2>1. \A k \in B : k \in 1..m - 1
    BY <1>1, <1>6
  <2>2. \A k \in 1..m - 1 : k \in B
    <3> SUFFICES ASSUME NEW k \in 1..m - 1, k \notin B PROVE FALSE
      OBVIOUS
    <3>1. k \in 1..n + 1 /\ k \in 1..n
      BY <1>1, <1>6
    <3>2. \A j \in B : j < k
      BY <1>4, <3>1
    <3>3. k \in A
      BY <3>1, <3>2
    <3> QED BY <1>1, <1>6, <3>3
  <2> QED BY <2>1, <2>2
<1>8. Cardinality(B) = m - 1
  <2>1. 1 \in Int /\ m - 1 \in Int /\ m \in Nat /\ m >= 1
    BY <1>1, <1>6
  <2>2. Cardinality(1..m - 1) = IF 1 > m - 1 THEN 0 ELSE (m - 1) - 1 + 1
    <3> DEFINE e == m - 1
    <3>1. Cardinality(1..e) = IF 1 > e THEN 0 ELSE e - 1 + 1
      <4>1. 1 \in Int /\ e \in Int
        BY <2>1
      <4> HIDE DEF e
      <4> QED BY <4>1, FS_Interval
    <3> QED BY <3>1
  <2>3. (IF 1 > m - 1 THEN 0 ELSE (m - 1) - 1 + 1) = m - 1
    BY <2>1
  <2>4. Cardinality(B) = Cardinality(1..m - 1)
    <3> HIDE DEF B
    <3> QED BY <1>7
  <2> HIDE DEF B
  <2> QED BY <2>2, <2>3, <2>4
<1>9. CountBefore(b) = m - 1
  BY <1>8 DEF CountBefore
<1>10. i \in B <=> i <= m - 1
  BY <1>1, <1>6, <1>7
<1> QED BY <1>9, <1>10

\* The run of a span is the pieces inside it, and they cover it.
LEMMA RunCovers ==
  ASSUME Inv, Done, NEW s \in AllSpans
  PROVE  \A x : x \in Bytes(s) <=>
           \E i \in 1..Len(pieces) :
             /\ Run(s).first < i /\ i <= Run(s).end
             /\ x \in Bytes(pieces[i])
<1>1. s \in Interval /\ s[1] \in Nat /\ s[2] \in Nat /\ s[1] \in Cuts /\ s[2] \in Cuts
  BY SpansAreIntervals DEF Inv, Interval, Cuts
<1>2. \A i \in 1..Len(pieces) : pieces[i] \in Interval
  BY DEF Inv, TypeOK
<1>3. \A i \in 1..Len(pieces) :
        pieces[i][1] \in Nat /\ pieces[i][2] \in Nat /\ pieces[i][1] < pieces[i][2]
  BY <1>2 DEF Interval
<1>4. \A i \in 1..Len(pieces) : \A c \in Cuts : c <= pieces[i][1] \/ pieces[i][2] <= c
  BY DEF Inv, Whole
<1>5. \A i \in 1..Len(pieces) :
        Run(s).first < i /\ i <= Run(s).end <=> s[1] <= pieces[i][1] /\ pieces[i][1] < s[2]
  <2> TAKE i \in 1..Len(pieces)
  <2>1. i <= CountBefore(s[1]) <=> pieces[i][1] < s[1]
    BY <1>1, CountIs
  <2>2. i <= CountBefore(s[2]) <=> pieces[i][1] < s[2]
    BY <1>1, CountIs
  <2>3. CountBefore(s[1]) \in Nat
    <3>1. IsFiniteSet(1..Len(pieces))
      BY FS_Interval DEF Inv, TypeOK
    <3>2. IsFiniteSet({k \in 1..Len(pieces) : pieces[k][1] < s[1]})
      BY <3>1, FS_Subset
    <3> QED BY <3>2, FS_CardinalityType DEF CountBefore
  <2>4. Run(s).first = CountBefore(s[1]) /\ Run(s).end = CountBefore(s[2])
    BY DEF Run
  <2>5. i \in Nat
    OBVIOUS
  <2> QED BY <1>1, <1>3, <2>1, <2>2, <2>3, <2>4, <2>5
<1>6. \A i \in 1..Len(pieces) :
        s[1] <= pieces[i][1] /\ pieces[i][1] < s[2] => pieces[i][2] <= s[2]
  BY <1>1, <1>3, <1>4
<1>7. ASSUME NEW x \in Bytes(s)
      PROVE  \E i \in 1..Len(pieces) : s[1] <= pieces[i][1] /\ pieces[i][1] < s[2] /\ x \in Bytes(pieces[i])
  <2>1. x \in Nat /\ s[1] <= x /\ x < s[2]
    BY <1>1, BytesIff
  <2>2. x \in Covers(AllSpans)
    BY DEF Covers
  <2>3. PICK i \in 1..Len(pieces) : x \in Bytes(pieces[i])
    BY <2>2, DoneCovers DEF Covers, ToSet
  <2>4. pieces[i][1] <= x /\ x < pieces[i][2]
    BY <1>2, <2>3, BytesIff
  <2>5. s[1] <= pieces[i][1]
    BY <1>1, <1>3, <1>4, <2>1, <2>4
  <2> QED BY <1>1, <1>3, <2>1, <2>3, <2>4, <2>5
<1>8. ASSUME NEW x, NEW i \in 1..Len(pieces), s[1] <= pieces[i][1], pieces[i][1] < s[2], x \in Bytes(pieces[i])
      PROVE  x \in Bytes(s)
  <2>1. x \in Nat /\ pieces[i][1] <= x /\ x < pieces[i][2]
    BY <1>2, <1>8, BytesIff
  <2>2. s[1] <= x /\ x < s[2]
    BY <1>1, <1>3, <1>6, <1>8, <2>1
  <2> QED BY <1>1, <2>1, <2>2, BytesIff
<1> QED BY <1>5, <1>7, <1>8

\* For every unit the runs of a function are the code it was made from,
\* however functions overlap.
THEOREM RunsCorrect == Spec => []RunsAreFunctions
<1>1. Inv => RunsAreFunctions
  <2> SUFFICES ASSUME Inv, Done, NEW f \in 1..Len(unit)
               PROVE  Covers(Held(f)) = Covers(ToSet(unit[f]))
    BY DEF RunsAreFunctions
  <2>1. Covers(ToSet(spans[f])) = Covers(ToSet(unit[f])) /\ f \in 1..Len(spans)
    BY DoneCovers
  <2>2. \A j \in 1..Len(spans[f]) : spans[f][j] \in AllSpans
    BY <2>1 DEF AllSpans, ToSet
  <2>3. \A x : x \in Covers(Held(f)) <=>
          \E i \in 1..Len(pieces) :
            /\ \E j \in 1..Len(spans[f]) : Run(spans[f][j]).first < i /\ i <= Run(spans[f][j]).end
            /\ x \in Bytes(pieces[i])
    BY DEF Covers, Held
  <2>4. \A x : x \in Covers(ToSet(spans[f])) <=> \E j \in 1..Len(spans[f]) : x \in Bytes(spans[f][j])
    BY DEF Covers, ToSet
  <2>5. \A j \in 1..Len(spans[f]) : \A x : x \in Bytes(spans[f][j]) <=>
          \E i \in 1..Len(pieces) :
            /\ Run(spans[f][j]).first < i /\ i <= Run(spans[f][j]).end
            /\ x \in Bytes(pieces[i])
    BY <2>2, RunCovers
  <2>6. \A x : x \in Covers(Held(f)) <=> x \in Covers(ToSet(spans[f]))
    <3> HIDE DEF Inv
    <3> QED BY <2>3, <2>4, <2>5
  <2> QED BY <2>1, <2>6
<1> QED BY <1>1, Invariant, PTL
=============================================================================
