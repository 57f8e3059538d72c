---------------------------- MODULE LocalsProofs ----------------------------
(***************************************************************************)
(* Theorems about keep, for every function whose text is well-formed,      *)
(* whatever its instructions and its loops, and every number of ways out:  *)
(* the code it makes reads only what the guest's registers hold, and       *)
(* whatever looks at the context finds it whole.                           *)
(*                                                                         *)
(* The two passes end with a flow (Flow): of each token, what the context  *)
(* is behind on, what may be read from it on and what is read next.  Kept  *)
(* and Passed say how it comes about, line by line and round by round, and *)
(* FlowExists that it is there.  Placed and RightThroughout are about what *)
(* runs: by any flow the function has, what it is not behind on is right   *)
(* in the context, and what may be read is right in the locals.            *)
(***************************************************************************)
EXTENDS Locals, FiniteSetTheorems, SequenceTheorems, WellFoundedInduction, TLAPS

-----------------------------------------------------------------------------
(* Numbers and recursion *)

\* Natural numbers, if there are any, have a least.
LEMMA LeastNumber ==
  ASSUME NEW T \in SUBSET Nat, T # {}
  PROVE  \E x \in T : \A y \in T : x <= y
<1> DEFINE R == OpToRel(<, Nat)
<1>1. IsWellFoundedOn(R, Nat)
  BY NatLessThanWellFounded
<1>2. PICK x \in T : \A y \in T : ~(<<y, x>> \in R)
  <2> HIDE DEF R
  <2> QED BY <1>1, WFMin
<1>3. R = {ss \in Nat \X Nat : ss[1] < ss[2]}
  BY Zenon DEF OpToRel
<1>4. \A y \in T : ~(y < x)
  <2> TAKE y \in T
  <2>1. <<y, x>> \in Nat \X Nat
    OBVIOUS
  <2>2. <<y, x>> \in R <=> y < x
    <3> HIDE DEF R
    <3> QED BY <1>3, <2>1
  <2> QED BY <1>2, <2>2
<1> QED BY <1>4

\* Min of some natural numbers is the least.
LEMMA MinIs ==
  ASSUME NEW T \in SUBSET Nat, T # {}
  PROVE  Min(T) \in T /\ \A y \in T : Min(T) <= y
<1>1. PICK x \in T : \A y \in T : x <= y
  BY LeastNumber
<1> QED BY <1>1 DEF Min

\* Max of some natural numbers up to a bound is the greatest.
LEMMA MaxIs ==
  ASSUME NEW n \in Nat, NEW T \in SUBSET (0..n), T # {}
  PROVE  Max(T) \in T /\ \A y \in T : y <= Max(T)
<1> DEFINE U == {n - y : y \in T}
<1>1. U \in SUBSET Nat /\ U # {}
  <2>1. \A y \in T : n - y \in Nat
    OBVIOUS
  <2>2. PICK y \in T : TRUE
    OBVIOUS
  <2>3. n - y \in U
    OBVIOUS
  <2> QED BY <2>1, <2>3
<1>2. PICK x \in U : \A y \in U : x <= y
  <2> HIDE DEF U
  <2> QED BY <1>1, LeastNumber
<1>3. PICK t \in T : x = n - t
  OBVIOUS
<1>4. \A y \in T : y <= t
  <2> TAKE y \in T
  <2>1. n - y \in U
    OBVIOUS
  <2>2. x <= n - y
    BY <1>2, <2>1
  <2> QED BY <1>3, <2>2
<1> QED BY <1>3, <1>4 DEF Max

\* What is so at first, and stays so from each number up to n to the next, is
\* so of all.
LEMMA Upwards ==
  ASSUME NEW m \in Nat, NEW n \in Nat, NEW T, m \in T,
         \A k \in m..n - 1 : k \in T => k + 1 \in T
  PROVE  m..n \subseteq T
<1> DEFINE Bad == {k \in m..n : k \notin T}
<1> SUFFICES ASSUME Bad # {} PROVE FALSE
  OBVIOUS
<1>1. Bad \in SUBSET Nat
  OBVIOUS
<1>2. PICK k \in Bad : \A y \in Bad : k <= y
  <2> HIDE DEF Bad
  <2> QED BY <1>1, LeastNumber
<1>3. k \in m..n /\ k \notin T /\ k # m
  OBVIOUS
<1>4. k - 1 \in m..n - 1 /\ k - 1 \notin Bad
  BY <1>2, <1>3
<1>5. k - 1 \in T
  BY <1>4
<1>6. (k - 1) + 1 \in T
  BY <1>4, <1>5
<1> QED BY <1>3, <1>6

\* There is what n steps come to, one after another.
LEMMA StepsExist ==
  ASSUME NEW Q, NEW start \in Q, NEW n \in Nat, NEW step \in [1..n -> [Q -> Q]]
  PROVE  \E f \in [1..n + 1 -> Q] :
           f[1] = start /\ \A p \in 1..n : f[p + 1] = step[p][f[p]]
<1> DEFINE Is(f, m) == f[1] = start /\ \A p \in 1..m : f[p + 1] = step[p][f[p]]
           T == {m \in 0..n : \E f \in [1..m + 1 -> Q] : Is(f, m)}
<1>1. 0 \in T
  <2>1. [p \in 1..0 + 1 |-> start] \in [1..0 + 1 -> Q] /\ Is([p \in 1..0 + 1 |-> start], 0)
    OBVIOUS
  <2>2. 0 \in 0..n
    OBVIOUS
  <2> HIDE DEF Is
  <2> QED BY <2>1, <2>2
<1>2. ASSUME NEW m \in 0..n - 1, m \in T
      PROVE  m + 1 \in T
  <2>1. PICK f \in [1..m + 1 -> Q] : Is(f, m)
    BY <1>2
  <2> DEFINE g == [p \in 1..(m + 1) + 1 |-> IF p = m + 2 THEN step[m + 1][f[m + 1]] ELSE f[p]]
  <2>2. step[m + 1][f[m + 1]] \in Q
    OBVIOUS
  <2>3. g \in [1..(m + 1) + 1 -> Q]
    BY <2>2
  <2>4. g[m + 2] = step[m + 1][f[m + 1]] /\ \A p \in 1..m + 1 : g[p] = f[p]
    OBVIOUS
  <2>5. Is(g, m + 1)
    <3>1. g[1] = start
      BY <2>1, <2>4
    <3>2. ASSUME NEW p \in 1..m + 1
          PROVE  g[p + 1] = step[p][g[p]]
      <4>1. CASE p = m + 1
        <5>1. p + 1 = m + 2 /\ g[p] = f[m + 1]
          BY <2>4, <4>1
        <5> HIDE DEF g
        <5> QED BY <2>4, <4>1, <5>1
      <4>2. CASE p # m + 1
        <5>1. p \in 1..m /\ p + 1 \in 1..m + 1
          BY <4>2
        <5> HIDE DEF g
        <5> QED BY <2>1, <2>4, <5>1
      <4> QED BY <4>1, <4>2
    <3> QED BY <3>1, <3>2
  <2> HIDE DEF g
  <2>6. m + 1 \in 0..n
    OBVIOUS
  <2> QED BY <2>3, <2>5, <2>6
<1>3. 0..n \subseteq T
  <2> HIDE DEF T
  <2> QED BY <1>1, <1>2, Upwards
<1>4. n \in T
  <2> HIDE DEF T
  <2> QED BY <1>3
<1> QED BY <1>4

-----------------------------------------------------------------------------
(* A text's tokens: where they are in their line's events, and how guarded *)

Kinds == {"Read", "Replace", "Change", "Boundary", "Sync", "Leave", "Dispatch", "Goto", "Budget"}
Blks == [open : Seq(BOOLEAN), statement : BOOLEAN]
Whole == [open |-> <<>>, statement |-> FALSE]

\* The braces before each token, and how many events its line has before it.
Shape(c, B, E) ==
  /\ B \in [1..Len(c) + 1 -> Blks] /\ B[1] = Whole
  /\ \A p \in 1..Len(c) : B[p + 1] = After(B[p], c[p].t)
  /\ E \in [1..Len(c) -> Nat] /\ E[1] = 0
  /\ \A p \in 1..Len(c) - 1 :
       E[p + 1] = IF c[p + 1].line = c[p].line THEN E[p] + Len(EventsOf(c[p])) ELSE 0

LEMMA TextIs ==
  ASSUME NEW c, LinesFollow(c)
  PROVE  /\ c \in Seq([t : STRING, of : Int, line : Nat \ {0}])
         /\ Len(c) \in Nat \ {0} /\ DOMAIN c = 1..Len(c)
         /\ \A p \in 1..Len(c) : c[p].line \in Nat \ {0} /\ c[p].of \in Int
         /\ \A p, q \in 1..Len(c) : p <= q => c[p].line <= c[q].line
<1> DEFINE Ts == [t : STRING, of : Int, line : Nat \ {0}]
<1>1. c \in Seq(Ts) /\ c # <<>>
  BY DEF LinesFollow
<1>2. Len(c) \in Nat \ {0} /\ DOMAIN c = 1..Len(c) /\ \A p \in 1..Len(c) : c[p] \in Ts
  <2> HIDE DEF Ts
  <2> QED BY <1>1
<1>3. \A p \in 1..Len(c) : c[p].line \in Nat \ {0} /\ c[p].of \in Int
  BY <1>2
<1> QED BY <1>1, <1>2, <1>3 DEF LinesFollow

LEMMA AfterType ==
  ASSUME NEW b \in Blks, NEW t
  PROVE  After(b, t) \in Blks
<1>1. b.open \in Seq(BOOLEAN) /\ b.statement \in BOOLEAN /\ b = [open |-> b.open, statement |-> b.statement]
  BY DEF Blks
<1>2. Append(b.open, b.statement) \in Seq(BOOLEAN)
  BY <1>1
<1>3. Front(b.open) \in Seq(BOOLEAN)
  <2>1. CASE b.open = <<>>
    BY <2>1 DEF Front
  <2>2. CASE b.open # <<>>
    <3>1. 1 \in 1..Len(b.open) + 1 /\ Len(b.open) - 1 \in 0..Len(b.open)
      BY <1>1, <2>2
    <3> QED BY <1>1, <2>2, <3>1 DEF Front
  <2> QED BY <2>1, <2>2
<1>4. [b EXCEPT !.statement = TRUE] \in Blks /\ [b EXCEPT !.statement = FALSE] \in Blks
  BY <1>1 DEF Blks
<1>5. [open |-> Append(b.open, b.statement), statement |-> FALSE] \in Blks
      /\ [open |-> Front(b.open), statement |-> FALSE] \in Blks
  BY <1>2, <1>3 DEF Blks
<1> QED BY <1>4, <1>5 DEF After

LEMMA EventsOfType ==
  ASSUME NEW k
  PROVE  EventsOf(k) \in Seq(Kinds) /\ Len(EventsOf(k)) \in 0..2
BY DEF EventsOf, Kinds

LEMMA ShapeExists ==
  ASSUME NEW c, LinesFollow(c)
  PROVE  \E B, E : Shape(c, B, E)
<1> DEFINE n == Len(c)
           braces == [p \in 1..n |-> [b \in Blks |-> After(b, c[p].t)]]
           counts == [p \in 1..n - 1 |-> [e \in Nat |->
                        IF c[p + 1].line = c[p].line THEN e + Len(EventsOf(c[p])) ELSE 0]]
<1>1. n \in Nat \ {0}
  BY TextIs
<1>2. braces \in [1..n -> [Blks -> Blks]]
  <2>1. \A p \in 1..n : \A b \in Blks : After(b, c[p].t) \in Blks
    BY AfterType
  <2> QED BY <2>1
<1>3. counts \in [1..n - 1 -> [Nat -> Nat]]
  <2>1. \A p \in 1..n - 1 : \A e \in Nat :
          (IF c[p + 1].line = c[p].line THEN e + Len(EventsOf(c[p])) ELSE 0) \in Nat
    BY EventsOfType
  <2> QED BY <2>1
<1>4. Whole \in Blks
  BY DEF Whole, Blks
<1>5. PICK B \in [1..n + 1 -> Blks] :
        B[1] = Whole /\ \A p \in 1..n : B[p + 1] = braces[p][B[p]]
  <2>1. n \in Nat
    BY <1>1
  <2> HIDE DEF n, braces
  <2> QED BY <1>2, <1>4, <2>1, StepsExist
<1>6. \A p \in 1..n : B[p + 1] = After(B[p], c[p].t)
  <2> TAKE p \in 1..n
  <2>1. p \in 1..n + 1
    BY <1>1
  <2>2. B[p] \in Blks
    BY <1>5, <2>1
  <2> QED BY <1>5, <2>2
<1>7. PICK E \in [1..(n - 1) + 1 -> Nat] :
        E[1] = 0 /\ \A p \in 1..n - 1 : E[p + 1] = counts[p][E[p]]
  <2> HIDE DEF n, counts
  <2>1. n - 1 \in Nat /\ 0 \in Nat
    BY <1>1
  <2> DEFINE m == n - 1
             start == 0
             Q == Nat
  <2>2. m \in Nat /\ counts \in [1..m -> [Q -> Q]] /\ start \in Q
    BY <1>3, <2>1
  <2>3. \E E \in [1..m + 1 -> Q] : E[1] = start /\ \A p \in 1..m : E[p + 1] = counts[p][E[p]]
    <3> HIDE DEF m, start, Q, counts
    <3> QED BY <2>2, StepsExist
  <2> QED BY <2>3
<1>8. \A p \in 1..n - 1 :
        E[p + 1] = IF c[p + 1].line = c[p].line THEN E[p] + Len(EventsOf(c[p])) ELSE 0
  <2> TAKE p \in 1..n - 1
  <2>1. E[p] \in Nat
    BY <1>1, <1>7
  <2> QED BY <1>7, <2>1
<1>9. 1..(n - 1) + 1 = 1..Len(c)
  BY <1>1
<1> QED BY <1>5, <1>6, <1>7, <1>8, <1>9 DEF Shape

\* A line's later tokens have later events.
LEMMA ShapeOrder ==
  ASSUME NEW c, LinesFollow(c), NEW B, NEW E, Shape(c, B, E),
         NEW p \in 1..Len(c), NEW q \in 1..Len(c), p < q, c[p].line = c[q].line
  PROVE  E[p] + Len(EventsOf(c[p])) <= E[q]
<1> DEFINE T == {r \in 1..Len(c) : c[r].line = c[p].line => E[p] + Len(EventsOf(c[p])) <= E[r]}
<1>1. p + 1 \in T
  <2>1. p \in 1..Len(c) - 1 /\ p + 1 \in 1..Len(c)
    BY TextIs
  <2> QED BY <2>1, EventsOfType DEF Shape
<1>2. ASSUME NEW k \in p + 1..Len(c) - 1, k \in T
      PROVE  k + 1 \in T
  <2>1. k \in 1..Len(c) - 1 /\ k + 1 \in 1..Len(c) /\ k \in 1..Len(c)
    BY TextIs
  <2>2. SUFFICES ASSUME c[k + 1].line = c[p].line
                 PROVE  E[p] + Len(EventsOf(c[p])) <= E[k + 1]
    BY <2>1
  <2>3. c[k].line = c[p].line
    <3>1. p <= k /\ k <= k + 1
      OBVIOUS
    <3>2. c[p].line <= c[k].line /\ c[k].line <= c[k + 1].line
      BY <2>1, <3>1, TextIs
    <3>3. c[p].line \in Nat /\ c[k].line \in Nat
      BY <2>1, TextIs
    <3> QED BY <2>2, <3>2, <3>3
  <2>4. E[k + 1] = E[k] + Len(EventsOf(c[k]))
    BY <2>1, <2>2, <2>3 DEF Shape
  <2>5. E[p] + Len(EventsOf(c[p])) <= E[k]
    BY <1>2, <2>3
  <2>6. E[k] \in Nat /\ E[p] \in Nat /\ Len(EventsOf(c[p])) \in Nat /\ Len(EventsOf(c[k])) \in Nat
    <3>1. Len(EventsOf(c[p])) \in Nat /\ Len(EventsOf(c[k])) \in Nat
      BY EventsOfType
    <3>2. E \in [1..Len(c) -> Nat]
      BY DEF Shape
    <3> QED BY <2>1, <3>1, <3>2
  <2> QED BY <2>4, <2>5, <2>6
<1>3. p + 1..Len(c) \subseteq T
  <2>1. p + 1 \in Nat /\ Len(c) \in Nat
    BY TextIs
  <2> HIDE DEF T
  <2> QED BY <1>1, <1>2, <2>1, Upwards
<1>4. q \in p + 1..Len(c)
  BY TextIs
<1> QED BY <1>3, <1>4

\* The first token of a line has none of its events before it.
LEMMA FirstOfLine ==
  ASSUME NEW c, LinesFollow(c), NEW B, NEW E, Shape(c, B, E), NEW p \in 1..Len(c),
         p = 1 \/ c[p - 1].line < c[p].line
  PROVE  E[p] = 0
<1>1. CASE p = 1
  BY <1>1 DEF Shape
<1>2. CASE p # 1
  <2>1. p - 1 \in 1..Len(c) - 1 /\ p - 1 \in 1..Len(c) /\ (p - 1) + 1 = p
    BY <1>2, TextIs
  <2>2. c[p].line # c[p - 1].line
    BY <1>2, <2>1, TextIs
  <2> QED BY <2>1, <2>2 DEF Shape
<1> QED BY <1>1, <1>2

-----------------------------------------------------------------------------
(* What an if or an else is for *)

\* How many tokens of a kind there are from f to q.
Number(c, f, q, t) == Cardinality({r \in f..q : c[r].t = t})
One(c, q, t) == IF c[q].t = t THEN 1 ELSE 0

LEMMA NumberStep ==
  ASSUME NEW c, NEW f \in Nat \ {0}, NEW q \in Nat, f <= q + 1, NEW t
  PROVE  /\ Number(c, f, q, t) \in Nat
         /\ Number(c, f, q + 1, t) = Number(c, f, q, t) + One(c, q + 1, t)
<1> DEFINE Of(n) == {r \in f..n : c[r].t = t}
<1>1. IsFiniteSet(Of(q)) /\ Cardinality(Of(q)) \in Nat
  <2>1. IsFiniteSet(f..q)
    BY FS_Interval
  <2>2. IsFiniteSet(Of(q))
    BY <2>1, FS_Subset
  <2> QED BY <2>2, FS_CardinalityType
<1>2. CASE c[q + 1].t = t
  <2>1. Of(q + 1) = Of(q) \cup {q + 1} /\ q + 1 \notin Of(q)
    BY <1>2
  <2>2. Cardinality(Of(q) \cup {q + 1}) = Cardinality(Of(q)) + 1
    <3> HIDE DEF Of
    <3> QED BY <1>1, <2>1, FS_AddElement
  <2> QED BY <1>1, <1>2, <2>1, <2>2 DEF Number, One
<1>3. CASE c[q + 1].t # t
  <2>1. Of(q + 1) = Of(q)
    BY <1>3
  <2>2. Number(c, f, q + 1, t) = Cardinality(Of(q + 1)) /\ Number(c, f, q, t) = Cardinality(Of(q))
    BY DEF Number
  <2> HIDE DEF Of
  <2> QED BY <1>1, <1>3, <2>1, <2>2 DEF One
<1> QED BY <1>2, <1>3

LEMMA NumberNone ==
  ASSUME NEW c, NEW f \in Nat \ {0}, NEW t
  PROVE  Number(c, f, f - 1, t) = 0
<1>1. {r \in f..f - 1 : c[r].t = t} = {}
  OBVIOUS
<1> QED BY <1>1, FS_EmptySet DEF Number

LEMMA ClosesAre ==
  ASSUME NEW c, NEW f
  PROVE  Closes(c, f) = {q \in f..Len(c) : Number(c, f, q, "Open") = Number(c, f, q, "Close")}
BY DEF Closes, Number

\* Up to the last token f that is no brace within it, a statement is not over.
LEMMA EndIs ==
  ASSUME NEW c, LinesFollow(c), StatementsAreWhole(c),
         NEW p \in 1..Len(c), c[p].t \in {"Then", "Else"}
  PROVE  \E f \in p + 1..Len(c) :
           /\ StatementEnd(c, p + 1) \in f..Len(c)
           /\ c[f].t \in {"Open", "Semi", "GotoDispatch"}
           /\ \A r \in p + 1..f - 1 : c[r].t \notin {"Open", "Semi", "GotoDispatch", "Close"}
           /\ c[f].t # "Open" => StatementEnd(c, p + 1) = f
           /\ c[f].t = "Open" =>
                /\ StatementEnd(c, p + 1) \in Closes(c, f)
                /\ \A q \in f..StatementEnd(c, p + 1) - 1 : q \notin Closes(c, f)
<1> DEFINE f == Min(Stops(c, p + 1))
           e == StatementEnd(c, p + 1)
<1>1. Len(c) \in Nat
  BY TextIs
<1>2. Stops(c, p + 1) # {} /\ (c[f].t = "Open" => Closes(c, f) # {})
  BY DEF StatementsAreWhole
<1>3. Stops(c, p + 1) \in SUBSET Nat
  BY DEF Stops
<1>4. f \in Stops(c, p + 1) /\ \A y \in Stops(c, p + 1) : f <= y
  BY <1>2, <1>3, MinIs
<1>5. f \in p + 1..Len(c) /\ c[f].t \in {"Open", "Semi", "GotoDispatch"}
  BY <1>4 DEF Stops
<1>6. ASSUME NEW r \in p + 1..f - 1
      PROVE  c[r].t \notin {"Open", "Semi", "GotoDispatch"}
  <2> HIDE DEF f
  <2>1. r \in p + 1..Len(c) /\ ~(f <= r)
    BY <1>1, <1>5
  <2>2. r \notin Stops(c, p + 1)
    BY <1>4, <2>1
  <2> QED BY <2>1, <2>2 DEF Stops
<1>7. ASSUME NEW r \in p + 1..f - 1
      PROVE  c[r].t # "Close"
  <2> DEFINE Open == {n \in p..f - 1 : c[n].t # "Close"}
  <2>1. p \in Open
    BY <1>5
  <2>2. ASSUME NEW k \in p..(f - 1) - 1, k \in Open
        PROVE  k + 1 \in Open
    <3> HIDE DEF f
    <3>1. k + 1 \in p + 1..f - 1 /\ k + 1 \in 1..Len(c) /\ k \in 1..Len(c)
      BY <1>1, <1>5
    <3>2. c[k].t \notin {"Open", "Close", "Semi", "GotoDispatch"}
      <4>1. CASE k = p
        BY <4>1
      <4>2. CASE k # p
        BY <1>6, <2>2, <3>1, <4>2
      <4> QED BY <4>1, <4>2
    <3>3. c[k + 1].t # "Close"
      <4>1. c[k + 1].t = "Close" => c[(k + 1) - 1].t \in {"Open", "Close", "Semi", "GotoDispatch"}
        BY <3>1 DEF StatementsAreWhole
      <4>2. (k + 1) - 1 = k
        OBVIOUS
      <4> QED BY <3>2, <4>1, <4>2
    <3> QED BY <3>1, <3>3
  <2>3. p \in Nat /\ f - 1 \in Nat
    BY <1>5
  <2>4. p..f - 1 \subseteq Open
    <3> HIDE DEF Open, f
    <3> QED BY <2>1, <2>2, <2>3, Upwards
  <2> QED BY <2>4
<1>8. CASE c[f].t # "Open"
  <2>1. e = f
    BY <1>8 DEF StatementEnd
  <2> HIDE DEF f, e
  <2> QED BY <1>1, <1>5, <1>6, <1>7, <1>8, <2>1 DEF e
<1>9. CASE c[f].t = "Open"
  <2>1. e = Min(Closes(c, f))
    BY <1>9 DEF StatementEnd
  <2>2. Closes(c, f) \in SUBSET Nat
    BY <1>5 DEF Closes
  <2> HIDE DEF f
  <2>3. e \in Closes(c, f) /\ \A y \in Closes(c, f) : e <= y
    <3> HIDE DEF e
    <3> QED BY <1>2, <1>9, <2>1, <2>2, MinIs
  <2>4. e \in f..Len(c)
    BY <2>3 DEF Closes
  <2>5. \A q \in f..e - 1 : q \notin Closes(c, f)
    <3> HIDE DEF e
    <3> QED BY <1>5, <2>3, <2>4
  <2> QED BY <1>5, <1>6, <1>7, <1>9, <2>3, <2>4, <2>5
<1> QED BY <1>8, <1>9

LEMMA Fronts ==
  ASSUME NEW Q, NEW s \in Seq(Q), s # <<>>
  PROVE  Len(Front(s)) = Len(s) - 1 /\ \A n \in 1..Len(s) - 1 : Front(s)[n] = s[n]
<1> DEFINE m == Len(s) - 1
<1>1. m \in Nat /\ \A n \in 1..m : s[n] \in Q
  OBVIOUS
<1>2. /\ SubSeq(s, 1, m) \in Seq(Q)
      /\ Len(SubSeq(s, 1, m)) = IF 1 <= m THEN m - 1 + 1 ELSE 0
      /\ \A n \in 1..m - 1 + 1 : SubSeq(s, 1, m)[n] = s[1 + n - 1]
  <2> HIDE DEF m
  <2> QED BY <1>1, SubSeqProperties
<1>3. Len(SubSeq(s, 1, m)) = m
  <2> HIDE DEF m
  <2> QED BY <1>1, <1>2
<1>4. \A n \in 1..m : SubSeq(s, 1, m)[n] = s[n]
  <2> TAKE n \in 1..m
  <2>1. n \in 1..m - 1 + 1 /\ 1 + n - 1 = n
    BY <1>1
  <2>2. SubSeq(s, 1, m)[n] = s[1 + n - 1]
    BY <1>2, <2>1
  <2> HIDE DEF m
  <2> QED BY <2>1, <2>2
<1> QED BY <1>3, <1>4 DEF Front

\* What an if or an else may leave out is guarded, to its last token.
LEMMA SkipsGuarded ==
  ASSUME NEW c, LinesFollow(c), StatementsAreWhole(c), NEW B, NEW E, Shape(c, B, E),
         NEW p \in 1..Len(c), c[p].t \in {"Then", "Else"}
  PROVE  /\ StatementEnd(c, p + 1) \in p + 1..Len(c)
         /\ \A r \in p + 1..StatementEnd(c, p + 1) : Guarded(B[r])
         /\ c[StatementEnd(c, p + 1)].t \in {"Semi", "GotoDispatch", "Close"}
         /\ c[StatementEnd(c, p + 1)].t = "Semi" =>
              \A r \in p + 1..StatementEnd(c, p + 1) - 1 : c[r].t \notin {"Open", "Semi", "GotoDispatch", "Close"}
<1> DEFINE e == StatementEnd(c, p + 1)
<1>1. PICK f \in p + 1..Len(c) :
           /\ e \in f..Len(c)
           /\ c[f].t \in {"Open", "Semi", "GotoDispatch"}
           /\ \A r \in p + 1..f - 1 : c[r].t \notin {"Open", "Semi", "GotoDispatch", "Close"}
           /\ c[f].t # "Open" => e = f
           /\ c[f].t = "Open" => e \in Closes(c, f) /\ \A q \in f..e - 1 : q \notin Closes(c, f)
  BY EndIs
<1> HIDE DEF e
<1>2. Len(c) \in Nat /\ \A r \in 1..Len(c) : B[r] \in Blks /\ B[r + 1] = After(B[r], c[r].t)
  <2>1. Len(c) \in Nat
    BY TextIs
  <2>2. B \in [1..Len(c) + 1 -> Blks] /\ \A r \in 1..Len(c) : B[r + 1] = After(B[r], c[r].t)
    BY DEF Shape
  <2>3. \A r \in 1..Len(c) : r \in 1..Len(c) + 1
    BY <2>1
  <2> QED BY <2>1, <2>2, <2>3
<1>3. B[p + 1].statement = TRUE
  <2>1. CASE c[p].t = "Else"
    BY <1>2, <2>1 DEF After, Blks
  <2>2. CASE c[p].t = "Then"
    <3>1. PICK g \in 1..p - 1 : c[g].t = "Guard" /\ \A r \in g + 1..p - 1 : c[r].t = "Read"
      BY <2>2 DEF StatementsAreWhole
    <3> DEFINE T == {r \in 1..Len(c) : B[r].statement = TRUE}
    <3>2. g + 1 \in T
      <4>1. B[g] \in Blks /\ B[g + 1] = After(B[g], "Guard") /\ g + 1 \in 1..Len(c)
        BY <1>2, <3>1
      <4> QED BY <4>1 DEF After, Blks
    <3>3. ASSUME NEW k \in g + 1..p - 1, k \in T
          PROVE  k + 1 \in T
      <4>1. c[k].t = "Read" /\ k \in 1..Len(c) /\ k + 1 \in 1..Len(c)
        BY <1>2, <3>1
      <4>2. B[k] \in Blks /\ B[k + 1] = After(B[k], "Read")
        BY <1>2, <4>1
      <4> QED BY <3>3, <4>1, <4>2 DEF After
    <3>4. g + 1..p \subseteq T
      <4> HIDE DEF T
      <4>1. g + 1 \in Nat /\ p \in Nat
        OBVIOUS
      <4> QED BY <3>2, <3>3, <4>1, Upwards
    <3>5. B[p].statement = TRUE
      BY <3>1, <3>4
    <3> QED BY <1>2, <2>2, <3>5 DEF After
  <2> QED BY <2>1, <2>2
<1>4. \A r \in p + 1..f : B[r].statement = TRUE
  <2> DEFINE T == {r \in p + 1..f : B[r].statement = TRUE}
  <2>1. p + 1 \in T
    BY <1>3
  <2>2. ASSUME NEW k \in p + 1..f - 1, k \in T
        PROVE  k + 1 \in T
    <3>1. k \in 1..Len(c) /\ k + 1 \in p + 1..f
      BY <1>2
    <3>2. B[k] \in Blks /\ B[k + 1] = After(B[k], c[k].t)
      BY <1>2, <3>1
    <3>3. c[k].t \notin {"Open", "Semi", "GotoDispatch", "Close"}
      BY <1>1
    <3>4. B[k].statement = TRUE
      BY <2>2
    <3>5. After(B[k], c[k].t).statement = TRUE
      <4>1. B[k] = [open |-> B[k].open, statement |-> B[k].statement]
        BY <3>2 DEF Blks
      <4> QED BY <3>3, <3>4, <4>1 DEF After
    <3> QED BY <3>1, <3>2, <3>5
  <2>3. p + 1..f \subseteq T
    <3> HIDE DEF T
    <3>1. p + 1 \in Nat /\ f \in Nat
      BY <1>2
    <3> QED BY <2>1, <2>2, <3>1, Upwards
  <2> QED BY <2>3
<1>5. \A r \in p + 1..f : Guarded(B[r])
  BY <1>4 DEF Guarded
<1>6. CASE c[f].t # "Open"
  BY <1>1, <1>2, <1>5, <1>6 DEF e
<1>7. CASE c[f].t = "Open"
  <2> DEFINE Deep(q) == Number(c, f, q, "Open") - Number(c, f, q, "Close")
             d == Len(B[f].open)
             T == {r \in f + 1..e : /\ Deep(r - 1) >= 1
                                    /\ Len(B[r].open) = d + Deep(r - 1)
                                    /\ B[r].open[d + 1] = TRUE}
  <2>1. f \in Nat \ {0} /\ f \in 1..Len(c) /\ e \in Nat /\ e \in f..Len(c)
    BY <1>1, <1>2
  <2>2. \A q \in f - 1..Len(c) :
          /\ Deep(q) \in Int
          /\ Deep(q + 1) = Deep(q) + (IF c[q + 1].t = "Open" THEN 1 ELSE IF c[q + 1].t = "Close" THEN -1 ELSE 0)
    <3> TAKE q \in f - 1..Len(c)
    <3>1. q \in Nat /\ f <= q + 1 /\ f \in Nat \ {0}
      BY <1>2, <2>1
    <3> HIDE DEF Deep, T, d
    <3>2. /\ Number(c, f, q, "Open") \in Nat
          /\ Number(c, f, q + 1, "Open") = Number(c, f, q, "Open") + One(c, q + 1, "Open")
      BY <3>1, NumberStep
    <3>3. /\ Number(c, f, q, "Close") \in Nat
          /\ Number(c, f, q + 1, "Close") = Number(c, f, q, "Close") + One(c, q + 1, "Close")
      BY <3>1, NumberStep
    <3>4. One(c, q + 1, "Open") - One(c, q + 1, "Close") =
            (IF c[q + 1].t = "Open" THEN 1 ELSE IF c[q + 1].t = "Close" THEN -1 ELSE 0)
          /\ One(c, q + 1, "Open") \in Int /\ One(c, q + 1, "Close") \in Int
      BY DEF One
    <3>5. \A n1, n2, o1, o2 \in Int : (n1 + o1) - (n2 + o2) = (n1 - n2) + (o1 - o2)
      OBVIOUS
    <3>6. Deep(q + 1) = Deep(q) + (One(c, q + 1, "Open") - One(c, q + 1, "Close"))
      <4> DEFINE n1 == Number(c, f, q, "Open")
                 n2 == Number(c, f, q, "Close")
                 o1 == One(c, q + 1, "Open")
                 o2 == One(c, q + 1, "Close")
      <4>1. n1 \in Int /\ n2 \in Int /\ o1 \in Int /\ o2 \in Int
        BY <3>2, <3>3, <3>4
      <4>2. Deep(q) = n1 - n2 /\ Deep(q + 1) = (n1 + o1) - (n2 + o2)
        BY <3>2, <3>3 DEF Deep
      <4> HIDE DEF n1, n2, o1, o2
      <4>3. Deep(q + 1) = Deep(q) + (o1 - o2)
        BY <3>5, <4>1, <4>2
      <4> QED BY <4>3 DEF o1, o2
    <3>7. Deep(q) \in Int
      BY <3>2, <3>3 DEF Deep
    <3> QED BY <3>4, <3>6, <3>7
  <2>3. Deep(f) = 1
    <3>1. Deep(f - 1) = 0
      BY <2>1, NumberNone
    <3>2. f - 1 \in f - 1..Len(c) /\ (f - 1) + 1 = f
      BY <2>1
    <3> HIDE DEF Deep
    <3> QED BY <1>7, <2>2, <3>1, <3>2
  <2>4. f # e
    <3>1. Deep(e) = 0
      <4>1. e \in Closes(c, f)
        BY <1>1, <1>7
      <4>2. Number(c, f, e, "Open") = Number(c, f, e, "Close")
        BY <4>1, ClosesAre
      <4>3. Number(c, f, e, "Close") \in Nat
        <5>1. f <= e + 1
          BY <2>1
        <5> QED BY <2>1, <5>1, NumberStep
      <4> QED BY <4>2, <4>3
    <3> HIDE DEF Deep
    <3> QED BY <2>3, <3>1
  <2>5. f + 1 \in T
    <3>1. B[f] \in Blks /\ B[f + 1] = After(B[f], "Open") /\ B[f].statement = TRUE
      BY <1>2, <1>4, <1>7, <2>1
    <3>2. B[f + 1].open = Append(B[f].open, TRUE)
      <4>1. After(B[f], "Open") = [open |-> Append(B[f].open, B[f].statement), statement |-> FALSE]
        BY DEF After
      <4>2. B[f + 1].open = Append(B[f].open, B[f].statement)
        BY <3>1, <4>1
      <4> QED BY <3>1, <4>2, Zenon
    <3>3. Len(B[f + 1].open) = d + 1 /\ B[f + 1].open[d + 1] = TRUE
      <4>1. B[f].open \in Seq(BOOLEAN)
        BY <3>1 DEF Blks
      <4> QED BY <3>2, <4>1
    <3>4. f + 1 \in f + 1..e /\ (f + 1) - 1 = f
      BY <2>1, <2>4
    <3> HIDE DEF Deep, d
    <3> QED BY <2>3, <3>3, <3>4
  <2>6. ASSUME NEW k \in f + 1..e - 1, k \in T
        PROVE  k + 1 \in T
    <3>1. k \in 1..Len(c) /\ k + 1 \in f + 1..e /\ (k + 1) - 1 = k /\ k - 1 \in f - 1..Len(c) /\ (k - 1) + 1 = k
          /\ k \in f..Len(c) /\ k \in f..e - 1
      BY <1>2, <2>1
    <3>2. Deep(k - 1) >= 1 /\ Len(B[k].open) = d + Deep(k - 1) /\ B[k].open[d + 1] = TRUE
      BY <2>6
    <3>3. Deep(k) # 0
      <4>1. k \notin Closes(c, f)
        BY <1>1, <1>7, <3>1
      <4>2. Number(c, f, k, "Open") # Number(c, f, k, "Close")
        BY <3>1, <4>1, ClosesAre
      <4>3. Number(c, f, k, "Open") \in Nat /\ Number(c, f, k, "Close") \in Nat
        <5>1. k \in Nat /\ f <= k + 1
          BY <3>1
        <5> QED BY <2>1, <5>1, NumberStep
      <4> QED BY <4>2, <4>3
    <3>4. /\ Deep(k - 1) \in Int
          /\ Deep(k) = Deep(k - 1) + (IF c[k].t = "Open" THEN 1 ELSE IF c[k].t = "Close" THEN -1 ELSE 0)
      <4> HIDE DEF Deep
      <4> QED BY <2>2, <3>1
    <3> HIDE DEF Deep
    <3>5. Deep(k) >= 1
      BY <3>2, <3>3, <3>4
    <3>6. B[k] \in Blks /\ B[k + 1] = After(B[k], c[k].t) /\ d \in Nat
      BY <1>2, <2>1, <3>1 DEF Blks
    <3>7. B[k].open \in Seq(BOOLEAN) /\ B[k].statement \in BOOLEAN
      BY <3>6 DEF Blks
    <3> HIDE DEF d
    <3>8. Len(B[k + 1].open) = d + Deep(k) /\ B[k + 1].open[d + 1] = TRUE
      <4>1. CASE c[k].t = "Open"
        <5>1. B[k + 1].open = Append(B[k].open, B[k].statement)
          <6>1. After(B[k], "Open") = [open |-> Append(B[k].open, B[k].statement), statement |-> FALSE]
            BY DEF After
          <6> QED BY <3>6, <4>1, <6>1
        <5>2. Len(B[k + 1].open) = Len(B[k].open) + 1 /\ \A n \in 1..Len(B[k].open) : B[k + 1].open[n] = B[k].open[n]
          BY <3>7, <5>1
        <5>3. d + 1 \in 1..Len(B[k].open)
          BY <3>2, <3>4, <3>6
        <5>4. B[k + 1].open[d + 1] = B[k].open[d + 1]
          BY <5>2, <5>3
        <5>5. Len(B[k + 1].open) = d + Deep(k)
          BY <3>2, <3>4, <3>6, <4>1, <5>2
        <5> QED BY <3>2, <5>4, <5>5, Zenon
      <4>2. CASE c[k].t = "Close"
        <5>1. B[k + 1].open = Front(B[k].open)
          BY <3>6, <4>2 DEF After
        <5>2. Len(B[k].open) = d + Deep(k) + 1
          BY <3>2, <3>4, <3>6, <4>2
        <5>3. B[k].open # <<>> /\ d + 1 \in 1..Len(B[k].open) - 1
          <6>1. Len(B[k].open) >= 2 /\ d + 1 \in 1..d + Deep(k) /\ Len(B[k].open) - 1 = d + Deep(k)
            BY <3>4, <3>5, <3>6, <4>2, <5>2
          <6>2. B[k].open # <<>>
            BY <3>7, <6>1
          <6> QED BY <6>1, <6>2
        <5>4. Len(B[k + 1].open) = Len(B[k].open) - 1 /\ B[k + 1].open[d + 1] = B[k].open[d + 1]
          BY <3>7, <5>1, <5>3, Fronts
        <5>5. Len(B[k + 1].open) = d + Deep(k)
          BY <3>4, <3>6, <5>2, <5>4
        <5> QED BY <3>2, <5>4, <5>5, Zenon
      <4>3. CASE c[k].t \notin {"Open", "Close"}
        <5>1. B[k + 1].open = B[k].open
          <6>1. B[k] = [open |-> B[k].open, statement |-> B[k].statement]
            BY <3>6 DEF Blks
          <6> QED BY <3>6, <4>3, <6>1 DEF After
        <5>2. Deep(k) = Deep(k - 1)
          BY <3>4, <4>3
        <5> QED BY <3>2, <5>1, <5>2
      <4> QED BY <4>1, <4>2, <4>3
    <3> QED BY <3>1, <3>5, <3>8
  <2>7. f + 1..e \subseteq T
    <3> HIDE DEF T
    <3>1. f + 1 \in Nat
      BY <2>1
    <3> QED BY <2>1, <2>5, <2>6, <3>1, Upwards
  <2>8. ASSUME NEW r \in f + 1..e
        PROVE  Guarded(B[r])
    <3>1. Deep(r - 1) >= 1 /\ Len(B[r].open) = d + Deep(r - 1) /\ B[r].open[d + 1] = TRUE
      BY <2>7
    <3>2. Deep(r - 1) \in Int
      <4>1. r - 1 \in f - 1..Len(c)
        BY <2>1, <1>2
      <4> HIDE DEF Deep
      <4> QED BY <2>2, <4>1
    <3>3. d \in Nat
      BY <1>2, <2>1 DEF Blks
    <3>4. d + 1 \in 1..Len(B[r].open)
      <4> HIDE DEF Deep, d
      <4> QED BY <3>1, <3>2, <3>3
    <3> HIDE DEF d, Deep
    <3> QED BY <3>1, <3>4 DEF Guarded
  <2>9. \A r \in p + 1..e : r \in p + 1..f \/ r \in f + 1..e
    BY <2>1
  <2>10. c[e].t = "Close"
    <3>1. e \in f + 1..e /\ e - 1 \in f - 1..Len(c) /\ (e - 1) + 1 = e
      BY <1>2, <2>1, <2>4
    <3>2. Deep(e - 1) >= 1
      BY <2>7, <3>1
    <3>3. Deep(e) = 0
      <4>1. Number(c, f, e, "Open") = Number(c, f, e, "Close")
        BY <1>1, <1>7, ClosesAre
      <4>2. Number(c, f, e, "Close") \in Nat
        <5>1. f <= e + 1
          BY <2>1
        <5> QED BY <2>1, <5>1, NumberStep
      <4> QED BY <4>1, <4>2
    <3>4. /\ Deep(e - 1) \in Int
          /\ Deep(e) = Deep(e - 1) + (IF c[e].t = "Open" THEN 1 ELSE IF c[e].t = "Close" THEN -1 ELSE 0)
      <4> HIDE DEF Deep
      <4> QED BY <2>2, <3>1
    <3> HIDE DEF Deep
    <3> QED BY <3>2, <3>3, <3>4
  <2> HIDE DEF T, d, Deep
  <2> QED BY <1>1, <1>2, <1>5, <2>1, <2>8, <2>9, <2>10 DEF e
<1> QED BY <1>6, <1>7

-----------------------------------------------------------------------------
(* Scanning *)

Event == [e : Kinds, of : Int, guarded : BOOLEAN]
Moving == {"Read", "Replace", "Change"}
LinesOf(c) == 1..c[Len(c)].line

EventAt(c, B, p, n) == [e |-> EventsOf(c[p])[n], of |-> c[p].of, guarded |-> Guarded(B[p])]

\* A token's events are where its line has had others before.
Noted(c, ev, B, E, p) ==
  /\ E[p] + Len(EventsOf(c[p])) <= Len(ev[c[p].line])
  /\ \A n \in 1..Len(EventsOf(c[p])) : ev[c[p].line][E[p] + n] = EventAt(c, B, p, n)

\* What the events and registers are once the first m tokens are scanned.
Scanned(c, ev, us, B, E, m) ==
  /\ ev \in [LinesOf(c) -> Seq(Event)]
  /\ us \in SUBSET Int
  /\ \A p \in 1..m : Noted(c, ev, B, E, p) /\ (c[p].t \in Accesses => c[p].of \in us)
  /\ \A p \in 1..m : (p = m \/ c[p + 1].line # c[p].line) =>
       Len(ev[c[p].line]) = E[p] + Len(EventsOf(c[p]))
  /\ \A l \in LinesOf(c) : \A n \in 1..Len(ev[l]) :
       /\ \E p \in 1..m : c[p].line = l /\ n \in E[p] + 1..E[p] + Len(EventsOf(c[p]))
       /\ ev[l][n].e \in Moving => ev[l][n].of \in us

\* Only what reads or sets a register has events that do.
LEMMA MovingAccess ==
  ASSUME NEW k, NEW n \in 1..Len(EventsOf(k)), EventsOf(k)[n] \in Moving
  PROVE  k.t \in Accesses
<1>1. n \in {1, 2}
  BY EventsOfType
<1> QED BY <1>1 DEF EventsOf, Moving, Accesses

LEMMA LineIn ==
  ASSUME NEW c, LinesFollow(c), NEW p \in 1..Len(c)
  PROVE  c[p].line \in LinesOf(c) /\ c[Len(c)].line \in Nat \ {0}
<1>1. Len(c) \in 1..Len(c) /\ p <= Len(c)
  BY TextIs
<1>2. c[p].line <= c[Len(c)].line /\ c[p].line \in Nat \ {0} /\ c[Len(c)].line \in Nat \ {0}
  BY <1>1, TextIs
<1> QED BY <1>2 DEF LinesOf

\* What a token's line has before it is scanned.
LEMMA ScannedBefore ==
  ASSUME NEW c, LinesFollow(c), NEW B, NEW E, Shape(c, B, E), NEW ev, NEW us,
         NEW p \in 1..Len(c), Scanned(c, ev, us, B, E, p - 1)
  PROVE  Len(ev[c[p].line]) = E[p]
<1> DEFINE l == c[p].line
<1>1. Len(c) \in Nat /\ l \in LinesOf(c) /\ ev[l] \in Seq(Event)
  BY TextIs, LineIn DEF Scanned
<1>2. CASE p > 1 /\ c[p - 1].line = l
  <2>1. p - 1 \in 1..p - 1 /\ p - 1 \in 1..Len(c) - 1 /\ (p - 1) + 1 = p
    BY <1>1, <1>2
  <2>2. Len(ev[c[p - 1].line]) = E[p - 1] + Len(EventsOf(c[p - 1]))
    BY <2>1 DEF Scanned
  <2>3. E[p] = E[p - 1] + Len(EventsOf(c[p - 1]))
    BY <1>2, <2>1 DEF Shape
  <2> QED BY <1>2, <2>2, <2>3
<1>3. CASE ~(p > 1 /\ c[p - 1].line = l)
  <2>1. E[p] = 0
    <3>1. CASE p = 1
      BY <3>1 DEF Shape
    <3>2. CASE p > 1
      <4>1. p - 1 \in 1..Len(c) - 1 /\ (p - 1) + 1 = p
        BY <1>1, <3>2
      <4> QED BY <1>3, <3>2, <4>1 DEF Shape
    <3> QED BY <1>1, <3>1, <3>2
  <2>2. ASSUME NEW q \in 1..p - 1, c[q].line = l
        PROVE  FALSE
    <3>1. p > 1 /\ q \in 1..Len(c) /\ p - 1 \in 1..Len(c) /\ q <= p - 1 /\ p - 1 <= p
      BY <1>1
    <3>2. c[q].line <= c[p - 1].line /\ c[p - 1].line <= c[p].line
      BY <3>1, TextIs
    <3>3. c[p - 1].line \in Nat /\ c[p].line \in Nat
      BY <3>1, TextIs
    <3> QED BY <1>3, <2>2, <3>1, <3>2, <3>3
  <2>3. Len(ev[l]) = 0
    <3>1. Len(ev[l]) \in Nat
      BY <1>1
    <3>2. SUFFICES ASSUME 1 \in 1..Len(ev[l]) PROVE FALSE
      BY <3>1
    <3>3. \E q \in 1..p - 1 : c[q].line = l
      BY <1>1, <3>2 DEF Scanned
    <3> QED BY <2>2, <3>3
  <2> QED BY <2>1, <2>3
<1> QED BY <1>2, <1>3

LEMMA ScanStep ==
  ASSUME NEW c, LinesFollow(c), NEW B, NEW E, Shape(c, B, E), NEW ev, NEW us,
         NEW p \in 1..Len(c), Scanned(c, ev, us, B, E, p - 1),
         NEW ev2, ev2 = [ev EXCEPT ![c[p].line] = @ \o [n \in 1..Len(EventsOf(c[p])) |-> EventAt(c, B, p, n)]],
         NEW us2, us2 = IF c[p].t \in Accesses THEN us \cup {c[p].of} ELSE us
  PROVE  Scanned(c, ev2, us2, B, E, p)
<1> DEFINE l == c[p].line
           k == Len(EventsOf(c[p]))
           new == [n \in 1..k |-> EventAt(c, B, p, n)]
<1>1. Len(c) \in Nat /\ l \in LinesOf(c) /\ c[p].of \in Int /\ k \in Nat
  BY TextIs, LineIn, EventsOfType
<1>2. ev \in [LinesOf(c) -> Seq(Event)] /\ us \in SUBSET Int /\ us2 \in SUBSET Int /\ us \subseteq us2
  BY <1>1 DEF Scanned
<1>3. \A n \in 1..k : EventAt(c, B, p, n) \in Event
  <2>1. EventsOf(c[p]) \in Seq(Kinds)
    BY EventsOfType
  <2>2. \A n \in 1..k : EventsOf(c[p])[n] \in Kinds
    BY <2>1
  <2>3. Guarded(B[p]) \in BOOLEAN
    <3>1. p \in 1..Len(c) + 1
      BY <1>1
    <3>2. B[p] \in Blks
      BY <3>1 DEF Shape
    <3>3. B[p].statement \in BOOLEAN
      BY <3>2 DEF Blks
    <3> QED BY <3>3 DEF Guarded
  <2> QED BY <1>1, <2>2, <2>3 DEF EventAt, Event
<1>4. new \in Seq(Event) /\ Len(new) = k /\ \A n \in 1..k : new[n] = EventAt(c, B, p, n)
  <2>1. new \in [1..k -> Event]
    BY <1>3
  <2>2. new \in Seq(Event)
    <3> HIDE DEF new, k
    <3> QED BY <1>1, <2>1, SeqDef
  <2>3. DOMAIN new = 1..k
    OBVIOUS
  <2>4. Len(new) = k
    <3> HIDE DEF new, k
    <3> QED BY <1>1, <2>2, <2>3
  <2> QED BY <2>2, <2>4
<1>5. ev2 = [ev EXCEPT ![l] = ev[l] \o new]
  BY <1>1, <1>2
<1> HIDE DEF new
<1>6. /\ ev[l] \in Seq(Event) /\ Len(ev[l]) = E[p] /\ E[p] \in Nat
      /\ ev[l] \o new \in Seq(Event) /\ Len(ev[l] \o new) = E[p] + k
      /\ \A n \in 1..E[p] : (ev[l] \o new)[n] = ev[l][n]
      /\ \A n \in 1..k : (ev[l] \o new)[E[p] + n] = new[n]
  <2>1. ev[l] \in Seq(Event) /\ Len(ev[l]) = E[p]
    BY <1>1, <1>2, ScannedBefore
  <2>2. /\ ev[l] \o new \in Seq(Event)
        /\ Len(ev[l] \o new) = Len(ev[l]) + Len(new)
        /\ \A n \in 1..Len(ev[l]) + Len(new) :
             (ev[l] \o new)[n] = IF n <= Len(ev[l]) THEN ev[l][n] ELSE new[n - Len(ev[l])]
    <3> HIDE DEF l
    <3> QED BY <1>4, <2>1, ConcatProperties
  <2>3. E[p] \in Nat
    BY DEF Shape
  <2> HIDE DEF k, l
  <2>4. \A n \in 1..E[p] : (ev[l] \o new)[n] = ev[l][n]
    BY <1>1, <1>4, <2>1, <2>2, <2>3
  <2>5. \A n \in 1..k : (ev[l] \o new)[E[p] + n] = new[n]
    <3> TAKE n \in 1..k
    <3>1. E[p] + n \in 1..E[p] + k /\ ~(E[p] + n <= E[p]) /\ (E[p] + n) - E[p] = n
      BY <1>1, <2>3
    <3>2. (ev[l] \o new)[E[p] + n] = new[(E[p] + n) - E[p]]
      BY <1>4, <2>1, <2>2, <3>1
    <3> QED BY <3>1, <3>2
  <2> QED BY <1>4, <2>1, <2>2, <2>3, <2>4, <2>5
<1>7. /\ ev2 \in [LinesOf(c) -> Seq(Event)] /\ ev2[l] = ev[l] \o new
      /\ \A m \in LinesOf(c) : m # l => ev2[m] = ev[m]
  <2> HIDE DEF l
  <2> QED BY <1>1, <1>2, <1>5, <1>6
<1> HIDE DEF k
<1>8. /\ Len(ev2[l]) = E[p] + k
      /\ \A n \in 1..E[p] : ev2[l][n] = ev[l][n]
      /\ \A n \in 1..k : ev2[l][E[p] + n] = EventAt(c, B, p, n)
  <2> HIDE DEF l
  <2> QED BY <1>4, <1>6, <1>7
<1>9. ASSUME NEW q \in 1..p
      PROVE  Noted(c, ev2, B, E, q) /\ (c[q].t \in Accesses => c[q].of \in us2)
  <2>1. CASE q = p
    BY <1>6, <1>8, <2>1 DEF Noted, k
  <2>2. CASE q # p
    <3>1. q \in 1..p - 1 /\ q \in 1..Len(c)
      BY <1>1, <2>2
    <3>2. Noted(c, ev, B, E, q) /\ (c[q].t \in Accesses => c[q].of \in us)
      BY <3>1 DEF Scanned
    <3>3. CASE c[q].line = l
      <4>1. E[q] + Len(EventsOf(c[q])) <= E[p]
        BY <1>1, <3>1, <3>3, ShapeOrder
      <4>2. E[q] \in Nat /\ Len(EventsOf(c[q])) \in Nat
        <5>1. E \in [1..Len(c) -> Nat]
          BY DEF Shape
        <5> QED BY <3>1, <5>1, EventsOfType
      <4>3. E[q] + Len(EventsOf(c[q])) <= Len(ev2[c[q].line])
        BY <1>1, <1>6, <1>8, <3>3, <4>1, <4>2
      <4>4. ASSUME NEW n \in 1..Len(EventsOf(c[q]))
            PROVE  ev2[c[q].line][E[q] + n] = EventAt(c, B, q, n)
        <5>1. E[q] + n \in 1..E[p]
          <6> DEFINE a == E[q]
                     b == Len(EventsOf(c[q]))
                     d == E[p]
          <6>1. a \in Nat /\ b \in Nat /\ d \in Nat /\ a + b <= d /\ n \in 1..b
            BY <1>6, <4>1, <4>2
          <6> HIDE DEF a, b, d
          <6>2. a + n \in 1..d
            BY <6>1
          <6> QED BY <6>2 DEF a, d
        <5>2. ev[c[q].line][E[q] + n] = EventAt(c, B, q, n)
          BY <3>2 DEF Noted
        <5> QED BY <1>8, <3>3, <5>1, <5>2
      <4> QED BY <1>2, <3>2, <4>3, <4>4 DEF Noted
    <3>4. CASE c[q].line # l
      <4>1. ev2[c[q].line] = ev[c[q].line]
        BY <1>7, <3>1, <3>4, LineIn
      <4> QED BY <1>2, <3>2, <4>1 DEF Noted
    <3> QED BY <3>3, <3>4
  <2> QED BY <2>1, <2>2
<1>10. ASSUME NEW q \in 1..p, q = p \/ c[q + 1].line # c[q].line
       PROVE  Len(ev2[c[q].line]) = E[q] + Len(EventsOf(c[q]))
  <2>1. CASE q = p
    BY <1>8, <2>1 DEF k
  <2>2. CASE q # p
    <3>1. q \in 1..p - 1 /\ q \in 1..Len(c) /\ q + 1 \in 1..Len(c) /\ q + 1 <= p /\ q <= q + 1
      BY <1>1, <2>2
    <3>2. Len(ev[c[q].line]) = E[q] + Len(EventsOf(c[q]))
      BY <1>10, <2>2, <3>1 DEF Scanned
    <3>3. c[q].line # l
      <4>1. c[q].line <= c[q + 1].line /\ c[q + 1].line <= c[p].line
        BY <3>1, TextIs
      <4>2. c[q].line \in Nat /\ c[q + 1].line \in Nat /\ c[p].line \in Nat
        BY <3>1, TextIs
      <4> QED BY <1>10, <2>2, <4>1, <4>2
    <3>4. ev2[c[q].line] = ev[c[q].line]
      BY <1>7, <3>1, <3>3, LineIn
    <3> QED BY <3>2, <3>4
  <2> QED BY <2>1, <2>2
<1>11. ASSUME NEW m \in LinesOf(c), NEW n \in 1..Len(ev2[m])
       PROVE  /\ \E q \in 1..p : c[q].line = m /\ n \in E[q] + 1..E[q] + Len(EventsOf(c[q]))
              /\ ev2[m][n].e \in Moving => ev2[m][n].of \in us2
  <2>1. CASE m = l /\ n > E[p]
    <3>1. n - E[p] \in 1..k /\ E[p] + (n - E[p]) = n /\ n \in E[p] + 1..E[p] + k
      <4> DEFINE b == E[p]
                 h == Len(ev2[m])
      <4>1. b \in Nat /\ k \in Nat /\ h = b + k /\ n \in 1..h /\ n > b
        BY <1>1, <1>6, <1>8, <2>1
      <4> HIDE DEF b, h, k
      <4>2. n - b \in 1..k /\ b + (n - b) = n /\ n \in b + 1..b + k
        BY <4>1
      <4> QED BY <4>2 DEF b
    <3>2. ev2[m][n] = EventAt(c, B, p, n - E[p])
      BY <1>8, <2>1, <3>1
    <3>3. EventsOf(c[p])[n - E[p]] \in Moving => c[p].t \in Accesses
      BY <3>1, MovingAccess DEF k
    <3>4. p \in 1..p
      BY <1>1
    <3>5. ev2[m][n].e = EventsOf(c[p])[n - E[p]] /\ ev2[m][n].of = c[p].of
      BY <3>2 DEF EventAt
    <3>6. ev2[m][n].e \in Moving => ev2[m][n].of \in us2
      BY <3>3, <3>5
    <3>7. n \in E[p] + 1..E[p] + Len(EventsOf(c[p]))
      BY <3>1 DEF k
    <3> QED BY <2>1, <3>4, <3>6, <3>7
  <2>2. CASE ~(m = l /\ n > E[p])
    <3>1. n \in 1..Len(ev[m]) /\ ev2[m][n] = ev[m][n]
      <4>1. CASE m = l
        <5>1. n \in 1..E[p]
          BY <1>6, <1>8, <2>2, <4>1
        <5> QED BY <1>6, <1>8, <4>1, <5>1
      <4>2. CASE m # l
        BY <1>7, <4>2
      <4> QED BY <4>1, <4>2
    <3>2. /\ \E q \in 1..p - 1 : c[q].line = m /\ n \in E[q] + 1..E[q] + Len(EventsOf(c[q]))
          /\ ev[m][n].e \in Moving => ev[m][n].of \in us
      BY <3>1 DEF Scanned
    <3>3. \A q \in 1..p - 1 : q \in 1..p
      OBVIOUS
    <3> QED BY <1>2, <3>1, <3>2, <3>3
  <2> QED BY <2>1, <2>2
<1> QED BY <1>2, <1>7, <1>9, <1>10, <1>11 DEF Scanned

-----------------------------------------------------------------------------
(* What the context is behind on, of any events *)

Ended(ev, l) == {n \in 1..Len(ev[l]) : ev[l][n].e \in Leaves /\ ~ev[l][n].guarded}
Runs(ev, l) == 1..(IF Ended(ev, l) = {} THEN Len(ev[l]) ELSE Min(Ended(ev, l)))
Syncs(ev, l, n) == {m \in 1..n - 1 : ev[l][m].e = "Sync" /\ ~ev[l][m].guarded}
Since(ev, l, n) == IF Syncs(ev, l, n) = {} THEN 0 ELSE Max(Syncs(ev, l, n))
Behinds(ev, l, n, entry) ==
  (IF Syncs(ev, l, n) = {} THEN entry ELSE {})
     \cup {ev[l][m].of : m \in {m \in Since(ev, l, n) + 1..n - 1 : ev[l][m].e \in Writes}}

LEMMA BehindsAre ==
  /\ \A l : Ending(l) = Ended(events, l) /\ Reached(l) = Runs(events, l)
  /\ \A l, n, entry : BehindAt(l, n, entry) = Behinds(events, l, n, entry)
BY DEF Ending, Reached, BehindAt, Ended, Runs, Syncs, Since, Behinds

\* Scanned events and registers.
Noticed(ls, ev, us) ==
  /\ ev \in [ls -> Seq(Event)] /\ us \in SUBSET Int
  /\ \A l \in ls : \A n \in 1..Len(ev[l]) : ev[l][n].e \in Moving => ev[l][n].of \in us

LEMMA NoticedIs ==
  ASSUME NEW ls, NEW ev, NEW us, Noticed(ls, ev, us), NEW l \in ls
  PROVE  /\ ev[l] \in Seq(Event) /\ Len(ev[l]) \in Nat
         /\ \A n \in 1..Len(ev[l]) : /\ ev[l][n] \in Event
                                     /\ ev[l][n].e \in Kinds /\ ev[l][n].guarded \in BOOLEAN
                                     /\ ev[l][n].e \in Moving => ev[l][n].of \in us
<1>1. ev[l] \in Seq(Event)
  BY DEF Noticed
<1>2. Len(ev[l]) \in Nat /\ \A n \in 1..Len(ev[l]) : ev[l][n] \in Event
  BY <1>1
<1> QED BY <1>1, <1>2 DEF Noticed, Event

LEMMA SinceIs ==
  ASSUME NEW ev, NEW l, NEW n \in Nat \ {0}
  PROVE  Since(ev, l, n) \in 0..n - 1
<1>1. CASE Syncs(ev, l, n) = {}
  BY <1>1 DEF Since
<1>2. CASE Syncs(ev, l, n) # {}
  <2>1. Syncs(ev, l, n) \in SUBSET (0..n - 1)
    BY DEF Syncs
  <2>2. n - 1 \in Nat
    OBVIOUS
  <2>3. Max(Syncs(ev, l, n)) \in Syncs(ev, l, n)
    BY <1>2, <2>1, <2>2, MaxIs
  <2> QED BY <1>2, <2>1, <2>3 DEF Since
<1> QED BY <1>1, <1>2

LEMMA BehindsFirst ==
  ASSUME NEW ev, NEW l, NEW entry
  PROVE  Behinds(ev, l, 1, entry) = entry
<1>1. Syncs(ev, l, 1) = {}
  BY DEF Syncs
<1>2. Since(ev, l, 1) = 0
  BY <1>1 DEF Since
<1>3. {m \in Since(ev, l, 1) + 1..1 - 1 : ev[l][m].e \in Writes} = {}
  BY <1>2
<1> QED BY <1>1, <1>3 DEF Behinds

\* But for a sync that surely happens, the context is not behind on less past
\* an event, and past a write on what it is a write of.
LEMMA BehindsStep ==
  ASSUME NEW ls, NEW ev, NEW us, Noticed(ls, ev, us), NEW l \in ls, NEW n \in 1..Len(ev[l]), NEW entry
  PROVE  /\ ~(ev[l][n].e = "Sync" /\ ~ev[l][n].guarded) =>
              Behinds(ev, l, n, entry) \subseteq Behinds(ev, l, n + 1, entry)
         /\ ev[l][n].e \in Writes => ev[l][n].of \in Behinds(ev, l, n + 1, entry)
<1>1. Len(ev[l]) \in Nat /\ n \in Nat \ {0} /\ n + 1 \in Nat \ {0} /\ (n + 1) - 1 = n
  BY NoticedIs
<1>2. ASSUME ~(ev[l][n].e = "Sync" /\ ~ev[l][n].guarded)
      PROVE  Behinds(ev, l, n, entry) \subseteq Behinds(ev, l, n + 1, entry)
  <2>1. Syncs(ev, l, n + 1) = Syncs(ev, l, n)
    BY <1>1, <1>2 DEF Syncs
  <2>2. Since(ev, l, n + 1) = Since(ev, l, n)
    BY <2>1 DEF Since
  <2>3. \A m \in Since(ev, l, n) + 1..n - 1 : m \in Since(ev, l, n + 1) + 1..(n + 1) - 1
    BY <1>1, <2>2, SinceIs
  <2> QED BY <2>1, <2>3 DEF Behinds
<1>3. ASSUME ev[l][n].e \in Writes
      PROVE  ev[l][n].of \in Behinds(ev, l, n + 1, entry)
  <2>1. Since(ev, l, n + 1) \in 0..(n + 1) - 1
    BY <1>1, SinceIs
  <2>2. Since(ev, l, n + 1) # n
    <3>1. SUFFICES ASSUME Since(ev, l, n + 1) = n PROVE FALSE
      OBVIOUS
    <3>2. Syncs(ev, l, n + 1) # {}
      BY <1>1, <3>1 DEF Since
    <3>3. Max(Syncs(ev, l, n + 1)) = n
      BY <3>1, <3>2 DEF Since
    <3>4. Syncs(ev, l, n + 1) \in SUBSET (0..n)
      BY <1>1 DEF Syncs
    <3>5. n \in Syncs(ev, l, n + 1)
      BY <1>1, <3>2, <3>3, <3>4, MaxIs
    <3> QED BY <1>3, <3>5 DEF Syncs, Writes
  <2>3. n \in Since(ev, l, n + 1) + 1..(n + 1) - 1
    BY <1>1, <2>1, <2>2
  <2> QED BY <1>3, <2>3 DEF Behinds
<1> QED BY <1>2, <1>3

LEMMA BehindsType ==
  ASSUME NEW ls, NEW ev, NEW us, Noticed(ls, ev, us), NEW l \in ls, NEW n \in 1..Len(ev[l]) + 1,
         NEW entry \in SUBSET us
  PROVE  Behinds(ev, l, n, entry) \in SUBSET us
<1>1. Len(ev[l]) \in Nat /\ n \in Nat \ {0}
  BY NoticedIs
<1>2. ASSUME NEW m \in Since(ev, l, n) + 1..n - 1, ev[l][m].e \in Writes
      PROVE  ev[l][m].of \in us
  <2>1. m \in 1..Len(ev[l])
    BY <1>1, SinceIs
  <2>2. ev[l][m].e \in Moving
    BY <1>2 DEF Writes, Moving
  <2> QED BY <2>1, <2>2 DEF Noticed
<1> QED BY <1>2 DEF Behinds

\* Lines that run to an event before which nothing surely leaves.
LEMMA RunsIs ==
  ASSUME NEW ls, NEW ev, NEW us, Noticed(ls, ev, us), NEW l \in ls
  PROVE  /\ \A n \in 1..Len(ev[l]) : (\A m \in 1..n - 1 : m \notin Ended(ev, l)) => n \in Runs(ev, l)
         /\ Runs(ev, l) \subseteq 1..Len(ev[l])
<1>1. Len(ev[l]) \in Nat
  BY NoticedIs
<1>2. CASE Ended(ev, l) = {}
  BY <1>1, <1>2 DEF Runs
<1>3. CASE Ended(ev, l) # {}
  <2>1. Ended(ev, l) \in SUBSET Nat
    BY DEF Ended
  <2>2. Min(Ended(ev, l)) \in Ended(ev, l)
    BY <1>3, <2>1, MinIs
  <2>3. Min(Ended(ev, l)) \in 1..Len(ev[l])
    BY <2>2 DEF Ended
  <2>4. Runs(ev, l) = 1..Min(Ended(ev, l))
    BY <1>3 DEF Runs
  <2> HIDE DEF Runs
  <2>5. ASSUME NEW n \in 1..Len(ev[l]), \A m \in 1..n - 1 : m \notin Ended(ev, l)
        PROVE  n \in 1..Min(Ended(ev, l))
    <3>1. Min(Ended(ev, l)) \notin 1..n - 1
      BY <2>2, <2>5
    <3> QED BY <1>1, <2>3, <3>1
  <2> QED BY <1>1, <2>3, <2>4, <2>5
<1> QED BY <1>2, <1>3

-----------------------------------------------------------------------------
(* What may be read, of any events *)

\* Where the reads and writes from event n of a line on end, what the writes
\* that surely happen, or the reads, of some events are of, and what may be
\* read from n on when f has it for later events.
EndOf(l, n) ==
  Min({Len(events[l]) + 1} \cup
      {k \in n..(Len(events[l]) + 1) - 1 : events[l][k].e \notin Writes \cup {"Read"}})
OfEvents(l, ns, e) ==
  {events[l][k].of : k \in {k \in ns : events[l][k].e = e /\ (e = "Replace" => ~events[l][k].guarded)}}
Later(l, out, f, n) ==
  IF EndOf(l, n) = Len(events[l]) + 1 THEN out ELSE Through(events[l][EndOf(l, n)], f[EndOf(l, n) + 1])
From(l, out, f, n) ==
  (Later(l, out, f, n) \ OfEvents(l, n..EndOf(l, n) - 1, "Replace")) \cup OfEvents(l, n..EndOf(l, n) - 1, "Read")

\* Gotos name labels.
GotosAre(ls, ev) ==
  \A l \in ls : \A n \in 1..Len(ev[l]) : ev[l][n].e = "Goto" => LineOf(ev[l][n].of) \in ls

LEMMA EndsIs ==
  ASSUME NEW ls, Noticed(ls, events, used), NEW l \in ls, NEW n \in 1..Len(events[l]) + 1
  PROVE  /\ EndOf(l, n) \in n..Len(events[l]) + 1 /\ Len(events[l]) \in Nat
         /\ EndOf(l, n) <= Len(events[l]) => events[l][EndOf(l, n)].e \notin Moving
         /\ \A k \in n..EndOf(l, n) - 1 : k \in 1..Len(events[l]) /\ events[l][k].e \in Moving
<1> DEFINE T == {Len(events[l]) + 1} \cup
                {k \in n..(Len(events[l]) + 1) - 1 : events[l][k].e \notin Writes \cup {"Read"}}
<1>1. Len(events[l]) \in Nat
  BY NoticedIs
<1>2. T \in SUBSET Nat /\ T # {} /\ Len(events[l]) + 1 \in T
  BY <1>1
<1>3. Min(T) \in T /\ \A y \in T : Min(T) <= y
  <2> HIDE DEF T
  <2> QED BY <1>2, MinIs
<1>4. EndOf(l, n) = Min(T)
  BY DEF EndOf
<1> DEFINE m == Min(T)
<1>5. m \in n..Len(events[l]) + 1
  BY <1>1, <1>3
<1>6. m <= Len(events[l]) => events[l][m].e \notin Moving
  <2>1. ASSUME m <= Len(events[l])
        PROVE  events[l][m].e \notin Writes \cup {"Read"}
    <3> HIDE DEF m
    <3>1. m \in T /\ m # Len(events[l]) + 1
      BY <1>1, <1>3, <1>5, <2>1 DEF m
    <3> QED BY <3>1
  <2> QED BY <2>1 DEF Writes, Moving
<1>7. ASSUME NEW k \in n..m - 1
      PROVE  k \in 1..Len(events[l]) /\ events[l][k].e \in Moving
  <2>1. k \notin T
    <3> HIDE DEF T
    <3> QED BY <1>1, <1>3, <1>5
  <2>2. k \in n..(Len(events[l]) + 1) - 1
    <3> HIDE DEF m
    <3> QED BY <1>1, <1>5
  <2>3. events[l][k].e \in Writes \cup {"Read"}
    <3> HIDE DEF m
    <3> QED BY <2>1, <2>2
  <2> QED BY <1>1, <2>2, <2>3 DEF Writes, Moving
<1> HIDE DEF T
<1> QED BY <1>1, <1>4, <1>5, <1>6, <1>7

LEMMA FromType ==
  ASSUME NEW ls, Noticed(ls, events, used), GotosAre(ls, events), liveIn \in [ls -> SUBSET used],
         NEW l \in ls, NEW out \in SUBSET used, NEW n \in 1..Len(events[l]) + 1,
         NEW f, \A k \in n + 1..Len(events[l]) + 1 : f[k] \in SUBSET used
  PROVE  From(l, out, f, n) \in SUBSET used
<1>1. /\ EndOf(l, n) \in n..Len(events[l]) + 1 /\ Len(events[l]) \in Nat
      /\ \A k \in n..EndOf(l, n) - 1 : k \in 1..Len(events[l]) /\ events[l][k].e \in Moving
  BY EndsIs
<1>2. OfEvents(l, n..EndOf(l, n) - 1, "Read") \in SUBSET used
  <2>1. \A k \in n..EndOf(l, n) - 1 : events[l][k].of \in used
    BY <1>1, NoticedIs
  <2> QED BY <2>1 DEF OfEvents
<1>3. Later(l, out, f, n) \in SUBSET used
  <2>1. CASE EndOf(l, n) = Len(events[l]) + 1
    BY <2>1 DEF Later
  <2>2. CASE EndOf(l, n) # Len(events[l]) + 1
    <3> DEFINE m == EndOf(l, n)
    <3>1. m \in 1..Len(events[l]) /\ m + 1 \in n + 1..Len(events[l]) + 1
      BY <1>1, <2>2
    <3>2. f[m + 1] \in SUBSET used
      BY <3>1
    <3>3. events[l][m].e = "Goto" => liveIn[LineOf(events[l][m].of)] \in SUBSET used
      BY <3>1 DEF GotosAre
    <3>4. Later(l, out, f, n) = Through(events[l][m], f[m + 1])
      BY <2>2 DEF Later
    <3> HIDE DEF m
    <3> QED BY <3>2, <3>3, <3>4 DEF Through
  <2> QED BY <2>1, <2>2
<1> QED BY <1>2, <1>3 DEF From

\* There is what may be read from each event on, and LiveFrom is that.
LEMMA LiveFromIs ==
  ASSUME NEW ls, Noticed(ls, events, used), GotosAre(ls, events), liveIn \in [ls -> SUBSET used],
         NEW l \in ls, NEW out \in SUBSET used
  PROVE  /\ LiveFrom(l, out) \in [1..Len(events[l]) + 1 -> SUBSET used]
         /\ \A n \in 1..Len(events[l]) + 1 : LiveFrom(l, out)[n] = From(l, out, LiveFrom(l, out), n)
<1> DEFINE last == Len(events[l]) + 1
           Is(f, m) == \A n \in last - m + 1..last : f[n] = From(l, out, f, n)
           T == {m \in 0..last : \E f \in [1..last -> SUBSET used] : Is(f, m)}
<1>1. Len(events[l]) \in Nat /\ last \in Nat \ {0}
  BY NoticedIs
<1>2. 0 \in T
  <2>1. [n \in 1..last |-> {}] \in [1..last -> SUBSET used]
    OBVIOUS
  <2>2. \A n \in last - 0 + 1..last : FALSE
    BY <1>1
  <2>3. Is([n \in 1..last |-> {}], 0)
    BY <2>2
  <2> HIDE DEF Is
  <2> QED BY <1>1, <2>1, <2>3
<1>3. ASSUME NEW m \in 0..last - 1, m \in T
      PROVE  m + 1 \in T
  <2>1. PICK f \in [1..last -> SUBSET used] : Is(f, m)
    BY <1>3
  <2> DEFINE k == last - m
             g == [f EXCEPT ![k] = From(l, out, f, k)]
  <2>2. k \in 1..last
    BY <1>1
  <2>3. From(l, out, f, k) \in SUBSET used
    <3>1. \A n \in k + 1..Len(events[l]) + 1 : f[n] \in SUBSET used
      BY <1>1, <2>2
    <3> HIDE DEF k
    <3> QED BY <2>2, <3>1, FromType
  <2>4. g \in [1..last -> SUBSET used] /\ g[k] = From(l, out, f, k) /\ \A n \in 1..last : n # k => g[n] = f[n]
    <3> HIDE DEF k
    <3> QED BY <2>2, <2>3
  <2> HIDE DEF g
  <2>5. ASSUME NEW n \in k..last
        PROVE  From(l, out, g, n) = From(l, out, f, n)
    <3>1. n \in 1..Len(events[l]) + 1
      BY <1>1, <2>2
    <3>2. EndOf(l, n) \in n..Len(events[l]) + 1
      BY <3>1, EndsIs
    <3>3. EndOf(l, n) # Len(events[l]) + 1 => g[EndOf(l, n) + 1] = f[EndOf(l, n) + 1]
      <4>1. EndOf(l, n) # Len(events[l]) + 1 => EndOf(l, n) + 1 \in 1..last /\ EndOf(l, n) + 1 # k
        BY <1>1, <2>2, <3>2
      <4> HIDE DEF last, k
      <4> QED BY <2>4, <4>1
    <3>4. Later(l, out, g, n) = Later(l, out, f, n)
      BY <3>3 DEF Later
    <3> QED BY <3>4 DEF From
  <2>6. Is(g, m + 1)
    <3> SUFFICES ASSUME NEW n \in last - (m + 1) + 1..last
                 PROVE  g[n] = From(l, out, g, n)
      OBVIOUS
    <3>1. n \in k..last /\ n \in 1..last
      BY <1>1, <2>2
    <3>2. CASE n = k
      BY <2>4, <2>5, <3>1, <3>2
    <3>3. CASE n # k
      <4>1. n \in last - m + 1..last
        BY <1>1, <3>1, <3>3
      <4>2. f[n] = From(l, out, f, n)
        BY <2>1, <4>1
      <4> HIDE DEF last, k
      <4> QED BY <2>4, <2>5, <3>1, <3>3, <4>2
    <3> QED BY <3>2, <3>3
  <2>7. m + 1 \in 0..last
    BY <1>1
  <2> HIDE DEF Is, last
  <2> QED BY <2>4, <2>6, <2>7
<1>4. 0..last \subseteq T
  <2>1. 0 \in Nat /\ last \in Nat
    BY <1>1
  <2> DEFINE zero == 0
  <2>2. zero \in T /\ zero \in Nat /\ \A k \in zero..last - 1 : k \in T => k + 1 \in T
    BY <1>2, <1>3
  <2>3. zero..last \subseteq T
    <3> HIDE DEF T, last, zero
    <3> QED BY <2>1, <2>2, Upwards
  <2> QED BY <2>3
<1>5. PICK f \in [1..last -> SUBSET used] : Is(f, last)
  <2>1. last \in T
    <3>1. last \in 0..last
      BY <1>1
    <3> HIDE DEF T, last
    <3> QED BY <1>4, <3>1
  <2> HIDE DEF Is, last
  <2> QED BY <2>1
<1>6. f = [n \in 1..last |-> From(l, out, f, n)]
  <2>1. \A n \in 1..last : f[n] = From(l, out, f, n)
    <3>1. \A n \in 1..last : n \in last - last + 1..last
      BY <1>1
    <3> QED BY <1>5, <3>1
  <2> HIDE DEF last
  <2> QED BY <2>1
<1>7. LiveFrom(l, out) = CHOOSE g : g = [n \in 1..last |-> From(l, out, g, n)]
  BY Zenon DEF LiveFrom, From, Later, OfEvents, EndOf
<1>8. LiveFrom(l, out) = [n \in 1..last |-> From(l, out, LiveFrom(l, out), n)]
  <2> HIDE DEF last
  <2> QED BY <1>6, <1>7
<1>9. ASSUME NEW n \in 1..last
      PROVE  LiveFrom(l, out)[n] = From(l, out, LiveFrom(l, out), n)
  <2> HIDE DEF last
  <2> QED BY <1>8
<1> DEFINE g == LiveFrom(l, out)
           U == {m \in 0..last : \A n \in last - m + 1..last : g[n] \in SUBSET used}
<1>10. 0 \in U
  <2>1. \A n \in last - 0 + 1..last : FALSE
    BY <1>1
  <2> QED BY <1>1, <2>1
<1>11. ASSUME NEW m \in 0..last - 1, m \in U
       PROVE  m + 1 \in U
  <2> DEFINE k == last - m
  <2>1. k \in 1..last /\ m + 1 \in 0..last
    BY <1>1
  <2>2. g[k] \in SUBSET used
    <3>1. \A n \in k + 1..Len(events[l]) + 1 : g[n] \in SUBSET used
      BY <1>1, <1>11
    <3> HIDE DEF k, g
    <3>2. From(l, out, g, k) \in SUBSET used
      BY <2>1, <3>1, FromType
    <3> QED BY <1>9, <2>1, <3>2 DEF g
  <2>3. \A n \in last - (m + 1) + 1..last : n = k \/ n \in last - m + 1..last
    BY <1>1
  <2> HIDE DEF g
  <2> QED BY <1>11, <2>1, <2>2, <2>3
<1>12. \A n \in 1..last : g[n] \in SUBSET used
  <2> DEFINE zero == 0
  <2>1. zero \in U /\ zero \in Nat /\ last \in Nat /\ \A k \in zero..last - 1 : k \in U => k + 1 \in U
    BY <1>1, <1>10, <1>11
  <2>2. zero..last \subseteq U
    <3> HIDE DEF U, last, zero
    <3> QED BY <2>1, Upwards
  <2>3. last \in zero..last
    BY <1>1
  <2>4. last \in U
    <3> HIDE DEF U, last, zero
    <3> QED BY <2>2, <2>3
  <2>5. \A n \in 1..last : n \in last - last + 1..last
    BY <1>1
  <2> HIDE DEF last, g
  <2> QED BY <2>4, <2>5
<1>13. LiveFrom(l, out) \in [1..last -> SUBSET used]
  <2> HIDE DEF last
  <2> QED BY <1>8, <1>9, <1>12
<1> HIDE DEF last
<1> QED BY <1>9, <1>13 DEF last

\* What is read from event n of a line on before anything but reads and writes.
Ahead(ev, l, n) ==
  {ev[l][k].of : k \in {k \in n..Len(ev[l]) : ev[l][k].e = "Read" /\ \A m \in n..k : ev[l][m].e \in Moving}}

\* What f says may be read from each event of a line on has what it must have:
\* all registers where the context is looked at, what is past a label where
\* it is jumped to, and what may be read past the event but for what it surely
\* replaces.
Goes(c, ev, us, lin, l, f) ==
  /\ f \in [1..Len(ev[l]) + 1 -> SUBSET us]
  /\ \A n \in 1..Len(ev[l]) :
       /\ ev[l][n].e \in {"Sync", "Leave", "Dispatch"} => f[n] = us
       /\ ev[l][n].e = "Goto" => lin[c[Place(c, ev[l][n].of)].line] \subseteq f[n]
       /\ ~(ev[l][n].e = "Goto" /\ ~ev[l][n].guarded) =>
            f[n + 1] \subseteq f[n] \cup {r \in {ev[l][n].of} : ev[l][n].e = "Replace" /\ ~ev[l][n].guarded}
       /\ Ahead(ev, l, n) \subseteq f[n]

LEMMA LiveFromGoes ==
  ASSUME NEW ls, Noticed(ls, events, used), GotosAre(ls, events), liveIn \in [ls -> SUBSET used],
         NEW l \in ls, NEW out \in SUBSET used
  PROVE  Goes(code, events, used, liveIn, l, LiveFrom(l, out)) /\ LiveFrom(l, out)[Len(events[l]) + 1] = out
<1> DEFINE f == LiveFrom(l, out)
           last == Len(events[l]) + 1
<1>1. /\ f \in [1..last -> SUBSET used]
      /\ \A n \in 1..last : f[n] = From(l, out, f, n)
  BY LiveFromIs
<1> HIDE DEF f
<1>2. last \in Nat /\ last \in 1..last /\ Len(events[l]) \in Nat
  BY NoticedIs
<1>3. f[last] = out
  <2>1. EndOf(l, last) = last /\ last..last - 1 = {}
    BY <1>2, EndsIs
  <2>2. \A e : OfEvents(l, last..EndOf(l, last) - 1, e) = {}
    <3> HIDE DEF last
    <3> QED BY <2>1 DEF OfEvents
  <2>3. Later(l, out, f, last) = out
    BY <2>1 DEF Later
  <2>4. From(l, out, f, last) = out
    <3> HIDE DEF last
    <3> QED BY <2>2, <2>3 DEF From
  <2> HIDE DEF last
  <2> QED BY <1>1, <1>2, <2>4
<1>4. ASSUME NEW n \in 1..Len(events[l])
      PROVE  /\ events[l][n].e \in {"Sync", "Leave", "Dispatch"} => f[n] = used
             /\ events[l][n].e = "Goto" => liveIn[code[Place(code, events[l][n].of)].line] \subseteq f[n]
             /\ ~(events[l][n].e = "Goto" /\ ~events[l][n].guarded) =>
                  f[n + 1] \subseteq f[n] \cup {r \in {events[l][n].of} : events[l][n].e = "Replace" /\ ~events[l][n].guarded}
             /\ Ahead(events, l, n) \subseteq f[n]
  <2> DEFINE m == EndOf(l, n)
             ev == events[l]
             Kill(a) == OfEvents(l, a..m - 1, "Replace")
             Read(a) == OfEvents(l, a..m - 1, "Read")
  <2>1. n \in 1..last /\ n + 1 \in 1..last
    BY <1>2
  <2>2. /\ m \in n..last
        /\ m <= Len(ev) => ev[m].e \notin Moving
        /\ \A k \in n..m - 1 : k \in 1..Len(ev) /\ ev[k].e \in Moving
    BY <2>1, EndsIs
  <2>3. f[n] = (Later(l, out, f, n) \ Kill(n)) \cup Read(n)
    BY <1>1, <2>1 DEF From
  <2>4. f[n + 1] \in SUBSET used /\ f[n] \in SUBSET used
    BY <1>1, <2>1
  <2>5. CASE ev[n].e \notin Moving
    <3>1. m = n
      <4>1. n \notin n..m - 1
        BY <2>2, <2>5
      <4> HIDE DEF m
      <4> QED BY <1>2, <2>1, <2>2, <4>1
    <3>2. n..m - 1 = {}
      BY <3>1
    <3>3. Kill(n) = {} /\ Read(n) = {}
      BY <3>2 DEF OfEvents
    <3>4. Later(l, out, f, n) = Through(ev[n], f[n + 1])
      BY <1>2, <3>1 DEF Later
    <3>5. f[n] = Through(ev[n], f[n + 1])
      BY <2>3, <3>3, <3>4
    <3>6. Ahead(events, l, n) = {}
      <4>1. \A k \in n..Len(ev) : n \in n..k
        OBVIOUS
      <4> QED BY <2>5, <4>1 DEF Ahead
    <3>7. LineOf(ev[n].of) = code[Place(code, ev[n].of)].line
      BY DEF LineOf
    <3>8. ev[n].e \in {"Sync", "Leave", "Dispatch"} => f[n] = used
      BY <3>5 DEF Through
    <3>9. ev[n].e = "Goto" => liveIn[code[Place(code, ev[n].of)].line] \subseteq f[n]
      BY <3>5, <3>7 DEF Through
    <3>10. ~(ev[n].e = "Goto" /\ ~ev[n].guarded) => f[n + 1] \subseteq f[n]
      <4>1. ev[n].e \in {"Sync", "Leave", "Dispatch"} => f[n + 1] \subseteq f[n]
        BY <2>4, <3>8
      <4>2. ev[n].e = "Goto" /\ ev[n].guarded => f[n + 1] \subseteq f[n]
        BY <3>5 DEF Through
      <4>3. ev[n].e \notin {"Sync", "Leave", "Dispatch", "Goto"} => f[n] = f[n + 1]
        BY <3>5 DEF Through
      <4> QED BY <4>1, <4>2, <4>3
    <3> QED BY <3>6, <3>8, <3>9, <3>10
  <2>6. CASE ev[n].e \in Moving
    <3>1. m # n
      BY <1>2, <2>2, <2>6
    <3>2. EndOf(l, n + 1) = m
      <4> DEFINE k == EndOf(l, n + 1)
      <4>1. /\ k \in n + 1..last
            /\ k <= Len(ev) => ev[k].e \notin Moving
            /\ \A j \in n + 1..k - 1 : j \in 1..Len(ev) /\ ev[j].e \in Moving
        BY <2>1, EndsIs
      <4> HIDE DEF k, m, ev
      <4>2. m \notin n + 1..k - 1
        BY <1>2, <2>2, <4>1 DEF ev
      <4>3. k \notin n..m - 1
        BY <1>2, <2>2, <4>1 DEF ev
      <4>4. m = k
        BY <1>2, <2>2, <3>1, <4>1, <4>2, <4>3
      <4> QED BY <4>4 DEF k
    <3>3. Later(l, out, f, n + 1) = Later(l, out, f, n)
      BY <3>2 DEF Later
    <3>4. f[n + 1] = (Later(l, out, f, n) \ Kill(n + 1)) \cup Read(n + 1)
      BY <1>1, <2>1, <3>2, <3>3 DEF From
    <3>5. \A k \in n..m - 1 : k = n \/ k \in n + 1..m - 1
      OBVIOUS
    <3>6. \A k \in n + 1..m - 1 : k \in n..m - 1
      OBVIOUS
    <3>7. Read(n + 1) \subseteq Read(n)
      BY <3>6 DEF OfEvents
    <3>8. Kill(n) \subseteq Kill(n + 1) \cup {r \in {ev[n].of} : ev[n].e = "Replace" /\ ~ev[n].guarded}
      BY <3>5 DEF OfEvents
    <3>9. f[n + 1] \subseteq f[n] \cup {r \in {ev[n].of} : ev[n].e = "Replace" /\ ~ev[n].guarded}
      <4> HIDE DEF Kill, Read, m, ev
      <4> QED BY <2>3, <3>4, <3>7, <3>8
    <3>10. Ahead(events, l, n) \subseteq Read(n)
      <4> SUFFICES ASSUME NEW k \in n..Len(ev), ev[k].e = "Read", \A j \in n..k : ev[j].e \in Moving
                   PROVE  ev[k].of \in Read(n)
        BY DEF Ahead
      <4>1. m \notin n..k
        <5> HIDE DEF m
        <5> QED BY <1>2, <2>2
      <4>2. k \in n..m - 1
        <5> HIDE DEF m
        <5> QED BY <1>2, <2>2, <4>1
      <4> QED BY <4>2 DEF OfEvents
    <3>11. Ahead(events, l, n) \subseteq f[n]
      <4> HIDE DEF Kill, Read
      <4> QED BY <2>3, <3>10
    <3>12. ev[n].e \notin {"Sync", "Leave", "Dispatch", "Goto"}
      BY <2>6 DEF Moving
    <3> QED BY <3>9, <3>11, <3>12
  <2> QED BY <2>5, <2>6
<1> QED BY <1>1, <1>3, <1>4 DEF Goes, f

-----------------------------------------------------------------------------
(* What the passes work on, and with *)

Found(ls, us) == [ls -> SUBSET us]

\* What is so of the tokens, the events and what the passes have found while
\* they go over them.
Kept ==
  /\ WellFormed(code)
  /\ phase \in {"scan", "behind", "live", "ways", "run"}
  /\ i \in (IF phase = "scan" THEN 1..Len(code) ELSE LinesOf(code))
  /\ changed \in BOOLEAN
  /\ used \in SUBSET Int
  /\ falling \in SUBSET used
  /\ jumped \in Found(LinesOf(code), used) /\ stores \in Found(LinesOf(code), used)
  /\ budgets \in Found(LinesOf(code), used) /\ falls \in [LinesOf(code) -> BOOLEAN]
  /\ liveIn \in Found(LinesOf(code), used) /\ liveAtBudget \in Found(LinesOf(code), used)
  /\ \A B, E : Shape(code, B, E) =>
       /\ phase = "scan" => blocks = B[i] /\ Scanned(code, events, used, B, E, i - 1)
       /\ phase # "scan" => Scanned(code, events, used, B, E, Len(code))

LEMMA LinesAre == Lines = LinesOf(code) /\ LastLine = code[Len(code)].line
BY DEF Lines, LastLine, LinesOf

LEMMA KeptText ==
  ASSUME Kept
  PROVE  /\ LinesFollow(code) /\ StatementsAreWhole(code) /\ LabelsStartBlocks(code)
         /\ CasesLeadIn(code) /\ LeavesAtTheEnd(code)
         /\ Len(code) \in Nat \ {0} /\ LastLine \in Nat \ {0} /\ Lines = LinesOf(code)
<1>1. LinesFollow(code)
  BY DEF Kept, WellFormed
<1>2. Len(code) \in Nat \ {0} /\ Len(code) \in 1..Len(code)
  BY <1>1, TextIs
<1>3. code[Len(code)].line \in Nat \ {0}
  BY <1>1, <1>2, TextIs
<1> QED BY <1>1, <1>2, <1>3, LinesAre DEF Kept, WellFormed

\* Once scanned, the events are those of the tokens, and gotos name labels.
LEMMA KeptEvents ==
  ASSUME Kept, phase # "scan"
  PROVE  Noticed(Lines, events, used) /\ GotosAre(Lines, events)
<1>1. PICK B, E : Shape(code, B, E)
  BY KeptText, ShapeExists
<1>2. Scanned(code, events, used, B, E, Len(code))
  BY <1>1 DEF Kept
<1>3. Noticed(Lines, events, used)
  BY <1>2, LinesAre DEF Scanned, Noticed
<1>4. ASSUME NEW l \in Lines, NEW n \in 1..Len(events[l]), events[l][n].e = "Goto"
      PROVE  LineOf(events[l][n].of) \in Lines
  <2>1. PICK p \in 1..Len(code) : code[p].line = l /\ n \in E[p] + 1..E[p] + Len(EventsOf(code[p]))
    BY <1>2, LinesAre DEF Scanned
  <2>2. E[p] \in Nat /\ Len(EventsOf(code[p])) \in 0..2 /\ Noted(code, events, B, E, p)
    <3>1. E \in [1..Len(code) -> Nat]
      BY <1>1 DEF Shape
    <3> QED BY <1>2, <3>1, EventsOfType DEF Scanned
  <2>3. n - E[p] \in 1..Len(EventsOf(code[p])) /\ E[p] + (n - E[p]) = n /\ n - E[p] \in {1, 2}
    <3> DEFINE a == E[p]
               b == Len(EventsOf(code[p]))
    <3>1. a \in Nat /\ b \in 0..2 /\ n \in a + 1..a + b
      BY <2>1, <2>2
    <3> HIDE DEF a, b
    <3>2. n - a \in 1..b /\ a + (n - a) = n /\ n - a \in {1, 2}
      BY <3>1
    <3> QED BY <3>2 DEF a, b
  <2>4. events[l][n] = EventAt(code, B, p, n - E[p])
    BY <2>1, <2>2, <2>3 DEF Noted
  <2>5. EventsOf(code[p])[n - E[p]] = "Goto" /\ events[l][n].of = code[p].of
    BY <1>4, <2>4 DEF EventAt
  <2>6. code[p].t = "Goto"
    BY <2>3, <2>5 DEF EventsOf
  <2>7. code[p].of \in Labels(code)
    BY <2>6, KeptText DEF LabelsStartBlocks
  <2>8. PICK q \in 1..Len(code) : code[q].t = "Label" /\ code[q].of = code[p].of
    <3>1. code \in Seq([t : STRING, of : Int, line : Nat \ {0}]) /\ DOMAIN code = 1..Len(code)
      BY KeptText, TextIs
    <3>2. ToSet(code) = {code[q] : q \in 1..Len(code)}
      BY <3>1 DEF ToSet
    <3> QED BY <2>7, <3>2 DEF Labels
  <2>9. Place(code, code[p].of) \in 1..Len(code)
    BY <2>8 DEF Place
  <2>10. LineOf(code[p].of) \in Lines
    BY <2>9, KeptText, LineIn DEF LineOf
  <2> QED BY <2>5, <2>10
<1> QED BY <1>3, <1>4 DEF GotosAre

\* Running leaves all of it as it is.
LEMMA StepLeaves ==
  ASSUME Step
  PROVE  phase = "run" /\ UNCHANGED <<code, phase, analysis, ways>>
BY DEF Step, Run, Access, Pass, Else, Taken, NotTaken, Goto, Fits, OutOfBudget, SyncOut, SyncIn, Exited,
       ReturnedElsewhere, Return, DispatchTo, Enter

LEMMA KeptFirst == Init => Kept
<1> SUFFICES ASSUME Init PROVE Kept
  OBVIOUS
<1>1. WellFormed(code)
  BY LocalsAssumption DEF Init
<1>2. LinesFollow(code)
  BY <1>1 DEF WellFormed
<1>3. Len(code) \in Nat \ {0}
  BY <1>2, TextIs
<1>4. ASSUME NEW B, NEW E, Shape(code, B, E)
      PROVE  blocks = B[1] /\ Scanned(code, events, used, B, E, 0)
  <2>1. blocks = B[1]
    BY <1>4 DEF Init, Shape, Whole
  <2>2. events = [l \in LinesOf(code) |-> <<>>] /\ used = {}
    BY LinesAre DEF Init
  <2>3. events \in [LinesOf(code) -> Seq(Event)] /\ \A l \in LinesOf(code) : Len(events[l]) = 0
    BY <2>2
  <2>4. 1..0 = {}
    OBVIOUS
  <2> QED BY <2>1, <2>2, <2>3, <2>4 DEF Scanned
<1>5. used = {} /\ i = 1 /\ phase = "scan" /\ changed = FALSE /\ falling = {}
  BY DEF Init
<1>6. /\ jumped \in Found(LinesOf(code), used) /\ stores \in Found(LinesOf(code), used)
      /\ budgets \in Found(LinesOf(code), used) /\ falls \in [LinesOf(code) -> BOOLEAN]
      /\ liveIn \in Found(LinesOf(code), used) /\ liveAtBudget \in Found(LinesOf(code), used)
  BY LinesAre DEF Init, Found
<1>7. \A B, E : Shape(code, B, E) =>
        /\ phase = "scan" => blocks = B[i] /\ Scanned(code, events, used, B, E, i - 1)
        /\ phase # "scan" => Scanned(code, events, used, B, E, Len(code))
  <2>1. i - 1 = 0
    BY <1>5
  <2> QED BY <1>4, <1>5, <2>1
<1>8. i \in (IF phase = "scan" THEN 1..Len(code) ELSE LinesOf(code))
  BY <1>3, <1>5
<1>9. used \in SUBSET Int /\ falling \in SUBSET used /\ changed \in BOOLEAN
      /\ phase \in {"scan", "behind", "live", "ways", "run"}
  BY <1>5
<1> QED BY <1>1, <1>6, <1>7, <1>8, <1>9 DEF Kept

LEMMA KeptScan == Kept /\ Scan => Kept'
<1> SUFFICES ASSUME Kept, Scan PROVE Kept'
  OBVIOUS
<1> DEFINE k == code[i]
           new == [n \in 1..Len(EventsOf(k)) |-> [e |-> EventsOf(k)[n], of |-> k.of, guarded |-> Guarded(blocks)]]
<1>1. /\ phase = "scan" /\ i \in 1..Len(code) /\ code' = code
      /\ blocks' = After(blocks, k.t)
      /\ events' = [events EXCEPT ![k.line] = @ \o new]
      /\ used' = IF k.t \in Accesses THEN used \cup {k.of} ELSE used
      /\ UNCHANGED <<changed, forwards, backwards>>
  BY DEF Scan, Kept
<1>2. \/ i < Len(code) /\ i' = i + 1 /\ phase' = "scan"
      \/ i = Len(code) /\ i' = 1 /\ phase' = "behind"
  <2>1. Len(code) \in Nat
    BY KeptText
  <2> QED BY <1>1, <2>1 DEF Scan
<1>3. ASSUME NEW B, NEW E, Shape(code, B, E)
      PROVE  Scanned(code, events', used', B, E, i) /\ blocks' = B[i + 1]
  <2>1. blocks = B[i] /\ Scanned(code, events, used, B, E, i - 1)
    BY <1>1, <1>3 DEF Kept
  <2>2. new = [n \in 1..Len(EventsOf(k)) |-> EventAt(code, B, i, n)]
    BY <2>1 DEF EventAt
  <2>3. events' = [events EXCEPT ![code[i].line] = @ \o [n \in 1..Len(EventsOf(code[i])) |-> EventAt(code, B, i, n)]]
    BY <1>1, <2>2
  <2>4. Scanned(code, events', used', B, E, i)
    BY <1>1, <1>3, <2>1, <2>3, KeptText, ScanStep
  <2>5. blocks' = B[i + 1]
    BY <1>1, <1>3, <2>1 DEF Shape
  <2> QED BY <2>4, <2>5
<1>4. used \subseteq used' /\ used' \in SUBSET Int
  <2>1. k.of \in Int
    BY <1>1, KeptText, TextIs
  <2> QED BY <1>1, <2>1 DEF Kept
<1>5. Len(code) \in Nat \ {0} /\ 1 \in LinesOf(code)
  BY KeptText, LinesAre DEF LinesOf
<1>6. i' \in (IF phase' = "scan" THEN 1..Len(code) ELSE LinesOf(code))
  BY <1>1, <1>2, <1>5
<1>7. /\ falling' \in SUBSET used'
      /\ jumped' \in Found(LinesOf(code), used') /\ stores' \in Found(LinesOf(code), used')
      /\ budgets' \in Found(LinesOf(code), used') /\ falls' \in [LinesOf(code) -> BOOLEAN]
      /\ liveIn' \in Found(LinesOf(code), used') /\ liveAtBudget' \in Found(LinesOf(code), used')
  BY <1>1, <1>4 DEF forwards, backwards, Found, Kept
<1>8. \A B, E : Shape(code', B, E) =>
        /\ phase' = "scan" => blocks' = B[i'] /\ Scanned(code', events', used', B, E, i' - 1)
        /\ phase' # "scan" => Scanned(code', events', used', B, E, Len(code'))
  <2>1. i \in Nat /\ (i + 1) - 1 = i
    BY <1>1
  <2> QED BY <1>1, <1>2, <1>3, <2>1
<1>9. phase' \in {"scan", "behind"} /\ changed' \in BOOLEAN /\ WellFormed(code')
  BY <1>1, <1>2 DEF Kept
<1> QED BY <1>1, <1>4, <1>6, <1>7, <1>8, <1>9 DEF Kept

\* What a line of a forward round brings and stores: what the context is behind
\* on at its jumps, its syncs and its check.
BringsOf(ns) == UNION {BehindAt(i, n, falling \cup jumped[i]) : n \in ns}
EventsWith(kinds) == {n \in Reached(i) : events[i][n].e \in kinds}
JumpsBring == [l \in Lines |-> BringsOf({n \in EventsWith({"Goto"}) : LineOf(events[i][n].of) = l})]

LEMMA BehindDoes ==
  ASSUME Behind
  PROVE  /\ phase = "behind" /\ UNCHANGED <<code, scanning, liveIn, ways, running>>
         /\ jumped' = [l \in Lines |-> jumped[l] \cup JumpsBring[l]]
         /\ stores' = [stores EXCEPT ![i] = BringsOf(EventsWith({"Sync", "Leave", "Dispatch"}))]
         /\ budgets' = [budgets EXCEPT ![i] = BringsOf(EventsWith({"Budget"}))]
         /\ falls' = [falls EXCEPT ![i] = Ending(i) = {}]
         /\ falling' = IF Ending(i) # {} \/ i = LastLine THEN {}
                       ELSE BehindAt(i, Len(events[i]) + 1, falling \cup jumped[i])
         /\ changed' = ((changed \/ Brought(JumpsBring)) /\ i < LastLine)
         /\ \/ i < LastLine /\ i' = i + 1 /\ UNCHANGED <<phase, liveAtBudget>>
            \/ i = LastLine /\ (changed \/ Brought(JumpsBring)) /\ i' = 1 /\ UNCHANGED <<phase, liveAtBudget>>
            \/ /\ ~(i < LastLine) /\ ~(i = LastLine /\ (changed \/ Brought(JumpsBring)))
               /\ i' = i /\ phase' = "live" /\ liveAtBudget' = [l \in Lines |-> used]
BY DEF Behind, BringsOf, EventsWith, JumpsBring

LEMMA BringsType ==
  ASSUME Kept, phase = "behind", NEW ns, ns \subseteq Reached(i)
  PROVE  BringsOf(ns) \in SUBSET used
<1>1. Noticed(Lines, events, used) /\ i \in Lines
  BY KeptEvents, LinesAre DEF Kept
<1>2. falling \cup jumped[i] \in SUBSET used
  BY <1>1, LinesAre DEF Kept, Found
<1>3. ASSUME NEW n \in ns
      PROVE  BehindAt(i, n, falling \cup jumped[i]) \in SUBSET used
  <2>1. n \in Runs(events, i)
    BY BehindsAre
  <2>2. n \in 1..Len(events[i]) /\ Len(events[i]) \in Nat
    BY <1>1, <2>1, RunsIs, NoticedIs
  <2>3. n \in 1..Len(events[i]) + 1
    BY <2>2
  <2>4. Behinds(events, i, n, falling \cup jumped[i]) \in SUBSET used
    BY <1>1, <1>2, <2>3, BehindsType
  <2> QED BY <2>4, BehindsAre
<1> QED BY <1>3 DEF BringsOf

LEMMA KeptBehind == Kept /\ Behind => Kept'
<1> SUFFICES ASSUME Kept, Behind PROVE Kept'
  OBVIOUS
<1>1. /\ phase = "behind" /\ i \in LinesOf(code) /\ code' = code /\ used' = used
      /\ UNCHANGED <<scanning, liveIn>>
  BY BehindDoes DEF Kept, scanning
<1>2. Noticed(Lines, events, used) /\ Lines = LinesOf(code) /\ LastLine \in Nat \ {0} /\ LinesOf(code) = 1..LastLine
  BY <1>1, KeptEvents, KeptText, LinesAre DEF Lines
<1>3. \A l \in LinesOf(code) : JumpsBring[l] \in SUBSET used
  <2> TAKE l \in LinesOf(code)
  <2>1. {n \in EventsWith({"Goto"}) : LineOf(events[i][n].of) = l} \subseteq Reached(i)
    BY DEF EventsWith
  <2>2. BringsOf({n \in EventsWith({"Goto"}) : LineOf(events[i][n].of) = l}) \in SUBSET used
    BY <1>1, <2>1, BringsType
  <2> QED BY <1>2, <2>2 DEF JumpsBring
<1>4. jumped' \in Found(LinesOf(code), used)
  <2>1. jumped \in [LinesOf(code) -> SUBSET used]
    BY DEF Kept, Found
  <2>2. \A l \in LinesOf(code) : jumped[l] \cup JumpsBring[l] \in SUBSET used
    BY <1>3, <2>1
  <2>3. jumped' = [l \in LinesOf(code) |-> jumped[l] \cup JumpsBring[l]]
    BY <1>2, BehindDoes
  <2> QED BY <2>2, <2>3 DEF Found
<1>5. \A kinds : BringsOf(EventsWith(kinds)) \in SUBSET used
  <2> TAKE kinds
  <2>1. EventsWith(kinds) \subseteq Reached(i)
    BY DEF EventsWith
  <2> QED BY <1>1, <2>1, BringsType
<1>6. stores' \in Found(LinesOf(code), used) /\ budgets' \in Found(LinesOf(code), used)
  BY <1>5, BehindDoes DEF Kept, Found
<1>7. falls' \in [LinesOf(code) -> BOOLEAN]
  BY BehindDoes DEF Kept
<1>8. falling' \in SUBSET used
  <2>1. falling \cup jumped[i] \in SUBSET used
    BY <1>1 DEF Kept, Found
  <2>2. Len(events[i]) + 1 \in 1..Len(events[i]) + 1
    BY <1>1, <1>2, NoticedIs
  <2>3. Behinds(events, i, Len(events[i]) + 1, falling \cup jumped[i]) \in SUBSET used
    BY <1>1, <1>2, <2>1, <2>2, BehindsType
  <2> QED BY <2>3, BehindDoes, BehindsAre
<1>9. phase' \in {"behind", "live"} /\ i' \in LinesOf(code)
  BY <1>1, <1>2, BehindDoes
<1>10. changed' \in BOOLEAN
  BY BehindDoes DEF Kept
<1>11. liveIn' \in Found(LinesOf(code), used) /\ liveAtBudget' \in Found(LinesOf(code), used)
  <2>1. liveAtBudget' = liveAtBudget \/ liveAtBudget' = [l \in LinesOf(code) |-> used]
    BY <1>2, BehindDoes
  <2> QED BY <1>1, <2>1 DEF Kept, Found
<1>12. \A B, E : Shape(code', B, E) => Scanned(code', events', used', B, E, Len(code'))
  BY <1>1 DEF Kept, scanning
<1> QED BY <1>1, <1>4, <1>6, <1>7, <1>8, <1>9, <1>10, <1>11, <1>12 DEF Kept

\* What a line of a backward round makes of it.
PastLine == IF falls[i] /\ i < LastLine THEN liveIn[i + 1] ELSE {}
ReadFrom == LiveFrom(i, PastLine)
ChecksOf == {n \in 1..Len(events[i]) : events[i][n].e = "Budget"}

LEMMA LiveDoes ==
  ASSUME Live
  PROVE  /\ phase = "live" /\ UNCHANGED <<code, scanning, forwards, ways, running>>
         /\ liveIn' = [liveIn EXCEPT ![i] = @ \cup ReadFrom[1]]
         /\ liveAtBudget' = [liveAtBudget EXCEPT ![i] = IF ChecksOf = {} THEN @ ELSE ReadFrom[Min(ChecksOf) + 1]]
         /\ changed' = ((changed \/ ~(ReadFrom[1] \subseteq liveIn[i])) /\ i > 1)
         /\ \/ i > 1 /\ i' = i - 1 /\ UNCHANGED phase
            \/ i = 1 /\ (changed \/ ~(ReadFrom[1] \subseteq liveIn[i])) /\ i' = LastLine /\ UNCHANGED phase
            \/ /\ ~(i > 1) /\ ~(i = 1 /\ (changed \/ ~(ReadFrom[1] \subseteq liveIn[i])))
               /\ i' = i /\ phase' = "ways"
BY DEF Live, PastLine, ReadFrom, ChecksOf

LEMMA LiveGoes ==
  ASSUME Kept, phase = "live"
  PROVE  /\ Goes(code, events, used, liveIn, i, ReadFrom) /\ ReadFrom[Len(events[i]) + 1] = PastLine
         /\ ReadFrom \in [1..Len(events[i]) + 1 -> SUBSET used] /\ Len(events[i]) \in Nat
<1>1. Noticed(Lines, events, used) /\ GotosAre(Lines, events) /\ i \in Lines /\ liveIn \in [Lines -> SUBSET used]
      /\ Lines = 1..LastLine /\ LastLine \in Nat
  BY KeptEvents, KeptText, LinesAre DEF Kept, Found, Lines
<1>2. PastLine \in SUBSET used
  BY <1>1 DEF PastLine
<1>3. Goes(code, events, used, liveIn, i, ReadFrom) /\ ReadFrom[Len(events[i]) + 1] = PastLine
  BY <1>1, <1>2, LiveFromGoes DEF ReadFrom
<1> QED BY <1>1, <1>3, NoticedIs DEF Goes

\* The check of the budget of a line.
LEMMA ChecksAre ==
  ASSUME Kept, phase = "live", ChecksOf # {}
  PROVE  /\ Min(ChecksOf) \in 1..Len(events[i]) /\ events[i][Min(ChecksOf)].e = "Budget"
         /\ \A n \in 1..Len(events[i]) : events[i][n].e = "Budget" => Min(ChecksOf) <= n
<1>1. ChecksOf \in SUBSET Nat
  BY DEF ChecksOf
<1>2. Min(ChecksOf) \in ChecksOf /\ \A y \in ChecksOf : Min(ChecksOf) <= y
  BY <1>1, MinIs
<1> QED BY <1>2 DEF ChecksOf

LEMMA KeptLive == Kept /\ Live => Kept'
<1> SUFFICES ASSUME Kept, Live PROVE Kept'
  OBVIOUS
<1>1. /\ phase = "live" /\ i \in LinesOf(code) /\ code' = code /\ used' = used
      /\ UNCHANGED <<scanning, forwards>>
  BY LiveDoes DEF Kept, scanning
<1>2. LastLine \in Nat \ {0} /\ LinesOf(code) = 1..LastLine
  BY KeptText, LinesAre DEF Lines
<1>3. \A n \in 1..Len(events[i]) + 1 : ReadFrom[n] \in SUBSET used
  BY <1>1, LiveGoes
<1>4. liveIn' \in Found(LinesOf(code), used)
  <2>1. ReadFrom[1] \in SUBSET used
    BY <1>1, <1>3, LiveGoes
  <2>2. liveIn \in [LinesOf(code) -> SUBSET used]
    BY DEF Kept, Found
  <2>3. liveIn[i] \cup ReadFrom[1] \in SUBSET used
    BY <1>1, <2>1, <2>2
  <2>4. liveIn' = [liveIn EXCEPT ![i] = liveIn[i] \cup ReadFrom[1]]
    BY <1>1, <2>2, LiveDoes
  <2> QED BY <1>1, <2>2, <2>3, <2>4 DEF Found
<1>5. liveAtBudget' \in Found(LinesOf(code), used)
  <2>1. ChecksOf # {} => ReadFrom[Min(ChecksOf) + 1] \in SUBSET used
    <3>1. ChecksOf # {} => Min(ChecksOf) + 1 \in 1..Len(events[i]) + 1
      BY <1>1, ChecksAre, LiveGoes
    <3> QED BY <1>3, <3>1
  <2>2. (IF ChecksOf = {} THEN liveAtBudget[i] ELSE ReadFrom[Min(ChecksOf) + 1]) \in SUBSET used
    BY <1>1, <2>1 DEF Kept, Found
  <2> QED BY <1>1, <2>2, LiveDoes DEF Kept, Found
<1>6. phase' \in {"live", "ways"} /\ i' \in LinesOf(code)
  BY <1>1, <1>2, LiveDoes
<1>7. changed' \in BOOLEAN
  BY <1>1, <1>2, LiveDoes DEF Kept
<1>8. \A B, E : Shape(code', B, E) => Scanned(code', events', used', B, E, Len(code'))
  BY <1>1 DEF Kept, scanning
<1>9. /\ falling' \in SUBSET used' /\ jumped' \in Found(LinesOf(code), used') /\ stores' \in Found(LinesOf(code), used')
      /\ budgets' \in Found(LinesOf(code), used') /\ falls' \in [LinesOf(code) -> BOOLEAN]
  BY <1>1 DEF Kept, forwards
<1>10. WellFormed(code') /\ used' \in SUBSET Int
  BY <1>1 DEF Kept
<1> QED BY <1>1, <1>4, <1>5, <1>6, <1>7, <1>8, <1>9, <1>10 DEF Kept

LEMMA KeptRest == Kept /\ (Ways \/ Step \/ UNCHANGED vars) => Kept'
<1> SUFFICES ASSUME Kept, Ways \/ Step \/ UNCHANGED vars PROVE Kept'
  OBVIOUS
<1>1. UNCHANGED <<code, analysis>>
      /\ (phase' = phase \/ (phase = "ways" /\ phase' = "run"))
  BY StepLeaves DEF Ways, vars
<1>2. UNCHANGED <<code, i, changed, used, events, blocks, falling, jumped, stores, budgets, falls, liveIn, liveAtBudget>>
  BY <1>1 DEF analysis, scanning, forwards, backwards
<1>3. CASE phase' = phase
  BY <1>2, <1>3 DEF Kept
<1>4. CASE phase = "ways" /\ phase' = "run"
  BY <1>2, <1>4 DEF Kept
<1> QED BY <1>1, <1>3, <1>4

LEMMA KeptNext == Kept /\ [Next]_vars => Kept'
BY KeptScan, KeptBehind, KeptLive, KeptRest DEF Next, Keep

-----------------------------------------------------------------------------
(* What a round that finds nothing new has found *)

\* What the context is behind on at the start of each of the first m lines, and
\* so at each of their events, is stored where it is looked at, brought where
\* the line jumps, and brought to the next line.
Forward(c, ev, j, st, bu, fa, En, m) ==
  \A l \in 1..m :
    /\ j[l] \subseteq En[l]
    /\ fa[l] = (Ended(ev, l) = {})
    /\ \A n \in Runs(ev, l) :
         /\ ev[l][n].e = "Goto" => Behinds(ev, l, n, En[l]) \subseteq j[c[Place(c, ev[l][n].of)].line]
         /\ ev[l][n].e \in {"Sync", "Leave", "Dispatch"} => Behinds(ev, l, n, En[l]) \subseteq st[l]
         /\ ev[l][n].e = "Budget" => Behinds(ev, l, n, En[l]) \subseteq bu[l]
    /\ l < m /\ Ended(ev, l) = {} => Behinds(ev, l, Len(ev[l]) + 1, En[l]) \subseteq En[l + 1]

\* What may be read from each event of a line on goes back to where the line
\* starts, and is what the check of the budget has.
BackwardBy(c, ev, us, lin, lab, fa, l, f) ==
  /\ Goes(c, ev, us, lin, l, f)
  /\ f[1] \subseteq lin[l]
  /\ fa[l] /\ l < c[Len(c)].line => lin[l + 1] \subseteq f[Len(ev[l]) + 1]
  /\ \A n \in 1..Len(ev[l]) :
       ev[l][n].e = "Budget" /\ (\A m \in 1..n - 1 : ev[l][m].e # "Budget") => f[n + 1] \subseteq lab[l]
Backward(c, ev, us, lin, lab, fa, l) == \E f : BackwardBy(c, ev, us, lin, lab, fa, l, f)

Falling(ev, En, l, brings) == Ended(ev, l) = {} => Behinds(ev, l, Len(ev[l]) + 1, En[l]) \subseteq brings

Passed ==
  /\ phase = "behind" /\ ~changed =>
       \E En \in Found(LinesOf(code), used) :
         /\ Forward(code, events, jumped, stores, budgets, falls, En, i - 1)
         /\ i > 1 => Falling(events, En, i - 1, falling)
  /\ phase \in {"live", "ways", "run"} =>
       \E En \in Found(LinesOf(code), used) :
         Forward(code, events, jumped, stores, budgets, falls, En, code[Len(code)].line)
  /\ phase = "live" /\ ~changed =>
       \A l \in i + 1..code[Len(code)].line : Backward(code, events, used, liveIn, liveAtBudget, falls, l)
  /\ phase \in {"ways", "run"} =>
       \A l \in LinesOf(code) : Backward(code, events, used, liveIn, liveAtBudget, falls, l)
  /\ phase = "run" =>
       \A l \in LinesOf(code) : (\E n \in 1..Len(events[l]) : events[l][n].e = "Budget") =>
         (budgets[l] \cap liveAtBudget[l]) \ {R15} \subseteq ways[l]

\* A line of a forward round in which no jump brings anything new.
LEMMA ForwardStep ==
  ASSUME Kept, Behind, ~(changed \/ Brought(JumpsBring)),
         NEW En \in Found(LinesOf(code), used),
         Forward(code, events, jumped, stores, budgets, falls, En, i - 1),
         i > 1 => Falling(events, En, i - 1, falling)
  PROVE  \E En2 \in Found(LinesOf(code), used) :
           /\ Forward(code, events, jumped', stores', budgets', falls', En2, i)
           /\ i < LastLine => Falling(events, En2, i, falling')
<1> DEFINE entry == falling \cup jumped[i]
           En2 == [En EXCEPT ![i] = entry]
<1>1. /\ phase = "behind" /\ i \in LinesOf(code) /\ Lines = LinesOf(code) /\ LinesOf(code) = 1..LastLine
      /\ LastLine \in Nat \ {0} /\ i \in Nat \ {0}
  <2>1. phase = "behind" /\ i \in LinesOf(code)
    BY BehindDoes DEF Kept
  <2>2. Lines = LinesOf(code) /\ LinesOf(code) = 1..LastLine /\ LastLine \in Nat \ {0}
    BY KeptText, LinesAre DEF Lines
  <2> QED BY <2>1, <2>2
<1>2. jumped \in [LinesOf(code) -> SUBSET used] /\ En \in [LinesOf(code) -> SUBSET used]
  BY DEF Kept, Found
<1>3. entry \in SUBSET used
  BY <1>1, <1>2 DEF Kept
<1>4. En2 \in [LinesOf(code) -> SUBSET used] /\ En2[i] = entry /\ \A l \in LinesOf(code) : l # i => En2[l] = En[l]
  BY <1>1, <1>2, <1>3
<1>5. \A l \in LinesOf(code) : jumped'[l] = jumped[l] \cup JumpsBring[l] /\ JumpsBring[l] \subseteq jumped[l]
  BY <1>1, BehindDoes DEF Brought
<1>6. /\ stores'[i] = BringsOf(EventsWith({"Sync", "Leave", "Dispatch"}))
      /\ budgets'[i] = BringsOf(EventsWith({"Budget"}))
      /\ falls'[i] = (Ending(i) = {})
      /\ \A l \in LinesOf(code) : l # i => stores'[l] = stores[l] /\ budgets'[l] = budgets[l] /\ falls'[l] = falls[l]
  BY <1>1, BehindDoes DEF Kept, Found
<1>a. \A l \in LinesOf(code) : jumped'[l] = jumped[l]
  BY <1>5
<1> HIDE DEF entry, En2
<1>7. ASSUME NEW ns, NEW n \in ns
      PROVE  Behinds(events, i, n, En2[i]) \subseteq BringsOf(ns)
  BY <1>4, BehindsAre DEF BringsOf, entry
<1>8. Noticed(Lines, events, used) /\ GotosAre(Lines, events)
  BY <1>1, KeptEvents
<1>9. Forward(code, events, jumped', stores', budgets', falls', En2, i)
  <2> SUFFICES ASSUME NEW l \in 1..i
               PROVE  /\ jumped'[l] \subseteq En2[l]
                      /\ falls'[l] = (Ended(events, l) = {})
                      /\ \A n \in Runs(events, l) :
                           /\ events[l][n].e = "Goto" =>
                                Behinds(events, l, n, En2[l]) \subseteq jumped'[code[Place(code, events[l][n].of)].line]
                           /\ events[l][n].e \in {"Sync", "Leave", "Dispatch"} =>
                                Behinds(events, l, n, En2[l]) \subseteq stores'[l]
                           /\ events[l][n].e = "Budget" => Behinds(events, l, n, En2[l]) \subseteq budgets'[l]
                      /\ l < i /\ Ended(events, l) = {} =>
                           Behinds(events, l, Len(events[l]) + 1, En2[l]) \subseteq En2[l + 1]
    BY DEF Forward
  <2>1. l \in LinesOf(code)
    BY <1>1
  <2>2. ASSUME NEW n \in Runs(events, l), events[l][n].e = "Goto"
        PROVE  code[Place(code, events[l][n].of)].line \in LinesOf(code)
    <3>1. n \in 1..Len(events[l])
      BY <1>1, <1>8, <2>1, RunsIs
    <3> QED BY <1>1, <1>8, <2>1, <2>2, <3>1 DEF GotosAre, LineOf
  <2>3. CASE l = i
    <3>1. jumped'[l] \subseteq En2[l]
      BY <1>4, <1>5, <2>1, <2>3 DEF entry
    <3>2. falls'[l] = (Ended(events, l) = {})
      BY <1>6, <2>3, BehindsAre
    <3>3. ASSUME NEW n \in Runs(events, l)
          PROVE  /\ events[l][n].e = "Goto" =>
                      Behinds(events, l, n, En2[l]) \subseteq jumped'[code[Place(code, events[l][n].of)].line]
                 /\ events[l][n].e \in {"Sync", "Leave", "Dispatch"} =>
                      Behinds(events, l, n, En2[l]) \subseteq stores'[l]
                 /\ events[l][n].e = "Budget" => Behinds(events, l, n, En2[l]) \subseteq budgets'[l]
      <4>1. n \in Reached(i)
        BY <2>3, BehindsAre
      <4>2. \A kinds : events[l][n].e \in kinds => n \in EventsWith(kinds)
        BY <2>3, <4>1 DEF EventsWith
      <4>3. ASSUME events[l][n].e = "Goto"
            PROVE  Behinds(events, l, n, En2[l]) \subseteq jumped'[code[Place(code, events[l][n].of)].line]
        <5> DEFINE m == LineOf(events[i][n].of)
                   ns == {k \in EventsWith({"Goto"}) : LineOf(events[i][k].of) = m}
        <5>1. m \in LinesOf(code) /\ m = code[Place(code, events[l][n].of)].line
          BY <2>2, <2>3, <4>3 DEF LineOf
        <5>2. n \in ns
          BY <4>2, <4>3
        <5>3. JumpsBring[m] = BringsOf(ns)
          BY <1>1, <5>1 DEF JumpsBring
        <5> HIDE DEF m, ns
        <5>4. Behinds(events, i, n, En2[i]) \subseteq BringsOf(ns)
          BY <1>7, <5>2
        <5> QED BY <1>5, <2>3, <5>1, <5>3, <5>4
      <4>4. events[l][n].e \in {"Sync", "Leave", "Dispatch"} => Behinds(events, l, n, En2[l]) \subseteq stores'[l]
        BY <1>6, <1>7, <2>3, <4>2
      <4>5. events[l][n].e = "Budget" => Behinds(events, l, n, En2[l]) \subseteq budgets'[l]
        BY <1>6, <1>7, <2>3, <4>2
      <4> QED BY <4>3, <4>4, <4>5
    <3> QED BY <2>3, <3>1, <3>2, <3>3
  <2>4. CASE l # i
    <3>1. l \in 1..i - 1
      BY <1>1, <2>4
    <3>2. En2[l] = En[l] /\ stores'[l] = stores[l] /\ budgets'[l] = budgets[l] /\ falls'[l] = falls[l]
          /\ jumped'[l] = jumped[l]
      BY <1>4, <1>5, <1>6, <2>1, <2>4
    <3>3. /\ jumped[l] \subseteq En[l]
          /\ falls[l] = (Ended(events, l) = {})
          /\ \A n \in Runs(events, l) :
               /\ events[l][n].e = "Goto" =>
                    Behinds(events, l, n, En[l]) \subseteq jumped[code[Place(code, events[l][n].of)].line]
               /\ events[l][n].e \in {"Sync", "Leave", "Dispatch"} => Behinds(events, l, n, En[l]) \subseteq stores[l]
               /\ events[l][n].e = "Budget" => Behinds(events, l, n, En[l]) \subseteq budgets[l]
          /\ l < i - 1 /\ Ended(events, l) = {} =>
               Behinds(events, l, Len(events[l]) + 1, En[l]) \subseteq En[l + 1]
      BY <3>1 DEF Forward
    <3>4. ASSUME NEW n \in Runs(events, l), events[l][n].e = "Goto"
          PROVE  Behinds(events, l, n, En2[l]) \subseteq jumped'[code[Place(code, events[l][n].of)].line]
      <4>1. jumped'[code[Place(code, events[l][n].of)].line] = jumped[code[Place(code, events[l][n].of)].line]
        BY <1>a, <2>2, <3>4
      <4> QED BY <3>2, <3>3, <3>4, <4>1
    <3>5. l < i /\ Ended(events, l) = {} => Behinds(events, l, Len(events[l]) + 1, En2[l]) \subseteq En2[l + 1]
      <4>1. CASE l < i - 1
        <5>1. l + 1 \in LinesOf(code) /\ l + 1 # i
          BY <1>1, <2>1, <3>1, <4>1
        <5>2. En2[l + 1] = En[l + 1]
          BY <1>4, <5>1
        <5> QED BY <3>2, <3>3, <4>1, <5>2
      <4>2. CASE ~(l < i - 1)
        <5>1. l = i - 1 /\ i > 1 /\ l + 1 = i
          BY <1>1, <3>1, <4>2
        <5>2. Falling(events, En, i - 1, falling)
          BY <5>1
        <5>3. Ended(events, l) = {} => Behinds(events, l, Len(events[l]) + 1, En[l]) \subseteq falling
          BY <5>1, <5>2 DEF Falling
        <5>4. En2[l + 1] = entry
          BY <1>4, <5>1
        <5> QED BY <3>2, <5>3, <5>4 DEF entry
      <4> QED BY <4>1, <4>2
    <3> QED BY <3>2, <3>3, <3>4, <3>5
  <2> QED BY <2>3, <2>4
<1>10. i < LastLine => Falling(events, En2, i, falling')
  <2> SUFFICES ASSUME i < LastLine, Ended(events, i) = {}
               PROVE  Behinds(events, i, Len(events[i]) + 1, En2[i]) \subseteq falling'
    BY DEF Falling
  <2>1. Ending(i) = {} /\ i # LastLine
    BY <1>1, BehindsAre
  <2>2. falling' = BehindAt(i, Len(events[i]) + 1, entry)
    BY <2>1, BehindDoes DEF entry
  <2> QED BY <1>4, <2>2, BehindsAre
<1> QED BY <1>4, <1>9, <1>10 DEF Found

\* A line of a backward round that finds nothing new from its start on.
LEMMA BackwardStep ==
  ASSUME Kept, Live, ReadFrom[1] \subseteq liveIn[i],
         \A l \in i + 1..LastLine : Backward(code, events, used, liveIn, liveAtBudget, falls, l)
  PROVE  \A l \in i..LastLine : Backward(code, events, used, liveIn', liveAtBudget', falls, l)
<1>1. /\ phase = "live" /\ i \in LinesOf(code) /\ LinesOf(code) = 1..LastLine /\ LastLine \in Nat \ {0}
      /\ LastLine = code[Len(code)].line
  BY LiveDoes, KeptText, LinesAre DEF Kept, Lines
<1>2. liveIn' = liveIn
  <2>1. liveIn \in [LinesOf(code) -> SUBSET used]
    BY DEF Kept, Found
  <2>2. liveIn' = [liveIn EXCEPT ![i] = @ \cup ReadFrom[1]]
    BY LiveDoes
  <2>3. liveIn[i] \cup ReadFrom[1] = liveIn[i]
    OBVIOUS
  <2> QED BY <1>1, <2>1, <2>2, <2>3
<1>3. /\ liveAtBudget'[i] = IF ChecksOf = {} THEN liveAtBudget[i] ELSE ReadFrom[Min(ChecksOf) + 1]
      /\ \A l \in LinesOf(code) : l # i => liveAtBudget'[l] = liveAtBudget[l]
  BY <1>1, LiveDoes DEF Kept, Found
<1>4. ASSUME NEW l \in i + 1..LastLine
      PROVE  Backward(code, events, used, liveIn', liveAtBudget', falls, l)
  <2>1. liveAtBudget'[l] = liveAtBudget[l]
    BY <1>1, <1>3
  <2>2. Backward(code, events, used, liveIn, liveAtBudget, falls, l)
    OBVIOUS
  <2> QED BY <1>2, <2>1, <2>2 DEF Backward, BackwardBy
<1>5. Backward(code, events, used, liveIn', liveAtBudget', falls, i)
  <2>1. Goes(code, events, used, liveIn, i, ReadFrom) /\ ReadFrom[Len(events[i]) + 1] = PastLine
        /\ Len(events[i]) \in Nat
    BY <1>1, LiveGoes
  <2>2. falls[i] /\ i < code[Len(code)].line => liveIn[i + 1] \subseteq ReadFrom[Len(events[i]) + 1]
    BY <1>1, <2>1 DEF PastLine
  <2>3. ASSUME NEW n \in 1..Len(events[i]), events[i][n].e = "Budget",
               \A m \in 1..n - 1 : events[i][m].e # "Budget"
        PROVE  ReadFrom[n + 1] \subseteq liveAtBudget'[i]
    <3>1. ChecksOf # {}
      BY <2>3 DEF ChecksOf
    <3>2. Min(ChecksOf) \in 1..Len(events[i]) /\ events[i][Min(ChecksOf)].e = "Budget" /\ Min(ChecksOf) <= n
      BY <1>1, <2>3, <3>1, ChecksAre
    <3>3. Min(ChecksOf) \notin 1..n - 1
      BY <2>3, <3>2
    <3>4. Min(ChecksOf) = n
      BY <2>1, <3>2, <3>3
    <3> QED BY <1>3, <3>1, <3>4
  <2>4. ReadFrom[1] \subseteq liveIn[i]
    OBVIOUS
  <2> QED BY <1>2, <2>1, <2>2, <2>3, <2>4 DEF Backward, BackwardBy
<1>6. \A l \in i..LastLine : l = i \/ l \in i + 1..LastLine
  BY <1>1
<1> QED BY <1>4, <1>5, <1>6

LEMMA PassedScan == Kept /\ Passed /\ Scan => Passed'
<1> SUFFICES ASSUME Kept, Scan PROVE Passed'
  OBVIOUS
<1>1. Kept'
  BY KeptScan
<1>2. phase' \in {"scan", "behind"} /\ (phase' = "behind" => i' = 1)
  BY DEF Scan
<1>3. phase' = "behind" => Forward(code', events', jumped', stores', budgets', falls', jumped', i' - 1)
  <2>1. phase' = "behind" => i' = 1
    BY <1>2
  <2>2. 1..1 - 1 = {}
    OBVIOUS
  <2> QED BY <2>1, <2>2 DEF Forward
<1>4. jumped' \in Found(LinesOf(code'), used')
  BY <1>1 DEF Kept
<1>5. phase' = "behind" => \E En \in Found(LinesOf(code'), used') :
         /\ Forward(code', events', jumped', stores', budgets', falls', En, i' - 1)
         /\ i' > 1 => Falling(events', En, i' - 1, falling')
  BY <1>2, <1>3, <1>4
<1> QED BY <1>2, <1>5 DEF Passed

LEMMA PassedBehind == Kept /\ Passed /\ Behind => Passed'
<1> SUFFICES ASSUME Kept, Passed, Behind PROVE Passed'
  OBVIOUS
<1>1. /\ phase = "behind" /\ i \in LinesOf(code) /\ LinesOf(code) = 1..LastLine /\ LastLine \in Nat \ {0}
      /\ LastLine = code[Len(code)].line
  BY BehindDoes, KeptText, LinesAre DEF Kept, Lines
<1>2. code' = code /\ events' = events /\ used' = used
  BY BehindDoes DEF scanning
<1> DEFINE new == changed \/ Brought(JumpsBring)
<1>3. changed' = (new /\ i < LastLine)
  BY BehindDoes
<1>4. ASSUME ~new
      PROVE  \E En2 \in Found(LinesOf(code), used) :
               /\ Forward(code, events, jumped', stores', budgets', falls', En2, i)
               /\ i < LastLine => Falling(events, En2, i, falling')
  <2>1. ~changed
    BY <1>4
  <2>2. PICK En \in Found(LinesOf(code), used) :
          /\ Forward(code, events, jumped, stores, budgets, falls, En, i - 1)
          /\ i > 1 => Falling(events, En, i - 1, falling)
    BY <1>1, <2>1 DEF Passed
  <2> QED BY <1>4, <2>2, ForwardStep
<1>5. CASE i < LastLine /\ i' = i + 1 /\ UNCHANGED <<phase, liveAtBudget>>
  <2>1. (i + 1) - 1 = i
    BY <1>1
  <2>2. ASSUME ~changed'
        PROVE  \E En \in Found(LinesOf(code'), used') :
                 /\ Forward(code', events', jumped', stores', budgets', falls', En, i' - 1)
                 /\ i' > 1 => Falling(events', En, i' - 1, falling')
    <3>1. ~new
      BY <1>3, <1>5, <2>2
    <3>2. PICK En2 \in Found(LinesOf(code), used) :
               /\ Forward(code, events, jumped', stores', budgets', falls', En2, i)
               /\ Falling(events, En2, i, falling')
      BY <1>4, <1>5, <3>1
    <3> QED BY <1>2, <1>5, <2>1, <3>2
  <2> QED BY <1>1, <1>5, <2>2 DEF Passed
<1>6. CASE i = LastLine /\ new /\ i' = 1 /\ UNCHANGED <<phase, liveAtBudget>>
  <2>1. jumped' \in Found(LinesOf(code'), used')
    BY KeptBehind DEF Kept
  <2>2. Forward(code', events', jumped', stores', budgets', falls', jumped', i' - 1)
    <3>1. 1..1 - 1 = {}
      OBVIOUS
    <3> QED BY <1>6, <3>1 DEF Forward
  <2>3. ~(i' > 1)
    BY <1>6
  <2> QED BY <1>1, <1>6, <2>1, <2>2, <2>3 DEF Passed
<1>7. CASE /\ ~(i < LastLine) /\ ~(i = LastLine /\ new)
           /\ i' = i /\ phase' = "live" /\ liveAtBudget' = [l \in Lines |-> used]
  <2>1. i = LastLine /\ ~new
    BY <1>1, <1>7
  <2>2. \E En \in Found(LinesOf(code'), used') :
          Forward(code', events', jumped', stores', budgets', falls', En, code'[Len(code')].line)
    BY <1>1, <1>2, <1>4, <2>1
  <2>3. i' + 1..code'[Len(code')].line = {}
    BY <1>1, <1>2, <1>7, <2>1
  <2> QED BY <1>7, <2>2, <2>3 DEF Passed
<1> QED BY <1>5, <1>6, <1>7, BehindDoes

LEMMA PassedLive == Kept /\ Passed /\ Live => Passed'
<1> SUFFICES ASSUME Kept, Passed, Live PROVE Passed'
  OBVIOUS
<1>1. /\ phase = "live" /\ i \in LinesOf(code) /\ LinesOf(code) = 1..LastLine /\ LastLine \in Nat \ {0}
      /\ LastLine = code[Len(code)].line
  BY LiveDoes, KeptText, LinesAre DEF Kept, Lines
<1>2. /\ code' = code /\ events' = events /\ used' = used /\ falls' = falls
      /\ UNCHANGED <<jumped, stores, budgets>>
  BY LiveDoes DEF scanning, forwards
<1>3. \E En \in Found(LinesOf(code'), used') :
        Forward(code', events', jumped', stores', budgets', falls', En, code'[Len(code')].line)
  <2>1. PICK En \in Found(LinesOf(code), used) :
          Forward(code, events, jumped, stores, budgets, falls, En, code[Len(code)].line)
    BY <1>1 DEF Passed
  <2> QED BY <1>2, <2>1
<1> DEFINE new == changed \/ ~(ReadFrom[1] \subseteq liveIn[i])
<1>4. changed' = (new /\ i > 1)
  BY LiveDoes
<1>5. ASSUME ~new
      PROVE  \A l \in i..LastLine : Backward(code', events', used', liveIn', liveAtBudget', falls', l)
  <2>1. \A l \in i + 1..LastLine : Backward(code, events, used, liveIn, liveAtBudget, falls, l)
    BY <1>1, <1>5 DEF Passed
  <2>2. \A l \in i..LastLine : Backward(code, events, used, liveIn', liveAtBudget', falls, l)
    BY <1>5, <2>1, BackwardStep
  <2> QED BY <1>2, <2>2
<1>6. CASE i > 1 /\ i' = i - 1 /\ UNCHANGED phase
  <2>1. i' + 1 = i
    BY <1>1, <1>6
  <2>2. ~changed' => \A l \in i' + 1..code'[Len(code')].line :
                       Backward(code', events', used', liveIn', liveAtBudget', falls', l)
    BY <1>1, <1>2, <1>4, <1>5, <1>6, <2>1
  <2> QED BY <1>1, <1>3, <1>6, <2>2 DEF Passed
<1>7. CASE i = 1 /\ new /\ i' = LastLine /\ UNCHANGED phase
  <2>1. i' + 1..code'[Len(code')].line = {}
    BY <1>1, <1>2, <1>7
  <2> QED BY <1>1, <1>3, <1>7, <2>1 DEF Passed
<1>8. CASE ~(i > 1) /\ ~(i = 1 /\ new) /\ i' = i /\ phase' = "ways"
  <2>1. i = 1 /\ ~new
    BY <1>1, <1>8
  <2>2. \A l \in LinesOf(code') : Backward(code', events', used', liveIn', liveAtBudget', falls', l)
    BY <1>1, <1>2, <1>5, <2>1
  <2> QED BY <1>3, <1>8, <2>2 DEF Passed
<1> QED BY <1>6, <1>7, <1>8, LiveDoes

LEMMA PassedRest == Kept /\ Passed /\ (Ways \/ Step \/ UNCHANGED vars) => Passed'
<1> SUFFICES ASSUME Kept, Passed, Ways \/ Step \/ UNCHANGED vars PROVE Passed'
  OBVIOUS
<1>1. CASE Ways
  <2>1. UNCHANGED <<code, analysis>> /\ phase = "ways" /\ phase' = "run"
    BY <1>1 DEF Ways
  <2>2. UNCHANGED <<code, i, changed, used, events, falling, jumped, stores, budgets, falls, liveIn, liveAtBudget>>
    BY <2>1 DEF analysis, scanning, forwards, backwards
  <2> DEFINE sets == {Exit(l) : l \in Checks}
             common == {set \in sets : Cardinality({s \in sets : Sooner(s, set)}) < Exits}
  <2>3. ways' = [l \in Checks |-> IF Exit(l) \in common THEN Exit(l) ELSE UNION (sets \ common)]
    BY <1>1 DEF Ways
  <2>4. ASSUME NEW l \in Checks
        PROVE  Exit(l) \subseteq ways'[l]
    <3>1. Exit(l) \in sets
      OBVIOUS
    <3> HIDE DEF sets, common
    <3>2. CASE Exit(l) \in common
      BY <2>3, <3>2
    <3>3. CASE Exit(l) \notin common
      <4>1. Exit(l) \in sets \ common
        BY <3>1, <3>3
      <4> QED BY <2>3, <3>3, <4>1
    <3> QED BY <3>2, <3>3
  <2>5. \A l \in LinesOf(code) : (\E n \in 1..Len(events[l]) : events[l][n].e = "Budget") =>
          (budgets[l] \cap liveAtBudget[l]) \ {R15} \subseteq ways'[l]
    BY <2>4, LinesAre DEF Checks, Exit
  <2>6. \E En \in Found(LinesOf(code), used) :
          Forward(code, events, jumped, stores, budgets, falls, En, code[Len(code)].line)
    BY <2>1 DEF Passed
  <2>7. \A l \in LinesOf(code) : Backward(code, events, used, liveIn, liveAtBudget, falls, l)
    BY <2>1 DEF Passed
  <2> QED BY <2>1, <2>2, <2>5, <2>6, <2>7 DEF Passed
<1>2. CASE Step \/ UNCHANGED vars
  <2>1. UNCHANGED <<code, phase, analysis, ways>>
    BY <1>2, StepLeaves DEF vars
  <2>2. UNCHANGED <<code, phase, ways, i, changed, used, events, falling, jumped, stores, budgets, falls, liveIn, liveAtBudget>>
    BY <2>1 DEF analysis, scanning, forwards, backwards
  <2> QED BY <2>2 DEF Passed
<1> QED BY <1>1, <1>2

LEMMA PassedNext == Kept /\ Passed /\ [Next]_vars => Passed'
BY PassedScan, PassedBehind, PassedLive, PassedRest DEF Next, Keep

-----------------------------------------------------------------------------
(* What the passes say of each token *)

Leaving == {"Goto", "Return", "ReturnTo", "Jump", "GotoDispatch"}

\* Execution may come to a token: nothing before it in its line surely leaves.
Comes(c, B, p) == \A q \in 1..p - 1 : c[q].line = c[p].line /\ c[q].t \in Leaving => Guarded(B[q])

\* Once it runs, with B and E the tokens' braces and events, En what the context
\* is behind on where the lines start, and F what may be read from their events.
Analysed(B, E, En, F) ==
  /\ Shape(code, B, E) /\ Scanned(code, events, used, B, E, Len(code))
  /\ En \in Found(LinesOf(code), used)
  /\ Forward(code, events, jumped, stores, budgets, falls, En, code[Len(code)].line)
  /\ \A l \in LinesOf(code) : BackwardBy(code, events, used, liveIn, liveAtBudget, falls, l, F[l])
  /\ \A l \in LinesOf(code) : (\E n \in 1..Len(events[l]) : events[l][n].e = "Budget") =>
       (budgets[l] \cap liveAtBudget[l]) \ {R15} \subseteq ways[l]

\* What the context is behind on before a token, what may be read from it on,
\* and what is read before anything but reads and writes.
BehindOn(E, En, p) == Behinds(events, code[p].line, E[p] + 1, En[code[p].line])
MayRead(E, F, p) == F[code[p].line][E[p] + 1]
ReadsNext(E, p) == Ahead(events, code[p].line, E[p] + 1)

LEMMA AnalysedExists ==
  ASSUME Kept, Passed, phase = "run", NEW B, NEW E, Shape(code, B, E)
  PROVE  \E En, F : Analysed(B, E, En, F)
<1>1. PICK En \in Found(LinesOf(code), used) :
        Forward(code, events, jumped, stores, budgets, falls, En, code[Len(code)].line)
  BY DEF Passed
<1> DEFINE F == [l \in LinesOf(code) |->
                   CHOOSE f : BackwardBy(code, events, used, liveIn, liveAtBudget, falls, l, f)]
<1>2. ASSUME NEW l \in LinesOf(code)
      PROVE  BackwardBy(code, events, used, liveIn, liveAtBudget, falls, l, F[l])
  <2>1. \E f : BackwardBy(code, events, used, liveIn, liveAtBudget, falls, l, f)
    BY DEF Passed, Backward
  <2>2. F[l] = CHOOSE f : BackwardBy(code, events, used, liveIn, liveAtBudget, falls, l, f)
    OBVIOUS
  <2> HIDE DEF F
  <2> QED BY <2>1, <2>2
<1>3. Scanned(code, events, used, B, E, Len(code))
  BY DEF Kept
<1>4. \A l \in LinesOf(code) : (\E n \in 1..Len(events[l]) : events[l][n].e = "Budget") =>
       (budgets[l] \cap liveAtBudget[l]) \ {R15} \subseteq ways[l]
  BY DEF Passed
<1> HIDE DEF F
<1>5. Analysed(B, E, En, F)
  BY <1>1, <1>2, <1>3, <1>4 DEF Analysed
<1> QED BY <1>5

\* Where a token is, and its events are.
LEMMA TokenIs ==
  ASSUME Kept, NEW B, NEW E, NEW En, NEW F, Analysed(B, E, En, F), NEW p \in 1..Len(code)
  PROVE  /\ code[p].line \in LinesOf(code) /\ E[p] \in Nat /\ Len(EventsOf(code[p])) \in 0..2
         /\ Noticed(LinesOf(code), events, used)
         /\ Len(events[code[p].line]) \in Nat
         /\ E[p] + Len(EventsOf(code[p])) <= Len(events[code[p].line])
         /\ \A n \in 1..Len(EventsOf(code[p])) :
              /\ E[p] + n \in 1..Len(events[code[p].line])
              /\ events[code[p].line][E[p] + n].e = EventsOf(code[p])[n]
              /\ events[code[p].line][E[p] + n].of = code[p].of
              /\ events[code[p].line][E[p] + n].guarded = Guarded(B[p])
<1>1. code[p].line \in LinesOf(code) /\ Len(EventsOf(code[p])) \in 0..2
  BY KeptText, LineIn, EventsOfType
<1>2. E[p] \in Nat
  BY DEF Analysed, Shape
<1>3. Noted(code, events, B, E, p)
  BY DEF Analysed, Scanned
<1>4. Noticed(LinesOf(code), events, used)
  BY DEF Analysed, Scanned, Noticed
<1>5. Len(events[code[p].line]) \in Nat
  BY <1>1, <1>4, NoticedIs
<1>6. E[p] + Len(EventsOf(code[p])) <= Len(events[code[p].line])
  BY <1>3 DEF Noted
<1>7. ASSUME NEW n \in 1..Len(EventsOf(code[p]))
      PROVE  /\ E[p] + n \in 1..Len(events[code[p].line])
             /\ events[code[p].line][E[p] + n].e = EventsOf(code[p])[n]
             /\ events[code[p].line][E[p] + n].of = code[p].of
             /\ events[code[p].line][E[p] + n].guarded = Guarded(B[p])
  <2>1. events[code[p].line][E[p] + n] = EventAt(code, B, p, n)
    BY <1>3 DEF Noted
  <2>2. E[p] + n \in 1..Len(events[code[p].line])
    <3> DEFINE a == E[p]
               b == Len(EventsOf(code[p]))
               z == Len(events[code[p].line])
    <3>1. a \in Nat /\ b \in 0..2 /\ z \in Nat /\ a + b <= z /\ n \in 1..b
      BY <1>1, <1>2, <1>5, <1>6
    <3> HIDE DEF a, b, z
    <3>2. a + n \in 1..z
      BY <3>1
    <3> QED BY <3>2 DEF a, z
  <2> QED BY <2>1, <2>2 DEF EventAt
<1> QED BY <1>1, <1>2, <1>4, <1>5, <1>6, <1>7

\* An event is a token's.
LEMMA EventIs ==
  ASSUME Kept, NEW B, NEW E, NEW En, NEW F, Analysed(B, E, En, F),
         NEW l \in LinesOf(code), NEW n \in 1..Len(events[l])
  PROVE  \E p \in 1..Len(code) : \E m \in 1..Len(EventsOf(code[p])) :
           /\ code[p].line = l /\ n = E[p] + m
           /\ events[l][n].e = EventsOf(code[p])[m] /\ events[l][n].guarded = Guarded(B[p])
<1>1. PICK p \in 1..Len(code) : code[p].line = l /\ n \in E[p] + 1..E[p] + Len(EventsOf(code[p]))
  BY DEF Analysed, Scanned
<1>2. E[p] \in Nat /\ Len(EventsOf(code[p])) \in 0..2
  BY TokenIs
<1>3. n - E[p] \in 1..Len(EventsOf(code[p])) /\ E[p] + (n - E[p]) = n
  <2> DEFINE a == E[p]
             b == Len(EventsOf(code[p]))
  <2>1. a \in Nat /\ b \in 0..2 /\ n \in a + 1..a + b
    BY <1>1, <1>2
  <2> HIDE DEF a, b
  <2>2. n - a \in 1..b /\ a + (n - a) = n
    BY <2>1
  <2> QED BY <2>2 DEF a, b
<1> DEFINE d == n - E[p]
<1>4. \A m \in 1..Len(EventsOf(code[p])) :
        /\ events[code[p].line][E[p] + m].e = EventsOf(code[p])[m]
        /\ events[code[p].line][E[p] + m].guarded = Guarded(B[p])
  BY TokenIs
<1>5. d \in 1..Len(EventsOf(code[p])) /\ n = E[p] + d
  BY <1>3
<1> HIDE DEF d
<1>6. events[l][n].e = EventsOf(code[p])[d] /\ events[l][n].guarded = Guarded(B[p])
  BY <1>1, <1>4, <1>5
<1> QED BY <1>1, <1>5, <1>6

LEMMA LeavingLeaves ==
  ASSUME NEW k, NEW n \in 1..Len(EventsOf(k)), EventsOf(k)[n] \in Leaves
  PROVE  k.t \in Leaving
<1>1. n \in {1, 2}
  BY EventsOfType
<1> QED BY <1>1 DEF EventsOf, Leaves, Leaving

\* Where execution may come to, the line's analysis has come to.
LEMMA ComesRuns ==
  ASSUME Kept, NEW B, NEW E, NEW En, NEW F, Analysed(B, E, En, F),
         NEW p \in 1..Len(code), Comes(code, B, p)
  PROVE  /\ \A m \in 1..E[p] : m \notin Ended(events, code[p].line)
         /\ \A n \in 1..Len(EventsOf(code[p])) : n = 1 => E[p] + n \in Runs(events, code[p].line)
         /\ (p = Len(code) \/ code[p + 1].line # code[p].line) /\ (code[p].t \in Leaving => Guarded(B[p])) =>
              Ended(events, code[p].line) = {}
<1> DEFINE l == code[p].line
<1>1. l \in LinesOf(code) /\ E[p] \in Nat /\ Len(events[l]) \in Nat /\ Noticed(LinesOf(code), events, used)
      /\ E[p] <= Len(events[l]) /\ Len(code) \in Nat
  <2>1. E[p] + Len(EventsOf(code[p])) <= Len(events[l]) /\ Len(EventsOf(code[p])) \in Nat /\ E[p] \in Nat
        /\ Len(events[l]) \in Nat
    BY TokenIs
  <2>2. E[p] <= Len(events[l])
    BY <2>1
  <2> QED BY <2>1, <2>2, TokenIs, KeptText
<1>2. ASSUME NEW q \in 1..Len(code), code[q].line = l, NEW m \in 1..Len(EventsOf(code[q])),
             E[q] + m \in Ended(events, l)
      PROVE  code[q].t \in Leaving /\ ~Guarded(B[q])
  <2>a. /\ events[code[q].line][E[q] + m].e = EventsOf(code[q])[m]
        /\ events[code[q].line][E[q] + m].guarded = Guarded(B[q])
    BY TokenIs
  <2>1. EventsOf(code[q])[m] \in Leaves /\ ~Guarded(B[q])
    BY <1>2, <2>a DEF Ended
  <2> QED BY <2>1, LeavingLeaves
<1>3. ASSUME NEW n \in Ended(events, l)
      PROVE  \E q \in 1..Len(code) : \E m \in 1..Len(EventsOf(code[q])) :
               code[q].line = l /\ n = E[q] + m /\ code[q].t \in Leaving /\ ~Guarded(B[q])
  <2>1. n \in 1..Len(events[l])
    BY DEF Ended
  <2>2. PICK q \in 1..Len(code) : \E m \in 1..Len(EventsOf(code[q])) : code[q].line = l /\ n = E[q] + m
    <3> HIDE DEF l
    <3>1. \E q \in 1..Len(code) : \E m \in 1..Len(EventsOf(code[q])) :
            /\ code[q].line = l /\ n = E[q] + m
            /\ events[l][n].e = EventsOf(code[q])[m] /\ events[l][n].guarded = Guarded(B[q])
      BY <1>1, <2>1, EventIs
    <3> QED BY <3>1
  <2> QED BY <1>2, <1>3, <2>2
<1>4. ASSUME NEW n \in 1..E[p], n \in Ended(events, l)
      PROVE  FALSE
  <2>1. PICK q \in 1..Len(code) : \E m \in 1..Len(EventsOf(code[q])) :
               code[q].line = l /\ n = E[q] + m /\ code[q].t \in Leaving /\ ~Guarded(B[q])
    BY <1>3, <1>4
  <2>2. q \notin 1..p - 1
    BY <2>1 DEF Comes
  <2>3. PICK m \in 1..Len(EventsOf(code[q])) : n = E[q] + m
    BY <2>1
  <2>4. E[q] \in Nat /\ m \in Nat \ {0}
    BY TokenIs
  <2>5. CASE q = p
    BY <1>1, <2>3, <2>4, <2>5
  <2>6. CASE p < q
    <3>1. E[p] + Len(EventsOf(code[p])) <= E[q] /\ Len(EventsOf(code[p])) \in Nat
      BY <2>1, <2>6, KeptText, ShapeOrder, TokenIs DEF Analysed
    <3> QED BY <1>1, <2>3, <2>4, <3>1
  <2> QED BY <1>1, <2>2, <2>5, <2>6
<1>5. ASSUME NEW n \in 1..Len(EventsOf(code[p])), n = 1
      PROVE  E[p] + n \in Runs(events, l)
  <2>1. E[p] + n \in 1..Len(events[l])
    BY TokenIs
  <2>2. \A m \in 1..(E[p] + n) - 1 : m \notin Ended(events, l)
    BY <1>1, <1>4, <1>5
  <2> HIDE DEF l
  <2> QED BY <1>1, <2>1, <2>2, RunsIs
<1>6. ASSUME p = Len(code) \/ code[p + 1].line # l, code[p].t \in Leaving => Guarded(B[p])
      PROVE  Ended(events, l) = {}
  <2> SUFFICES ASSUME NEW n \in Ended(events, l) PROVE FALSE
    OBVIOUS
  <2>1. PICK q \in 1..Len(code) : code[q].line = l /\ code[q].t \in Leaving /\ ~Guarded(B[q])
    BY <1>3
  <2>2. q \notin 1..p - 1 /\ q # p
    BY <1>6, <2>1 DEF Comes
  <2>3. p + 1 \in 1..Len(code) /\ p <= p + 1 /\ p + 1 <= q
    BY <1>1, <2>2
  <2>4. code[p].line <= code[p + 1].line /\ code[p + 1].line <= code[q].line
        /\ code[p].line \in Nat /\ code[p + 1].line \in Nat
    BY <2>3, KeptText, TextIs
  <2> QED BY <1>1, <1>6, <2>1, <2>3, <2>4
<1> QED BY <1>4, <1>5, <1>6

\* What the events of tokens are, by their kinds.
LEMMA KindsOfEvents ==
  ASSUME NEW k, NEW n \in 1..Len(EventsOf(k))
  PROVE  /\ EventsOf(k)[n] = "Sync" => k.t = "Sync"
         /\ EventsOf(k)[n] = "Goto" => k.t = "Goto"
         /\ EventsOf(k)[n] = "Replace" => k.t = "Assign"
<1> DEFINE m == Len(EventsOf(k))
<1>2. m \in 0..2 /\ n \in 1..m
  BY EventsOfType
<1>1. n \in {1, 2}
  <2> HIDE DEF m
  <2> QED BY <1>2
<1> QED BY <1>1 DEF EventsOf

\* Past a token the context is not behind on less, but for a sync that surely
\* happens, and on what the token sets.
LEMMA BehindOver ==
  ASSUME Kept, NEW B, NEW E, NEW En, NEW F, Analysed(B, E, En, F), NEW p \in 1..Len(code), NEW entry
  PROVE  /\ (code[p].t = "Sync" => Guarded(B[p])) =>
              Behinds(events, code[p].line, E[p] + 1, entry)
                \subseteq Behinds(events, code[p].line, E[p] + Len(EventsOf(code[p])) + 1, entry)
         /\ code[p].t \in {"Assign", "Modify"} =>
              code[p].of \in Behinds(events, code[p].line, E[p] + Len(EventsOf(code[p])) + 1, entry)
<1> DEFINE l == code[p].line
           k == Len(EventsOf(code[p]))
           X(n) == Behinds(events, l, n, entry)
<1>1. l \in LinesOf(code) /\ E[p] \in Nat /\ k \in 0..2 /\ Noticed(LinesOf(code), events, used)
  BY TokenIs
<1>2. \A n \in 1..k : /\ E[p] + n \in 1..Len(events[l])
                      /\ events[l][E[p] + n].e = EventsOf(code[p])[n]
                      /\ events[l][E[p] + n].of = code[p].of
                      /\ events[l][E[p] + n].guarded = Guarded(B[p])
  BY TokenIs
<1>3. ASSUME NEW n \in 1..k
      PROVE  /\ (code[p].t = "Sync" => Guarded(B[p])) => X(E[p] + n) \subseteq X(E[p] + n + 1)
             /\ EventsOf(code[p])[n] \in Writes => code[p].of \in X(E[p] + n + 1)
  <2>1. /\ ~(events[l][E[p] + n].e = "Sync" /\ ~events[l][E[p] + n].guarded) => X(E[p] + n) \subseteq X(E[p] + n + 1)
        /\ events[l][E[p] + n].e \in Writes => events[l][E[p] + n].of \in X(E[p] + n + 1)
    <3> HIDE DEF l, k
    <3>1. E[p] + n \in 1..Len(events[l])
      BY <1>2
    <3> QED BY <1>1, <3>1, BehindsStep
  <2>2. EventsOf(code[p])[n] = "Sync" => code[p].t = "Sync"
    BY KindsOfEvents
  <2> HIDE DEF X
  <2> QED BY <1>2, <2>1, <2>2
<1>4. ASSUME code[p].t = "Sync" => Guarded(B[p])
      PROVE  X(E[p] + 1) \subseteq X(E[p] + k + 1)
  <2> HIDE DEF X, k
  <2>1. CASE k = 0
    <3>1. E[p] + k + 1 = E[p] + 1
      BY <1>1, <2>1
    <3> QED BY <3>1
  <2>2. CASE k = 1
    <3>1. 1 \in 1..k /\ E[p] + k + 1 = E[p] + 1 + 1
      BY <1>1, <2>2
    <3> QED BY <1>3, <1>4, <3>1
  <2>3. CASE k = 2
    <3>1. 1 \in 1..k /\ 2 \in 1..k /\ E[p] + k + 1 = E[p] + 2 + 1 /\ E[p] + 2 = E[p] + 1 + 1
      BY <1>1, <2>3
    <3>2. X(E[p] + 1) \subseteq X(E[p] + 1 + 1) /\ X(E[p] + 2) \subseteq X(E[p] + 2 + 1)
      BY <1>3, <1>4, <3>1
    <3> QED BY <3>1, <3>2
  <2> QED BY <1>1, <2>1, <2>2, <2>3
<1>5. ASSUME code[p].t \in {"Assign", "Modify"}
      PROVE  code[p].of \in X(E[p] + k + 1)
  <2>1. k \in 1..k /\ EventsOf(code[p])[k] \in Writes
    <3>1. CASE code[p].t = "Assign"
      <4>1. EventsOf(code[p]) = <<"Replace">>
        BY <3>1 DEF EventsOf
      <4>2. k = 1 /\ EventsOf(code[p])[1] = "Replace"
        BY <4>1
      <4> HIDE DEF k
      <4> QED BY <4>2 DEF Writes
    <3>2. CASE code[p].t = "Modify"
      <4>1. EventsOf(code[p]) = <<"Read", "Change">>
        BY <3>2 DEF EventsOf
      <4>2. k = 2 /\ EventsOf(code[p])[2] = "Change"
        BY <4>1
      <4> HIDE DEF k
      <4> QED BY <4>2 DEF Writes
    <3> QED BY <1>5, <3>1, <3>2
  <2> HIDE DEF X, k
  <2> QED BY <1>3, <2>1
<1> QED BY <1>4, <1>5

\* Past a token that does not surely leave nothing else may be read, but for
\* what it surely replaces.
LEMMA LiveOver ==
  ASSUME Kept, NEW B, NEW E, NEW En, NEW F, Analysed(B, E, En, F), NEW p \in 1..Len(code),
         code[p].t \in Leaving => Guarded(B[p])
  PROVE  F[code[p].line][E[p] + Len(EventsOf(code[p])) + 1] \subseteq
           F[code[p].line][E[p] + 1] \cup {r \in {code[p].of} : code[p].t = "Assign" /\ ~Guarded(B[p])}
<1> DEFINE l == code[p].line
           k == Len(EventsOf(code[p]))
           f == F[l]
           Killed == {r \in {code[p].of} : code[p].t = "Assign" /\ ~Guarded(B[p])}
<1>1. l \in LinesOf(code) /\ E[p] \in Nat /\ k \in 0..2
  BY TokenIs
<1>2. \A n \in 1..k : /\ E[p] + n \in 1..Len(events[l])
                      /\ events[l][E[p] + n].e = EventsOf(code[p])[n]
                      /\ events[l][E[p] + n].of = code[p].of
                      /\ events[l][E[p] + n].guarded = Guarded(B[p])
  BY TokenIs
<1>3. Goes(code, events, used, liveIn, l, f)
  BY <1>1 DEF Analysed, BackwardBy
<1>4. ASSUME NEW n \in 1..k
      PROVE  f[E[p] + n + 1] \subseteq f[E[p] + n] \cup Killed
  <2> DEFINE m == E[p] + n
  <2>1. /\ m \in 1..Len(events[l]) /\ events[l][m].e = EventsOf(code[p])[n]
        /\ events[l][m].of = code[p].of /\ events[l][m].guarded = Guarded(B[p])
    BY <1>2
  <2>2. ~(events[l][m].e = "Goto" /\ ~events[l][m].guarded)
    BY <2>1, KindsOfEvents DEF Leaving
  <2>3. f[m + 1] \subseteq f[m] \cup {r \in {events[l][m].of} : events[l][m].e = "Replace" /\ ~events[l][m].guarded}
    <3> HIDE DEF m, l, f
    <3> QED BY <1>3, <2>1, <2>2 DEF Goes
  <2>4. {r \in {events[l][m].of} : events[l][m].e = "Replace" /\ ~events[l][m].guarded} \subseteq Killed
    BY <2>1, KindsOfEvents
  <2> HIDE DEF f, Killed, l
  <2> QED BY <2>3, <2>4
<1> HIDE DEF f, k, Killed
<1>5. f[E[p] + k + 1] \subseteq f[E[p] + 1] \cup Killed
  <2>1. CASE k = 0
    <3>1. E[p] + k + 1 = E[p] + 1
      BY <1>1, <2>1
    <3> QED BY <3>1
  <2>2. CASE k = 1
    <3>1. 1 \in 1..k /\ E[p] + k + 1 = E[p] + 1 + 1
      BY <1>1, <2>2
    <3> QED BY <1>4, <3>1
  <2>3. CASE k = 2
    <3>1. 1 \in 1..k /\ 2 \in 1..k /\ E[p] + k + 1 = E[p] + 2 + 1 /\ E[p] + 2 = E[p] + 1 + 1
      BY <1>1, <2>3
    <3>2. f[E[p] + 1 + 1] \subseteq f[E[p] + 1] \cup Killed /\ f[E[p] + 2 + 1] \subseteq f[E[p] + 2] \cup Killed
      BY <1>4, <3>1
    <3> QED BY <3>1, <3>2
  <2> QED BY <1>1, <2>1, <2>2, <2>3
<1> QED BY <1>5 DEF f, k, Killed, l

\* From a line execution may fall out of, to the line of the next token.
LEMMA LinesBetween ==
  ASSUME Kept, NEW B, NEW E, NEW En, NEW F, Analysed(B, E, En, F),
         NEW p \in 1..Len(code) - 1, code[p + 1].line # code[p].line, Ended(events, code[p].line) = {}
  PROVE  /\ Behinds(events, code[p].line, Len(events[code[p].line]) + 1, En[code[p].line]) \subseteq En[code[p + 1].line]
         /\ F[code[p + 1].line][1] \subseteq F[code[p].line][Len(events[code[p].line]) + 1]
<1> DEFINE l == code[p].line
           q == code[p + 1].line
           X == Behinds(events, l, Len(events[l]) + 1, En[l])
           Y == F[l][Len(events[l]) + 1]
           T == {m \in l + 1..q : X \subseteq En[m] /\ liveIn[m] \subseteq Y}
           last == code[Len(code)].line
<1>1. /\ p \in 1..Len(code) /\ p + 1 \in 1..Len(code) /\ Len(code) \in 1..Len(code)
      /\ l \in LinesOf(code) /\ q \in LinesOf(code) /\ l < q /\ q <= last /\ last \in Nat
      /\ LinesOf(code) = 1..last
  <2>1. Len(code) \in Nat
    BY KeptText
  <2>2. p \in 1..Len(code) /\ p + 1 \in 1..Len(code) /\ Len(code) \in 1..Len(code) /\ p <= p + 1
    BY <2>1
  <2>3. l \in LinesOf(code) /\ q \in LinesOf(code) /\ last \in Nat
    BY <2>2, KeptText, LineIn
  <2>4. l <= q
    BY <2>2, KeptText, TextIs
  <2> QED BY <2>2, <2>3, <2>4 DEF LinesOf
<1>2. \A m \in 1..last : /\ falls[m] = (Ended(events, m) = {})
                         /\ m < last /\ Ended(events, m) = {} =>
                              Behinds(events, m, Len(events[m]) + 1, En[m]) \subseteq En[m + 1]
  BY DEF Analysed, Forward
<1>3. \A m \in LinesOf(code) : /\ F[m][1] \subseteq liveIn[m]
                               /\ falls[m] /\ m < last => liveIn[m + 1] \subseteq F[m][Len(events[m]) + 1]
  BY DEF Analysed, BackwardBy
<1> HIDE DEF l, q, last, X, Y
<1>4. l + 1 \in T
  <2>1. l + 1 \in l + 1..q /\ l \in 1..last /\ l < last
    BY <1>1
  <2>2. Ended(events, l) = {}
    BY DEF l
  <2> QED BY <1>1, <1>2, <1>3, <2>1, <2>2 DEF X, Y
<1>5. ASSUME NEW m \in l + 1..q - 1
      PROVE  Len(events[m]) = 0
  <2>1. m \in LinesOf(code) /\ Len(events[m]) \in Nat
    <3>1. m \in LinesOf(code)
      BY <1>1
    <3> QED BY <1>1, <3>1, NoticedIs, TokenIs
  <2>2. SUFFICES ASSUME 1 \in 1..Len(events[m]) PROVE FALSE
    BY <2>1
  <2>3. PICK r \in 1..Len(code) : code[r].line = m
    BY <2>1, <2>2, EventIs
  <2>4. r <= p \/ p + 1 <= r
    BY <1>1
  <2>5. code[r].line <= l \/ q <= code[r].line
    BY <1>1, <2>4, KeptText, TextIs DEF l, q
  <2> QED BY <1>1, <2>3, <2>5
<1>6. ASSUME NEW m \in l + 1..q - 1, m \in T
      PROVE  m + 1 \in T
  <2>1. m \in 1..last /\ m < last /\ m + 1 \in l + 1..q
    BY <1>1
  <2>2. Len(events[m]) = 0
    BY <1>5
  <2>3. Ended(events, m) = {}
    BY <2>2 DEF Ended
  <2>4. Len(events[m]) + 1 = 1
    BY <2>2
  <2>5. Behinds(events, m, 1, En[m]) = En[m]
    BY BehindsFirst
  <2>6. En[m] \subseteq En[m + 1]
    BY <1>2, <2>1, <2>3, <2>4, <2>5
  <2>7. liveIn[m + 1] \subseteq F[m][1] /\ F[m][1] \subseteq liveIn[m]
    BY <1>1, <1>2, <1>3, <2>1, <2>3, <2>4
  <2> QED BY <1>6, <2>1, <2>6, <2>7
<1>7. q \in T
  <2>1. l + 1 \in Nat /\ q \in Nat
    BY <1>1
  <2>2. l + 1..q \subseteq T
    <3> HIDE DEF T
    <3> QED BY <1>4, <1>6, <2>1, Upwards
  <2>3. q \in l + 1..q
    BY <1>1
  <2> QED BY <2>2, <2>3
<1>8. X \subseteq En[q] /\ F[q][1] \subseteq Y
  BY <1>1, <1>3, <1>7
<1> QED BY <1>8 DEF X, Y, l, q

\* What d has the context behind on, l has read from and a read next of each
\* token: what execution does not take away stays, what it looks at is stored,
\* and a way out leaves nothing old that may be read past it.
Flow(c, us, st, wy, B, d, l, a) ==
  /\ d \in [1..Len(c) -> SUBSET us] /\ l \in [1..Len(c) -> SUBSET us] /\ a \in [1..Len(c) -> SUBSET us]
  /\ \A p \in 1..Len(c) : a[p] \subseteq l[p] /\ (c[p].t \in {"Read", "Modify"} => c[p].of \in a[p])
  /\ \A p \in 1..Len(c) - 1 : Comes(c, B, p) =>
       /\ (c[p].t \in Leaving \cup {"Sync"} => Guarded(B[p])) => d[p] \subseteq d[p + 1]
       /\ c[p].t \in {"Assign", "Modify"} => c[p].of \in d[p + 1]
       /\ (c[p].t \in Leaving => Guarded(B[p])) =>
            l[p + 1] \subseteq l[p] \cup {r \in {c[p].of} : c[p].t = "Assign" /\ ~Guarded(B[p])}
       /\ c[p].t \in Accesses => a[p + 1] \subseteq a[p]
       /\ c[p].t = "Block" => (d[p] \cap l[p + 1]) \ {R15} \subseteq wy[c[p].line]
  /\ \A p \in 1..Len(c) : Comes(c, B, p) =>
       /\ c[p].t = "Goto" => d[p] \subseteq d[Place(c, c[p].of)] /\ l[Place(c, c[p].of)] \subseteq l[p]
       /\ c[p].t \in {"Sync", "Return", "ReturnTo", "Jump", "GotoDispatch"} => d[p] \subseteq st[c[p].line] /\ l[p] = us

\* Labels are where they are found, and past the one of a block its check.
LEMMA LabelIs ==
  ASSUME NEW c, LinesFollow(c), LabelsStartBlocks(c), NEW label \in Labels(c) \cup {Dispatch}
  PROVE  /\ Place(c, label) \in 1..Len(c)
         /\ c[Place(c, label)].t = "Label" /\ c[Place(c, label)].of = label
         /\ \A p \in 1..Len(c) : c[p].t = "Label" /\ c[p].of = label => p = Place(c, label)
         /\ Place(c, label) = 1 \/ c[Place(c, label) - 1].line < c[Place(c, label)].line
         /\ label # Dispatch =>
              /\ label \in Nat
              /\ Place(c, label) + 1 \in 1..Len(c)
              /\ c[Place(c, label) + 1].t = "Block" /\ c[Place(c, label) + 1].of = label
              /\ c[Place(c, label)].line < c[Place(c, label) + 1].line
<1>1. c \in Seq([t : STRING, of : Int, line : Nat \ {0}]) /\ DOMAIN c = 1..Len(c) /\ Len(c) \in Nat \ {0}
  BY TextIs
<1>2. ToSet(c) = {c[q] : q \in 1..Len(c)}
  BY <1>1 DEF ToSet
<1>3. \E q \in 1..Len(c) : c[q].t = "Label" /\ c[q].of = label
  <2>1. CASE label = Dispatch
    BY <2>1 DEF LabelsStartBlocks
  <2>2. CASE label \in Labels(c)
    BY <1>2, <2>2 DEF Labels
  <2> QED BY <2>1, <2>2
<1>4. Place(c, label) \in 1..Len(c) /\ c[Place(c, label)].t = "Label" /\ c[Place(c, label)].of = label
  BY <1>3 DEF Place
<1> DEFINE q == Place(c, label)
<1> HIDE DEF q
<1>5. q \in 1..Len(c) /\ c[q].t = "Label" /\ c[q].of = label
  BY <1>4 DEF q
<1>6. \A p \in 1..Len(c) : c[p].t = "Label" /\ c[p].of = label => p = q
  BY <1>5 DEF LabelsStartBlocks
<1>7. q = 1 \/ c[q - 1].line < c[q].line
  BY <1>5 DEF LabelsStartBlocks
<1>8. ASSUME label # Dispatch
      PROVE  /\ label \in Nat
             /\ q + 1 \in 1..Len(c)
             /\ c[q + 1].t = "Block" /\ c[q + 1].of = label
             /\ c[q].line < c[q + 1].line
  <2>1. /\ c[q].of \in Nat /\ q < Len(c) /\ c[q + 1].t = "Block" /\ c[q + 1].of = c[q].of
        /\ (q + 1 = 1 \/ c[(q + 1) - 1].line < c[q + 1].line)
    BY <1>5, <1>8 DEF LabelsStartBlocks
  <2>2. q + 1 # 1 /\ (q + 1) - 1 = q /\ q + 1 \in 1..Len(c)
    BY <1>1, <1>5, <2>1
  <2> QED BY <1>5, <2>1, <2>2
<1> QED BY <1>5, <1>6, <1>7, <1>8 DEF q

LEMMA StartComes ==
  ASSUME NEW c, LinesFollow(c), NEW B, NEW p \in 1..Len(c), p = 1 \/ c[p - 1].line < c[p].line
  PROVE  Comes(c, B, p)
<1> SUFFICES ASSUME NEW q \in 1..p - 1, c[q].line = c[p].line PROVE FALSE
  BY DEF Comes
<1>1. Len(c) \in Nat /\ p # 1 /\ q \in 1..Len(c) /\ p - 1 \in 1..Len(c) /\ q <= p - 1
  BY TextIs
<1>2. c[q].line <= c[p - 1].line /\ c[p - 1].line \in Nat /\ c[q].line \in Nat /\ c[p].line \in Nat
  BY <1>1, TextIs
<1> QED BY <1>1, <1>2

\* From one token on to the next.
LEMMA ComesNext ==
  ASSUME NEW c, LinesFollow(c), NEW B, NEW p \in 1..Len(c) - 1, Comes(c, B, p), c[p].t \in Leaving => Guarded(B[p])
  PROVE  Comes(c, B, p + 1)
<1> SUFFICES ASSUME NEW q \in 1..(p + 1) - 1, c[q].line = c[p + 1].line, c[q].t \in Leaving PROVE Guarded(B[q])
  BY DEF Comes
<1>1. CASE q = p
  BY <1>1
<1>2. CASE q # p
  <2>1. Len(c) \in Nat
    BY TextIs
  <2>2. q \in 1..p - 1 /\ q \in 1..Len(c) /\ p \in 1..Len(c) /\ p + 1 \in 1..Len(c) /\ q <= p /\ p <= p + 1
    BY <1>2, <2>1
  <2>3. c[q].line <= c[p].line /\ c[p].line <= c[p + 1].line /\ c[q].line \in Nat /\ c[p].line \in Nat
    BY <2>2, TextIs
  <2>4. c[q].line = c[p].line
    BY <2>3
  <2> QED BY <2>2, <2>4 DEF Comes
<1> QED BY <1>1, <1>2

\* What is past a token.
LEMMA FlowNext ==
  ASSUME Kept, NEW B, NEW E, NEW En, NEW F, Analysed(B, E, En, F),
         NEW p \in 1..Len(code) - 1, Comes(code, B, p)
  PROVE  /\ (code[p].t \in Leaving \cup {"Sync"} => Guarded(B[p])) => BehindOn(E, En, p) \subseteq BehindOn(E, En, p + 1)
         /\ code[p].t \in {"Assign", "Modify"} => code[p].of \in BehindOn(E, En, p + 1)
         /\ (code[p].t \in Leaving => Guarded(B[p])) =>
              MayRead(E, F, p + 1) \subseteq
                MayRead(E, F, p) \cup {r \in {code[p].of} : code[p].t = "Assign" /\ ~Guarded(B[p])}
         /\ (code[p].t \in Leaving => Guarded(B[p])) =>
              MayRead(E, F, p + 1) \subseteq F[code[p].line][E[p] + Len(EventsOf(code[p])) + 1]
<1> DEFINE l == code[p].line
           k == Len(EventsOf(code[p]))
           Past1 == Behinds(events, l, E[p] + k + 1, En[l])
           From1 == F[l][E[p] + k + 1]
<1>1. p \in 1..Len(code) /\ p + 1 \in 1..Len(code) /\ p # Len(code)
  BY KeptText
<1>2. /\ (code[p].t = "Sync" => Guarded(B[p])) => BehindOn(E, En, p) \subseteq Past1
      /\ code[p].t \in {"Assign", "Modify"} => code[p].of \in Past1
  BY <1>1, BehindOver DEF BehindOn
<1>3. (code[p].t \in Leaving => Guarded(B[p])) =>
        From1 \subseteq MayRead(E, F, p) \cup {r \in {code[p].of} : code[p].t = "Assign" /\ ~Guarded(B[p])}
  BY <1>1, LiveOver DEF MayRead
<1>4. ASSUME code[p].t \in Leaving => Guarded(B[p])
      PROVE  Past1 \subseteq BehindOn(E, En, p + 1) /\ MayRead(E, F, p + 1) \subseteq From1
  <2>1. CASE code[p + 1].line = l
    <3>1. E[p + 1] = E[p] + k
      BY <2>1 DEF Analysed, Shape
    <3> QED BY <2>1, <3>1 DEF BehindOn, MayRead
  <2>2. CASE code[p + 1].line # l
    <3>1. E[p + 1] = 0
      BY <2>2 DEF Analysed, Shape
    <3>2. E[p] + k = Len(events[l])
      BY <1>1, <2>2 DEF Analysed, Scanned
    <3>3. Ended(events, l) = {}
      BY <1>1, <1>4, <2>2, ComesRuns
    <3>4. /\ Behinds(events, l, Len(events[l]) + 1, En[l]) \subseteq En[code[p + 1].line]
          /\ F[code[p + 1].line][1] \subseteq F[l][Len(events[l]) + 1]
      BY <2>2, <3>3, LinesBetween
    <3>5. BehindOn(E, En, p + 1) = En[code[p + 1].line]
      BY <3>1, BehindsFirst DEF BehindOn
    <3>6. MayRead(E, F, p + 1) = F[code[p + 1].line][1]
      BY <3>1 DEF MayRead
    <3>7. Past1 = Behinds(events, l, Len(events[l]) + 1, En[l]) /\ From1 = F[l][Len(events[l]) + 1]
      BY <3>2
    <3> HIDE DEF Past1, From1, l
    <3> QED BY <3>4, <3>5, <3>6, <3>7
  <2> QED BY <2>1, <2>2
<1>5. code[p].t \in {"Assign", "Modify"} => code[p].t \notin Leaving
  BY DEF Leaving
<1> QED BY <1>2, <1>3, <1>4, <1>5

LEMMA FlowTypes ==
  ASSUME Kept, NEW B, NEW E, NEW En, NEW F, Analysed(B, E, En, F), NEW p \in 1..Len(code)
  PROVE  /\ BehindOn(E, En, p) \in SUBSET used /\ MayRead(E, F, p) \in SUBSET used /\ ReadsNext(E, p) \in SUBSET used
         /\ ReadsNext(E, p) \subseteq MayRead(E, F, p)
<1> DEFINE l == code[p].line
           n == E[p] + 1
           f == F[l]
<1>1. l \in LinesOf(code) /\ E[p] \in Nat /\ Len(events[l]) \in Nat /\ Noticed(LinesOf(code), events, used)
      /\ E[p] <= Len(events[l])
  <2>1. E[p] + Len(EventsOf(code[p])) <= Len(events[l]) /\ Len(EventsOf(code[p])) \in Nat /\ E[p] \in Nat
        /\ Len(events[l]) \in Nat
    BY TokenIs
  <2>2. E[p] <= Len(events[l])
    BY <2>1
  <2> QED BY <2>1, <2>2, TokenIs
<1>2. n \in 1..Len(events[l]) + 1
  BY <1>1
<1>3. En[l] \in SUBSET used
  BY <1>1 DEF Analysed, Found
<1>4. Goes(code, events, used, liveIn, l, f)
  BY <1>1 DEF Analysed, BackwardBy
<1>5. BehindOn(E, En, p) \in SUBSET used
  <2>1. Behinds(events, l, n, En[l]) \in SUBSET used
    <3> HIDE DEF l, n
    <3> QED BY <1>1, <1>2, <1>3, BehindsType
  <2> QED BY <2>1 DEF BehindOn
<1>6. MayRead(E, F, p) \in SUBSET used
  <2>1. f[n] \in SUBSET used
    <3> HIDE DEF l, n, f
    <3> QED BY <1>2, <1>4 DEF Goes
  <2> QED BY <2>1 DEF MayRead
<1>7. ReadsNext(E, p) \subseteq MayRead(E, F, p)
  <2>1. Ahead(events, l, n) \subseteq f[n]
    <3> HIDE DEF l, n, f
    <3>1. CASE n \in 1..Len(events[l])
      BY <1>4, <3>1 DEF Goes
    <3>2. CASE n \notin 1..Len(events[l])
      <4>1. n..Len(events[l]) = {}
        BY <1>1, <1>2, <3>2
      <4>2. Ahead(events, l, n) = {}
        BY <4>1 DEF Ahead
      <4> QED BY <4>2
    <3> QED BY <3>1, <3>2
  <2> QED BY <2>1 DEF ReadsNext, MayRead
<1> QED BY <1>5, <1>6, <1>7

LEMMA FlowReads ==
  ASSUME Kept, NEW B, NEW E, NEW En, NEW F, Analysed(B, E, En, F),
         NEW p \in 1..Len(code), code[p].t \in Accesses
  PROVE  /\ code[p].t \in {"Read", "Modify"} => code[p].of \in ReadsNext(E, p)
         /\ p \in 1..Len(code) - 1
         /\ ReadsNext(E, p + 1) \subseteq ReadsNext(E, p)
<1> DEFINE l == code[p].line
           k == Len(EventsOf(code[p]))
<1>1. l \in LinesOf(code) /\ E[p] \in Nat /\ Len(events[l]) \in Nat /\ k \in 0..2
  BY TokenIs
<1>2. \A n \in 1..k : /\ E[p] + n \in 1..Len(events[l])
                      /\ events[l][E[p] + n].e = EventsOf(code[p])[n]
                      /\ events[l][E[p] + n].of = code[p].of
                      /\ events[l][E[p] + n].guarded = Guarded(B[p])
  BY TokenIs
<1>3. \A n \in 1..k : EventsOf(code[p])[n] \in Moving
  <2>1. CASE code[p].t = "Read"
    <3>1. EventsOf(code[p]) = <<"Read">>
      BY <2>1 DEF EventsOf
    <3> QED BY <3>1 DEF Moving
  <2>2. CASE code[p].t = "Assign"
    <3>1. EventsOf(code[p]) = <<"Replace">>
      BY <2>2 DEF EventsOf
    <3> QED BY <3>1 DEF Moving
  <2>3. CASE code[p].t = "Modify"
    <3>1. EventsOf(code[p]) = <<"Read", "Change">>
      BY <2>3 DEF EventsOf
    <3>2. EventsOf(code[p])[1] \in Moving /\ EventsOf(code[p])[2] \in Moving /\ k = 2
      BY <3>1 DEF Moving
    <3>3. \A n \in 1..k : n = 1 \/ n = 2
      <4> HIDE DEF k
      <4> QED BY <3>2
    <3> QED BY <3>2, <3>3
  <2> QED BY <2>1, <2>2, <2>3 DEF Accesses
<1>4. ASSUME code[p].t \in {"Read", "Modify"}
      PROVE  code[p].of \in ReadsNext(E, p)
  <2>1. 1 \in 1..k /\ EventsOf(code[p])[1] = "Read"
    <3>1. CASE code[p].t = "Read"
      <4>1. EventsOf(code[p]) = <<"Read">>
        BY <3>1 DEF EventsOf
      <4> QED BY <4>1
    <3>2. CASE code[p].t = "Modify"
      <4>1. EventsOf(code[p]) = <<"Read", "Change">>
        BY <3>2 DEF EventsOf
      <4> QED BY <4>1
    <3> QED BY <1>4, <3>1, <3>2
  <2> HIDE DEF k
  <2>2. /\ E[p] + 1 \in 1..Len(events[l])
        /\ events[l][E[p] + 1].e = "Read" /\ events[l][E[p] + 1].of = code[p].of
    BY <1>2, <2>1
  <2>3. E[p] + 1 \in E[p] + 1..Len(events[l]) /\ \A m \in E[p] + 1..E[p] + 1 : m = E[p] + 1
    BY <1>1, <2>2
  <2>4. "Read" \in Moving
    BY DEF Moving
  <2> QED BY <2>2, <2>3, <2>4 DEF ReadsNext, Ahead
<1>5. p < Len(code) /\ code[p + 1].line = l
  BY KeptText DEF StatementsAreWhole
<1>6. p \in 1..Len(code) - 1
  BY <1>5, KeptText
<1>7. E[p + 1] = E[p] + k
  BY <1>5, <1>6 DEF Analysed, Shape
<1>8. ReadsNext(E, p + 1) \subseteq ReadsNext(E, p)
  <2> HIDE DEF k
  <2>1. ASSUME NEW n \in E[p] + k + 1..Len(events[l]), events[l][n].e = "Read",
               \A m \in E[p] + k + 1..n : events[l][m].e \in Moving
        PROVE  n \in E[p] + 1..Len(events[l]) /\ \A m \in E[p] + 1..n : events[l][m].e \in Moving
    <3>1. n \in E[p] + 1..Len(events[l])
      BY <1>1
    <3>2. ASSUME NEW m \in E[p] + 1..n
          PROVE  events[l][m].e \in Moving
      <4>1. CASE m \in E[p] + k + 1..n
        BY <2>1, <4>1
      <4>2. CASE m \notin E[p] + k + 1..n
        <5> DEFINE j == m - E[p]
        <5>1. j \in 1..k /\ m = E[p] + j
          BY <1>1, <2>1, <4>2
        <5> HIDE DEF j
        <5> QED BY <1>2, <1>3, <5>1
      <4> QED BY <4>1, <4>2
    <3> QED BY <3>1, <3>2
  <2>2. Ahead(events, l, E[p] + k + 1) \subseteq Ahead(events, l, E[p] + 1)
    <3> SUFFICES ASSUME NEW x \in Ahead(events, l, E[p] + k + 1) PROVE x \in Ahead(events, l, E[p] + 1)
      OBVIOUS
    <3>1. PICK n \in E[p] + k + 1..Len(events[l]) :
            x = events[l][n].of /\ events[l][n].e = "Read" /\ \A m \in E[p] + k + 1..n : events[l][m].e \in Moving
      BY DEF Ahead
    <3>2. n \in E[p] + 1..Len(events[l]) /\ \A m \in E[p] + 1..n : events[l][m].e \in Moving
      BY <2>1, <3>1
    <3> QED BY <3>1, <3>2 DEF Ahead
  <2> QED BY <1>5, <1>7, <2>2 DEF ReadsNext
<1> QED BY <1>4, <1>6, <1>8

\* Where a token has something else look at the context, or jumps.
LEMMA FlowLooks ==
  ASSUME Kept, NEW B, NEW E, NEW En, NEW F, Analysed(B, E, En, F), NEW p \in 1..Len(code), Comes(code, B, p)
  PROVE  /\ code[p].t = "Goto" => LET q == Place(code, code[p].of) IN
              BehindOn(E, En, p) \subseteq BehindOn(E, En, q) /\ MayRead(E, F, q) \subseteq MayRead(E, F, p)
         /\ code[p].t \in {"Sync", "Return", "ReturnTo", "Jump", "GotoDispatch"} =>
              BehindOn(E, En, p) \subseteq stores[code[p].line] /\ MayRead(E, F, p) = used
         /\ code[p].t = "Block" =>
              /\ BehindOn(E, En, p) \subseteq budgets[code[p].line]
              /\ F[code[p].line][E[p] + Len(EventsOf(code[p])) + 1] \subseteq liveAtBudget[code[p].line]
<1> DEFINE l == code[p].line
           n == E[p] + 1
           e == events[l][n].e
           Looks == {"Goto", "Sync", "Return", "ReturnTo", "Jump", "GotoDispatch", "Block"}
<1> SUFFICES ASSUME code[p].t \in Looks
             PROVE  /\ code[p].t = "Goto" => LET q == Place(code, code[p].of) IN
                         BehindOn(E, En, p) \subseteq BehindOn(E, En, q) /\ MayRead(E, F, q) \subseteq MayRead(E, F, p)
                    /\ code[p].t \in {"Sync", "Return", "ReturnTo", "Jump", "GotoDispatch"} =>
                         BehindOn(E, En, p) \subseteq stores[l] /\ MayRead(E, F, p) = used
                    /\ code[p].t = "Block" =>
                         /\ BehindOn(E, En, p) \subseteq budgets[l]
                         /\ F[l][E[p] + Len(EventsOf(code[p])) + 1] \subseteq liveAtBudget[l]
  OBVIOUS
<1>1. l \in LinesOf(code) /\ E[p] \in Nat /\ Len(events[l]) \in Nat /\ Noticed(LinesOf(code), events, used)
  BY TokenIs
<1>2. /\ Len(EventsOf(code[p])) = 1
      /\ EventsOf(code[p])[1] =
           IF code[p].t \in {"Return", "ReturnTo"} THEN "Leave"
           ELSE IF code[p].t \in {"Jump", "GotoDispatch"} THEN "Dispatch"
           ELSE IF code[p].t = "Block" THEN "Budget" ELSE code[p].t
  <2>1. EventsOf(code[p]) =
           <<IF code[p].t \in {"Return", "ReturnTo"} THEN "Leave"
             ELSE IF code[p].t \in {"Jump", "GotoDispatch"} THEN "Dispatch"
             ELSE IF code[p].t = "Block" THEN "Budget" ELSE code[p].t>>
    BY DEF EventsOf
  <2> QED BY <2>1
<1>3. 1 \in 1..Len(EventsOf(code[p]))
  BY <1>2
<1>4. /\ n \in 1..Len(events[l]) /\ e = EventsOf(code[p])[1] /\ events[l][n].of = code[p].of
      /\ n \in Runs(events, l)
  BY <1>3, TokenIs, ComesRuns
<1>5. l \in 1..code[Len(code)].line
  BY <1>1 DEF LinesOf
<1>6. /\ e = "Goto" => Behinds(events, l, n, En[l]) \subseteq jumped[code[Place(code, events[l][n].of)].line]
      /\ e \in {"Sync", "Leave", "Dispatch"} => Behinds(events, l, n, En[l]) \subseteq stores[l]
      /\ e = "Budget" => Behinds(events, l, n, En[l]) \subseteq budgets[l]
  <2> HIDE DEF l, n
  <2> QED BY <1>4, <1>5 DEF Analysed, Forward
<1>7. /\ e \in {"Sync", "Leave", "Dispatch"} => F[l][n] = used
      /\ e = "Goto" => liveIn[code[Place(code, events[l][n].of)].line] \subseteq F[l][n]
  <2>1. Goes(code, events, used, liveIn, l, F[l])
    BY <1>1 DEF Analysed, BackwardBy
  <2> HIDE DEF l, n
  <2> QED BY <1>4, <2>1 DEF Goes
<1>8. ASSUME code[p].t = "Goto"
      PROVE  LET q == Place(code, code[p].of) IN
               BehindOn(E, En, p) \subseteq BehindOn(E, En, q) /\ MayRead(E, F, q) \subseteq MayRead(E, F, p)
  <2> DEFINE q == Place(code, code[p].of)
  <2>1. code[p].of \in Labels(code)
    BY <1>8, KeptText DEF LabelsStartBlocks
  <2>2. q \in 1..Len(code) /\ (q = 1 \/ code[q - 1].line < code[q].line)
    BY <2>1, KeptText, LabelIs
  <2> HIDE DEF q
  <2>3. E[q] = 0
    BY <2>2, KeptText, FirstOfLine DEF Analysed
  <2>4. code[q].line \in LinesOf(code)
    BY <2>2, TokenIs
  <2>5. e = "Goto"
    BY <1>2, <1>4, <1>8
  <2>6. BehindOn(E, En, p) \subseteq jumped[code[q].line] /\ liveIn[code[q].line] \subseteq MayRead(E, F, p)
    BY <1>4, <1>6, <1>7, <2>5 DEF BehindOn, MayRead, q
  <2>7. jumped[code[q].line] \subseteq En[code[q].line]
    BY <2>4 DEF Analysed, Forward, LinesOf
  <2>8. F[code[q].line][1] \subseteq liveIn[code[q].line]
    BY <2>4 DEF Analysed, BackwardBy
  <2>9. BehindOn(E, En, q) = En[code[q].line] /\ MayRead(E, F, q) = F[code[q].line][1]
    BY <2>3, BehindsFirst DEF BehindOn, MayRead
  <2>10. BehindOn(E, En, p) \subseteq BehindOn(E, En, q) /\ MayRead(E, F, q) \subseteq MayRead(E, F, p)
    BY <2>6, <2>7, <2>8, <2>9
  <2> QED BY <2>10 DEF q
<1>9. ASSUME code[p].t \in {"Sync", "Return", "ReturnTo", "Jump", "GotoDispatch"}
      PROVE  BehindOn(E, En, p) \subseteq stores[l] /\ MayRead(E, F, p) = used
  <2>1. e \in {"Sync", "Leave", "Dispatch"}
    BY <1>2, <1>4, <1>9
  <2> QED BY <1>6, <1>7, <2>1 DEF BehindOn, MayRead
<1>10. ASSUME code[p].t = "Block"
       PROVE  /\ BehindOn(E, En, p) \subseteq budgets[l]
              /\ F[l][E[p] + Len(EventsOf(code[p])) + 1] \subseteq liveAtBudget[l]
  <2>1. e = "Budget"
    BY <1>2, <1>4, <1>10
  <2>2. BehindOn(E, En, p) \subseteq budgets[l]
    BY <1>6, <2>1 DEF BehindOn
  <2>3. p > 1 /\ code[p - 1].t = "Label" /\ p - 1 \in 1..Len(code)
        /\ ((p - 1) + 1 = 1 \/ code[((p - 1) + 1) - 1].line < code[(p - 1) + 1].line)
    BY <1>10, KeptText DEF LabelsStartBlocks
  <2>4. (p - 1) + 1 = p
    OBVIOUS
  <2>5. code[p - 1].line < code[p].line
    BY <2>3, <2>4
  <2>6. E[p] = 0
    BY <2>5, KeptText, FirstOfLine DEF Analysed
  <2>7. n = 1 /\ E[p] + Len(EventsOf(code[p])) + 1 = n + 1 /\ 1..n - 1 = {}
    BY <1>2, <2>6
  <2>8. F[l][n + 1] \subseteq liveAtBudget[l]
    <3> HIDE DEF n, l
    <3> QED BY <1>1, <1>4, <2>1, <2>7 DEF Analysed, BackwardBy
  <2> QED BY <2>2, <2>7, <2>8
<1> QED BY <1>8, <1>9, <1>10

\* What the passes found is such a flow.
LEMMA FlowExists ==
  ASSUME Kept, Passed, phase = "run", NEW B, NEW E, Shape(code, B, E)
  PROVE  \E d, l, a : Flow(code, used, stores, ways, B, d, l, a)
<1>1. PICK En, F : Analysed(B, E, En, F)
  BY AnalysedExists
<1> DEFINE d == [p \in 1..Len(code) |-> BehindOn(E, En, p)]
           l == [p \in 1..Len(code) |-> MayRead(E, F, p)]
           a == [p \in 1..Len(code) |-> ReadsNext(E, p)]
<1>2. \A p \in 1..Len(code) :
         /\ d[p] = BehindOn(E, En, p) /\ l[p] = MayRead(E, F, p) /\ a[p] = ReadsNext(E, p)
         /\ d[p] \in SUBSET used /\ l[p] \in SUBSET used /\ a[p] \in SUBSET used
         /\ a[p] \subseteq l[p]
  BY <1>1, FlowTypes
<1>3. d \in [1..Len(code) -> SUBSET used] /\ l \in [1..Len(code) -> SUBSET used] /\ a \in [1..Len(code) -> SUBSET used]
  BY <1>1, FlowTypes
<1> HIDE DEF d, l, a
<1>4. \A p \in 1..Len(code) : code[p].t \in {"Read", "Modify"} => code[p].of \in a[p]
  <2> SUFFICES ASSUME NEW p \in 1..Len(code), code[p].t \in {"Read", "Modify"} PROVE code[p].of \in a[p]
    OBVIOUS
  <2>1. code[p].t \in Accesses
    BY DEF Accesses
  <2>2. code[p].of \in ReadsNext(E, p)
    BY <1>1, <2>1, FlowReads
  <2> QED BY <1>2, <2>2
<1>5. ASSUME NEW p \in 1..Len(code) - 1, Comes(code, B, p)
      PROVE  /\ (code[p].t \in Leaving \cup {"Sync"} => Guarded(B[p])) => d[p] \subseteq d[p + 1]
             /\ code[p].t \in {"Assign", "Modify"} => code[p].of \in d[p + 1]
             /\ (code[p].t \in Leaving => Guarded(B[p])) =>
                  l[p + 1] \subseteq l[p] \cup {r \in {code[p].of} : code[p].t = "Assign" /\ ~Guarded(B[p])}
             /\ code[p].t \in Accesses => a[p + 1] \subseteq a[p]
             /\ code[p].t = "Block" => (d[p] \cap l[p + 1]) \ {R15} \subseteq ways[code[p].line]
  <2>1. p \in 1..Len(code) /\ p + 1 \in 1..Len(code)
    BY KeptText
  <2>2. d[p] = BehindOn(E, En, p) /\ d[p + 1] = BehindOn(E, En, p + 1) /\ l[p] = MayRead(E, F, p)
        /\ l[p + 1] = MayRead(E, F, p + 1) /\ a[p] = ReadsNext(E, p) /\ a[p + 1] = ReadsNext(E, p + 1)
    BY <1>2, <2>1
  <2>3. /\ (code[p].t \in Leaving \cup {"Sync"} => Guarded(B[p])) => d[p] \subseteq d[p + 1]
        /\ code[p].t \in {"Assign", "Modify"} => code[p].of \in d[p + 1]
        /\ (code[p].t \in Leaving => Guarded(B[p])) =>
              l[p + 1] \subseteq l[p] \cup {r \in {code[p].of} : code[p].t = "Assign" /\ ~Guarded(B[p])}
        /\ (code[p].t \in Leaving => Guarded(B[p])) =>
              l[p + 1] \subseteq F[code[p].line][E[p] + Len(EventsOf(code[p])) + 1]
    BY <1>1, <1>5, <2>2, FlowNext
  <2>4. code[p].t \in Accesses => a[p + 1] \subseteq a[p]
    BY <1>1, <2>1, <2>2, FlowReads
  <2>5. ASSUME code[p].t = "Block"
        PROVE  (d[p] \cap l[p + 1]) \ {R15} \subseteq ways[code[p].line]
    <3>1. code[p].t \notin Leaving
      BY <2>5 DEF Leaving
    <3>2. d[p] \subseteq budgets[code[p].line] /\ l[p + 1] \subseteq liveAtBudget[code[p].line]
      BY <1>1, <1>5, <2>1, <2>2, <2>3, <2>5, <3>1, FlowLooks
    <3>3. \E n \in 1..Len(events[code[p].line]) : events[code[p].line][n].e = "Budget"
      <4>1. EventsOf(code[p]) = <<"Budget">>
        BY <2>5 DEF EventsOf
      <4>2. 1 \in 1..Len(EventsOf(code[p])) /\ EventsOf(code[p])[1] = "Budget"
        BY <4>1
      <4>3. E[p] + 1 \in 1..Len(events[code[p].line]) /\ events[code[p].line][E[p] + 1].e = EventsOf(code[p])[1]
        BY <1>1, <2>1, <4>2, TokenIs
      <4> QED BY <4>2, <4>3
    <3>4. code[p].line \in LinesOf(code)
      BY <1>1, <2>1, TokenIs
    <3>5. (budgets[code[p].line] \cap liveAtBudget[code[p].line]) \ {R15} \subseteq ways[code[p].line]
      BY <1>1, <3>3, <3>4 DEF Analysed
    <3> QED BY <3>2, <3>5
  <2> QED BY <2>3, <2>4, <2>5
<1>6. ASSUME NEW p \in 1..Len(code), Comes(code, B, p)
      PROVE  /\ code[p].t = "Goto" =>
                  d[p] \subseteq d[Place(code, code[p].of)] /\ l[Place(code, code[p].of)] \subseteq l[p]
             /\ code[p].t \in {"Sync", "Return", "ReturnTo", "Jump", "GotoDispatch"} =>
                  d[p] \subseteq stores[code[p].line] /\ l[p] = used
  <2>1. ASSUME code[p].t = "Goto"
        PROVE  d[p] \subseteq d[Place(code, code[p].of)] /\ l[Place(code, code[p].of)] \subseteq l[p]
    <3>1. code[p].of \in Labels(code)
      BY <2>1, KeptText DEF LabelsStartBlocks
    <3>2. Place(code, code[p].of) \in 1..Len(code)
      BY <3>1, KeptText, LabelIs
    <3>3. LET q == Place(code, code[p].of) IN
            BehindOn(E, En, p) \subseteq BehindOn(E, En, q) /\ MayRead(E, F, q) \subseteq MayRead(E, F, p)
      BY <1>1, <1>6, <2>1, FlowLooks
    <3> QED BY <1>2, <3>2, <3>3
  <2>2. code[p].t \in {"Sync", "Return", "ReturnTo", "Jump", "GotoDispatch"} =>
          d[p] \subseteq stores[code[p].line] /\ l[p] = used
    BY <1>1, <1>2, <1>6, FlowLooks
  <2> QED BY <2>1, <2>2
<1>7. Flow(code, used, stores, ways, B, d, l, a)
  BY <1>2, <1>3, <1>4, <1>5, <1>6 DEF Flow
<1> QED BY <1>7

-----------------------------------------------------------------------------
(* Where execution is *)

\* Past the last label, a token from which execution surely leaves.
LastLeaves(c, z) ==
  /\ z \in 1..Len(c)
  /\ c[z].t \in Leaving
  /\ \A p \in z + 1..Len(c) : c[p].t # "Label"
  /\ \A p \in 1..z - 1 : c[p].t \in {"Then", "Else"} => StatementEnd(c, p + 1) < z

\* What is so of the state it runs in, whatever the passes find.
Placed ==
  /\ \A z : LastLeaves(code, z) => at \in 1..z
  /\ where \in {"in", "called", "left", "stopped"}
  /\ where = "called" => code[at].t = "Sync"
  /\ target \in Labels(code) \cup {Elsewhere}
  /\ where = "stopped" => target \in Labels(code)
  /\ ctx \subseteq used \cup {R15} /\ loc \subseteq used \cup {R15} /\ writing \subseteq used
  /\ where # "in" => writing = {}
  /\ phase # "run" => where = "left" /\ ctx = {} /\ loc = {}

LEMMA LastExists ==
  ASSUME NEW c, LeavesAtTheEnd(c)
  PROVE  \E z : LastLeaves(c, z)
BY DEF LeavesAtTheEnd, LastLeaves, Leaving

\* Execution is short of the last token, unless it leaves there.
LEMMA PlacedAt ==
  ASSUME Kept, Placed
  PROVE  /\ at \in 1..Len(code)
         /\ code[at].t \notin Leaving => at \in 1..Len(code) - 1
         /\ code[at].t \in {"Then", "Else"} => StatementEnd(code, at + 1) + 1 \in 1..Len(code)
<1>1. PICK z : LastLeaves(code, z)
  BY KeptText, LastExists
<1>2. at \in 1..z /\ z \in 1..Len(code) /\ code[z].t \in Leaving /\ Len(code) \in Nat
  BY <1>1, KeptText DEF Placed, LastLeaves
<1>3. ASSUME code[at].t \in {"Then", "Else"}
      PROVE  StatementEnd(code, at + 1) + 1 \in 1..Len(code)
  <2>1. at \in 1..z - 1 /\ at \in 1..Len(code)
    BY <1>2, <1>3 DEF Leaving
  <2>2. StatementEnd(code, at + 1) < z
    BY <1>1, <1>3, <2>1 DEF LastLeaves
  <2>3. PICK B, E : Shape(code, B, E)
    BY KeptText, ShapeExists
  <2>4. StatementEnd(code, at + 1) \in at + 1..Len(code)
    BY <1>3, <2>1, <2>3, KeptText, SkipsGuarded
  <2> QED BY <1>2, <2>2, <2>4
<1> QED BY <1>2, <1>3

LEMMA KeptUsed ==
  ASSUME Kept, NEW p \in 1..Len(code), phase = "run", code[p].t \in Accesses
  PROVE  code[p].of \in used
<1>1. PICK B, E : Shape(code, B, E)
  BY KeptText, ShapeExists
<1> QED BY <1>1 DEF Kept, Scanned

\* Where execution goes on, it is short of the last token still.
LEMMA GoesBefore ==
  ASSUME Kept, Placed, Step, NEW z, LastLeaves(code, z)
  PROVE  at' \in 1..z
<1>1. at \in 1..z /\ z \in 1..Len(code) /\ code[z].t \in Leaving /\ Len(code) \in Nat /\ z \in Nat
  BY KeptText DEF Placed, LastLeaves
<1>2. code[at].t \notin Leaving => at + 1 \in 1..z
  BY <1>1
<1>3. ASSUME NEW label \in Labels(code) \cup {Dispatch}
      PROVE  Place(code, label) \in 1..z
  <2>1. Place(code, label) \in 1..Len(code) /\ code[Place(code, label)].t = "Label"
    BY KeptText, LabelIs
  <2>2. Place(code, label) \notin z + 1..Len(code)
    BY <2>1 DEF LastLeaves
  <2> QED BY <1>1, <2>1, <2>2
<1>4. ASSUME code[at].t \in {"Then", "Else"}
      PROVE  /\ StatementEnd(code, at + 1) + 1 \in 1..z
             /\ code[StatementEnd(code, at + 1) + 1].t = "Else" => StatementEnd(code, at + 1) + 2 \in 1..z
  <2>1. at \in 1..z - 1
    BY <1>1, <1>4 DEF Leaving
  <2>2. StatementEnd(code, at + 1) < z
    BY <1>4, <2>1 DEF LastLeaves
  <2>3. StatementEnd(code, at + 1) + 1 \in 1..Len(code)
    BY <1>4, PlacedAt
  <2> DEFINE e == StatementEnd(code, at + 1)
  <2>4. e + 1 \in 1..Len(code) /\ e < z
    BY <2>2, <2>3
  <2>5. code[e + 1].t = "Else" => e + 1 # z
    BY <1>1 DEF Leaving
  <2>6. e \in Int
    <3>1. PICK B, E : Shape(code, B, E)
      BY KeptText, ShapeExists
    <3>2. at \in 1..Len(code)
      BY PlacedAt
    <3>3. e \in at + 1..Len(code)
      BY <1>4, <3>1, <3>2, KeptText, SkipsGuarded
    <3> HIDE DEF e
    <3> QED BY <3>3
  <2>7. e + 1 \in 1..z /\ (code[e + 1].t = "Else" => e + 2 \in 1..z)
    <3> HIDE DEF e
    <3> QED BY <1>1, <2>4, <2>5, <2>6
  <2> QED BY <2>7
<1>5. CASE Access
  <2>1. code[at].t \notin Leaving /\ at' = at + 1
    BY <1>5 DEF Access, Accesses, Leaving, Now
  <2> QED BY <1>2, <2>1
<1>6. CASE Pass
  <2>1. code[at].t \notin Leaving /\ at' = at + 1
    BY <1>6 DEF Pass, Go, Leaving, Now
  <2> QED BY <1>2, <2>1
<1>7. CASE Else
  BY <1>4, <1>7 DEF Else, Go, Now
<1>8. CASE Taken
  <2>1. code[at].t \notin Leaving /\ at' = at + 1
    BY <1>8 DEF Taken, Go, Leaving, Now
  <2> QED BY <1>2, <2>1
<1>9. CASE NotTaken
  <2>1. code[at].t \in {"Then", "Else"} /\ at' = Past(at + 1)
    BY <1>9 DEF NotTaken, Go, Now
  <2> QED BY <1>4, <2>1 DEF Past
<1>10. CASE Goto
  <2>1. code[at].t = "Goto" /\ at' = Place(code, code[at].of) /\ at \in 1..Len(code)
    BY <1>10, PlacedAt DEF Goto, Go, Now
  <2>2. code[at].of \in Labels(code)
    BY <2>1, KeptText DEF LabelsStartBlocks
  <2> QED BY <1>3, <2>1, <2>2
<1>11. CASE Fits
  <2>1. code[at].t \notin Leaving /\ at' = at + 1
    BY <1>11 DEF Fits, Go, Leaving, Now
  <2> QED BY <1>2, <2>1
<1>12. CASE OutOfBudget \/ SyncOut \/ Exited \/ Return
  BY <1>1, <1>12 DEF OutOfBudget, SyncOut, Exited, Return
<1>13. CASE SyncIn
  <2>1. code[at].t = "Sync" /\ at' = at + 1
    BY <1>13 DEF SyncIn, Placed
  <2> QED BY <1>2, <2>1 DEF Leaving
<1>14. CASE ReturnedElsewhere \/ DispatchTo
  <2>1. at' = Place(code, Dispatch)
    BY <1>14 DEF ReturnedElsewhere, DispatchTo, Go
  <2> QED BY <1>3, <2>1
<1>15. CASE Enter
  BY <1>1, <1>15 DEF Enter
<1> QED BY <1>5, <1>6, <1>7, <1>8, <1>9, <1>10, <1>11, <1>12, <1>13, <1>14, <1>15 DEF Step

\* The context and the locals have registers of the function's, and r15.
LEMMA GoesWith ==
  ASSUME Kept, Placed, Step
  PROVE  /\ ctx' \subseteq used \cup {R15} /\ loc' \subseteq used \cup {R15} /\ writing' \subseteq used
         /\ where' # "in" => writing' = {}
<1>1. ctx \subseteq used \cup {R15} /\ loc \subseteq used \cup {R15} /\ writing \subseteq used
      /\ (where # "in" => writing = {})
  BY DEF Placed
<1>2. \A set : Stored(set) \subseteq used \cup {R15}
  BY <1>1 DEF Stored, Written
<1>3. Written.ctx \subseteq used \cup {R15} /\ Written.loc \subseteq used \cup {R15}
  BY <1>1 DEF Written
<1>4. CASE Access
  <2>1. at \in 1..Len(code) /\ phase = "run" /\ code[at].t \in Accesses
    BY <1>4, PlacedAt DEF Access, Run, Now
  <2>2. code[at].of \in used
    BY <2>1, KeptUsed
  <2> QED BY <1>1, <1>4, <2>2 DEF Access, Run, Now
<1>5. CASE Pass \/ Else \/ Taken \/ NotTaken \/ Goto \/ Fits \/ ReturnedElsewhere
  BY <1>3, <1>5 DEF Pass, Else, Taken, NotTaken, Goto, Fits, ReturnedElsewhere, Go
<1>6. CASE OutOfBudget \/ SyncOut \/ Return
  BY <1>2, <1>6 DEF OutOfBudget, SyncOut, Return
<1>7. CASE SyncIn \/ Exited \/ Enter
  BY <1>1, <1>7 DEF SyncIn, Exited, Enter
<1>8. CASE DispatchTo
  BY <1>2, <1>3, <1>8 DEF DispatchTo
<1> QED BY <1>4, <1>5, <1>6, <1>7, <1>8 DEF Step

LEMMA PlacedNext == Kept /\ Placed /\ [Next]_vars => Placed'
<1> SUFFICES ASSUME Kept, Placed, [Next]_vars PROVE Placed'
  OBVIOUS
<1>1. CASE Keep
  <2>1. code' = code /\ UNCHANGED <<at, where, target, loc, writing>> /\ phase # "run"
    BY <1>1 DEF Keep, Scan, Behind, Live, Ways, running
  <2>2. used \subseteq used'
    BY <1>1 DEF Keep, Scan, Behind, Live, Ways, analysis, scanning
  <2>3. ctx' = ctx \/ (ctx' = used' /\ phase' = "run")
    BY <1>1 DEF Keep, Scan, Behind, Live, Ways, running, analysis, scanning
  <2> QED BY <2>1, <2>2, <2>3 DEF Placed
<1>2. CASE Step
  <2>1. phase = "run" /\ code' = code /\ phase' = phase /\ used' = used
    BY <1>2, StepLeaves DEF analysis, scanning
  <2>2. \A z : LastLeaves(code', z) => at' \in 1..z
    BY <1>2, <2>1, GoesBefore
  <2>3. /\ where' \in {"in", "called", "left", "stopped"}
        /\ where' = "called" => code'[at'].t = "Sync"
    BY <1>2 DEF Placed, Step, Run, Now, Access, Pass, Else, Taken, NotTaken, Goto, Fits, OutOfBudget, SyncOut, SyncIn,
                Exited, ReturnedElsewhere, Return, DispatchTo, Enter
  <2>4. /\ target' \in Labels(code') \cup {Elsewhere}
        /\ where' = "stopped" => target' \in Labels(code')
    <3>1. CASE OutOfBudget
      <4>1. code[at].t = "Block" /\ target' = code[at].of /\ at \in 1..Len(code)
        BY <3>1, PlacedAt DEF OutOfBudget, Now
      <4>2. code[at].of \in Labels(code)
        <5>1. at - 1 \in 1..Len(code) /\ code[at - 1].t = "Label" /\ code[at - 1].of # Dispatch
              /\ code[(at - 1) + 1].of = code[at - 1].of
          BY <4>1, KeptText DEF LabelsStartBlocks
        <5>2. (at - 1) + 1 = at
          BY <4>1
        <5>3. ToSet(code) = {code[q] : q \in 1..Len(code)}
          BY KeptText, TextIs DEF ToSet
        <5> QED BY <5>1, <5>2, <5>3 DEF Labels
      <4> QED BY <2>1, <4>1, <4>2
    <3>2. CASE ~OutOfBudget
      BY <1>2, <2>1, <3>2 DEF Placed, Step, Run, Access, Pass, Else, Taken, NotTaken, Goto, Fits, SyncOut, SyncIn,
                   Exited, ReturnedElsewhere, Return, DispatchTo, Enter
    <3> QED BY <3>1, <3>2
  <2>5. /\ ctx' \subseteq used' \cup {R15} /\ loc' \subseteq used' \cup {R15} /\ writing' \subseteq used'
        /\ where' # "in" => writing' = {}
    BY <1>2, <2>1, GoesWith
  <2> QED BY <2>1, <2>2, <2>3, <2>4, <2>5 DEF Placed
<1>3. CASE UNCHANGED vars
  BY <1>3 DEF vars, running, analysis, scanning, Placed
<1> QED BY <1>1, <1>2, <1>3 DEF Next

LEMMA PlacedFirst == Init => Placed
BY DEF Init, Placed, LastLeaves

LEMMA TypesAreRight == Kept /\ Placed => TypeOK
<1> SUFFICES ASSUME Kept, Placed PROVE TypeOK
  OBVIOUS
<1>1. Lines = LinesOf(code)
  BY LinesAre
<1>2. i \in (IF phase = "scan" THEN 1..Len(code) ELSE Lines) /\ changed \in BOOLEAN /\ falling \subseteq used
      /\ phase \in {"scan", "behind", "live", "ways", "run"}
  BY <1>1 DEF Kept
<1>3. \A l \in Lines : /\ jumped[l] \subseteq used /\ stores[l] \subseteq used
                       /\ budgets[l] \subseteq used /\ liveIn[l] \subseteq used
                       /\ liveAtBudget[l] \subseteq used /\ falls[l] \in BOOLEAN
  BY <1>1 DEF Kept, Found
<1>4. at \in 1..Len(code)
  BY PlacedAt
<1> QED BY <1>2, <1>3, <1>4 DEF TypeOK, Placed

-----------------------------------------------------------------------------
(* What the context and the locals have right *)

\* Past an if or an else that is not taken everything is as it was before it.
LEMMA SkipFlow ==
  ASSUME NEW c, LinesFollow(c), StatementsAreWhole(c), NEW B, NEW E, Shape(c, B, E),
         NEW us, NEW st, NEW wy, NEW d, NEW l, NEW a, Flow(c, us, st, wy, B, d, l, a),
         NEW p \in 1..Len(c), c[p].t \in {"Then", "Else"}, Comes(c, B, p),
         StatementEnd(c, p + 1) + 1 \in 1..Len(c)
  PROVE  /\ Comes(c, B, StatementEnd(c, p + 1) + 1)
         /\ d[p] \subseteq d[StatementEnd(c, p + 1) + 1]
         /\ l[StatementEnd(c, p + 1) + 1] \subseteq l[p]
<1> DEFINE e == StatementEnd(c, p + 1)
           T == {q \in 1..Len(c) : Comes(c, B, q) /\ d[p] \subseteq d[q] /\ l[q] \subseteq l[p]}
<1>1. e \in p + 1..Len(c) /\ e + 1 \in 1..Len(c) /\ \A r \in p + 1..e : Guarded(B[r])
  BY SkipsGuarded
<1>2. Len(c) \in Nat
  BY TextIs
<1> HIDE DEF e
<1>3. p \in T
  BY DEF T
<1>4. ASSUME NEW q \in p..(e + 1) - 1, q \in T
      PROVE  q + 1 \in T
  <2>1. q \in 1..Len(c) - 1 /\ q + 1 \in 1..Len(c) /\ q \in 1..Len(c) /\ (q = p \/ q \in p + 1..e)
    BY <1>1, <1>2
  <2>2. Comes(c, B, q) /\ d[p] \subseteq d[q] /\ l[q] \subseteq l[p]
    BY <1>4
  <2>3. c[q].t \in Leaving \cup {"Sync"} => Guarded(B[q])
    BY <1>1, <2>1 DEF Leaving
  <2>4. c[q].t = "Assign" => q # p
    OBVIOUS
  <2>5. Comes(c, B, q + 1)
    BY <2>1, <2>2, <2>3, ComesNext
  <2>6. d[q] \subseteq d[q + 1]
    BY <2>1, <2>2, <2>3 DEF Flow
  <2>7. l[q + 1] \subseteq l[q] \cup {r \in {c[q].of} : c[q].t = "Assign" /\ ~Guarded(B[q])}
    BY <2>1, <2>2, <2>3 DEF Flow
  <2>8. ~(c[q].t = "Assign" /\ ~Guarded(B[q]))
    BY <1>1, <2>1, <2>4
  <2>9. l[q + 1] \subseteq l[q]
    BY <2>7, <2>8
  <2> QED BY <2>1, <2>2, <2>5, <2>6, <2>9
<1>5. p..e + 1 \subseteq T
  <2>1. p \in Nat /\ e + 1 \in Nat
    BY <1>1, <1>2
  <2> HIDE DEF T
  <2> QED BY <1>3, <1>4, <2>1, Upwards
<1>6. e + 1 \in T
  <2>1. e + 1 \in p..e + 1
    BY <1>1, <1>2
  <2> HIDE DEF T
  <2> QED BY <1>5, <2>1
<1> QED BY <1>6 DEF e

\* Past an if or an else is no check of where a call returned to, nor the end of
\* the call.
LEMMA SkipsNoCall ==
  ASSUME NEW c, LinesFollow(c), StatementsAreWhole(c), NEW B, NEW E, Shape(c, B, E),
         NEW p \in 1..Len(c), c[p].t \in {"Then", "Else"},
         NEW k \in 1..Len(c), c[k].t = "Returned"
  PROVE  /\ StatementEnd(c, p + 1) + 1 \notin {k - 1, k}
         /\ c[StatementEnd(c, p + 1) + 1].t = "Else" => StatementEnd(c, p + 1) + 2 \notin {k - 1, k}
<1> DEFINE e == StatementEnd(c, p + 1)
<1>1. /\ e \in p + 1..Len(c) /\ c[e].t \in {"Semi", "GotoDispatch", "Close"}
      /\ c[e].t = "Semi" => \A r \in p + 1..e - 1 : c[r].t \notin {"Open", "Semi", "GotoDispatch", "Close"}
  BY SkipsGuarded
<1>2. k > 3 /\ c[k - 1].t = "Semi" /\ c[k - 2].t = "Sync" /\ c[k - 3].t \in {"Semi", "Close"}
  BY DEF StatementsAreWhole
<1>3. Len(c) \in Nat
  BY TextIs
<1> HIDE DEF e
<1>4. ASSUME e + 1 = k PROVE FALSE
  <2>1. e = k - 1
    BY <1>1, <1>3, <1>4
  <2>2. c[e].t = "Semi"
    BY <1>2, <2>1
  <2>3. k - 3 \notin p + 1..e - 1
    BY <1>1, <1>2, <2>2
  <2>4. p # k - 3
    BY <1>2
  <2>5. p # k - 2
    BY <1>2
  <2> QED BY <1>1, <1>2, <1>3, <2>1, <2>3, <2>4, <2>5
<1>5. ASSUME e + 1 = k - 1 PROVE FALSE
  <2>1. e = k - 2
    BY <1>1, <1>3, <1>5
  <2> QED BY <1>1, <1>2, <2>1
<1>6. ASSUME c[e + 1].t = "Else" PROVE e + 2 \notin {k - 1, k}
  <2>1. e + 2 = k - 1 => e + 1 = k - 2
    BY <1>1, <1>3
  <2>2. e + 2 = k => e + 1 = k - 1
    BY <1>1, <1>3
  <2> QED BY <1>2, <1>6, <2>1, <2>2
<1>7. e + 1 \notin {k - 1, k}
  BY <1>4, <1>5
<1> QED BY <1>6, <1>7 DEF e

\* Execution came to where it is as the passes have it.  A register the context
\* is not behind on is right there, one that may be read is so in its local, and
\* where a call is over the function has yet to find out where it returned to,
\* both have all of them.
Normal(B, d, l, a) ==
  /\ Comes(code, B, at)
  /\ used \ d[at] \subseteq ctx \ writing
  /\ a[at] \subseteq loc /\ l[at] \ writing \subseteq loc
  /\ writing # {} => at > 1 /\ code[at - 1].t \in Accesses
  /\ \A p \in 1..Len(code) : code[p].t = "Returned" /\ at \in {p - 1, p} => used \subseteq ctx /\ used \subseteq loc

\* The context has right what it is not behind on at the block target names, and
\* what may be read past its check.
Old(d, l) ==
  /\ used \ d[Place(code, target) + 1] \subseteq ctx
  /\ l[Place(code, target) + 2] \subseteq ctx

\* The case of a label that CasesLeadIn has.
CaseOf(c, p) ==
  /\ c[p].t = "Then" /\ c[p].of \in Labels(c)
  /\ p + 3 <= Len(c)
  /\ c[p + 1].t = "Goto" /\ c[p + 1].of = c[p].of
  /\ c[p + 2].t = "Semi" /\ c[p + 3].t # "Else"
LeadsIn(c, label, p) ==
  /\ p \in 1..Len(c) /\ CaseOf(c, p) /\ c[p].of = label
  /\ \A q \in 1..p : \/ c[q].t \in {"Semi", "Guard", "Open", "Label"}
                     \/ (c[q].t = "Read" /\ c[q].of = R15)
                     \/ (c[q].t = "Then" /\ c[q].of = OwnState)
                     \/ CaseOf(c, q)
                     \/ (c[q].t = "Goto" /\ q > 1 /\ CaseOf(c, q - 1))

\* Execution is on its way back to the block that the budget stopped it at.
Resuming(d, l) ==
  /\ target \in Labels(code) /\ writing = {} /\ R15 \in loc /\ Old(d, l)
  /\ \/ \E p : LeadsIn(code, target, p) /\ at \in 1..p + 1 /\ (code[at].t = "Goto" => code[at].of = target)
     \/ at \in {Place(code, target), Place(code, target) + 1}

Right(B, d, l, a) ==
  /\ where \in {"called", "left"} => used \subseteq ctx
  /\ where = "called" => Comes(code, B, at)
  /\ where = "stopped" => R15 \in ctx /\ Old(d, l)
  /\ where = "in" => ctx \subseteq loc /\ (Normal(B, d, l, a) \/ Resuming(d, l))

\* So for whatever the passes' findings come to, and there is such a flow.
RightThroughout ==
  phase = "run" => \A B, E, d, l, a :
    Shape(code, B, E) /\ Flow(code, used, stores, ways, B, d, l, a) => Right(B, d, l, a)

LEMMA LeadsInExists ==
  ASSUME NEW c, CasesLeadIn(c), NEW label \in Labels(c)
  PROVE  \E p : LeadsIn(c, label, p)
BY DEF CasesLeadIn, LeadsIn, CaseOf

\* Where nothing changes but where execution is, what was right is.
LEMMA GoesOn ==
  ASSUME Kept, NEW B, NEW us, NEW st, NEW wy, NEW d, NEW l, NEW a, Flow(code, us, st, wy, B, d, l, a),
         Normal(B, d, l, a),
         NEW q \in 1..Len(code), Go(q), code' = code, used' = used,
         Comes(code, B, q), d[at] \subseteq d[q], l[q] \subseteq l[at],
         \A p \in 1..Len(code) : code[p].t = "Returned" /\ q \in {p - 1, p} =>
           writing = {} /\ used \subseteq ctx /\ used \subseteq loc
  PROVE  Normal(B, d, l, a)'
<1>1. at' = q /\ ctx' = ctx \ writing /\ loc' = loc \cup writing /\ writing' = {}
  BY DEF Go, Written
<1>2. Comes(code', B, at')
  BY <1>1
<1>3. used \ d[q] \subseteq ctx \ writing
  BY DEF Normal
<1>4. l[q] \subseteq loc \cup writing
  BY DEF Normal
<1>5. a[q] \subseteq l[q]
  BY DEF Flow
<1>6. \A p \in 1..Len(code') : code'[p].t = "Returned" /\ at' \in {p - 1, p} => used' \subseteq ctx' /\ used' \subseteq loc'
  BY <1>1
<1> QED BY <1>1, <1>2, <1>3, <1>4, <1>5, <1>6 DEF Normal

\* SYNC_OUT makes the context whole, and where dispatch goes on the locals are.
LEMMA StoresAll ==
  ASSUME Kept, NEW B, NEW wy, NEW d, NEW l, NEW a, Flow(code, used, stores, wy, B, d, l, a),
         Normal(B, d, l, a), at \in 1..Len(code),
         code[at].t \in {"Sync", "Return", "ReturnTo", "Jump", "GotoDispatch"}
  PROVE  used \subseteq Stored(stores[code[at].line]) /\ used \subseteq Written.loc
<1>1. Comes(code, B, at) /\ used \ d[at] \subseteq ctx \ writing /\ l[at] \ writing \subseteq loc
  BY DEF Normal
<1>2. d[at] \subseteq stores[code[at].line] /\ l[at] = used
  BY <1>1 DEF Flow
<1>3. used \subseteq loc \cup writing
  BY <1>1, <1>2
<1> QED BY <1>1, <1>2, <1>3 DEF Stored, Written

Flows(B, E, d, l, a) == Shape(code, B, E) /\ Flow(code, used, stores, ways, B, d, l, a)

LEMMA StepKeeps ==
  ASSUME Step
  PROVE  code' = code /\ used' = used /\ stores' = stores /\ ways' = ways /\ phase = "run" /\ phase' = "run"
BY StepLeaves DEF analysis, scanning, forwards

\* A statement's reads and writes, one after another.
LEMMA RightAccess ==
  ASSUME Kept, Placed, NEW B, NEW E, NEW d, NEW l, NEW a, Flows(B, E, d, l, a),
         Normal(B, d, l, a), ctx \subseteq loc, Access
  PROVE  Right(B, d, l, a)'
<1>1. /\ code' = code /\ used' = used /\ where' = "in" /\ ctx' = ctx /\ loc' = loc /\ at' = at + 1
      /\ code[at].t \in Accesses
      /\ writing' = IF code[at].t = "Read" THEN writing ELSE writing \cup {code[at].of}
  <2>1. Step
    BY DEF Step
  <2> QED BY <2>1, StepKeeps DEF Access, Run, Now
<1>2. at \in 1..Len(code) - 1 /\ at \in 1..Len(code) /\ code[at].t \notin Leaving \cup {"Sync"}
  BY <1>1, PlacedAt DEF Accesses, Leaving
<1>3. LinesFollow(code) /\ StatementsAreWhole(code) /\ Len(code) \in Nat
  BY KeptText
<1>4. Comes(code, B, at)
  BY DEF Normal
<1>5. Comes(code, B, at + 1)
  BY <1>2, <1>3, <1>4, ComesNext
<1>6. /\ d[at] \subseteq d[at + 1] /\ a[at + 1] \subseteq a[at]
      /\ code[at].t \in {"Assign", "Modify"} => code[at].of \in d[at + 1]
      /\ l[at + 1] \subseteq l[at] \cup {r \in {code[at].of} : code[at].t = "Assign" /\ ~Guarded(B[at])}
  BY <1>1, <1>2, <1>4 DEF Flows, Flow
<1>7. used \ d[at + 1] \subseteq ctx \ writing'
  BY <1>1, <1>6 DEF Normal, Accesses
<1>8. l[at + 1] \ writing' \subseteq loc
  BY <1>1, <1>6 DEF Normal, Accesses
<1>9. a[at + 1] \subseteq loc
  BY <1>6 DEF Normal
<1>10. (at + 1) - 1 = at /\ at + 1 > 1
  BY <1>2
<1>11. ASSUME NEW p \in 1..Len(code), code[p].t = "Returned"
       PROVE  at + 1 \notin {p - 1, p}
  <2>1. p > 3 /\ code[p - 1].t = "Semi" /\ code[p - 2].t = "Sync"
    BY <1>3, <1>11 DEF StatementsAreWhole
  <2>2. at + 1 = p - 1 => at = p - 2
    BY <1>2
  <2>3. at + 1 = p => at = p - 1
    BY <1>2
  <2> QED BY <1>1, <2>1, <2>2, <2>3 DEF Accesses
<1>12. Normal(B, d, l, a)'
  BY <1>1, <1>5, <1>7, <1>8, <1>9, <1>10, <1>11 DEF Normal
<1> QED BY <1>1, <1>12 DEF Right

\* On to the next token.
LEMMA RightOn ==
  ASSUME Kept, Placed, NEW B, NEW E, NEW d, NEW l, NEW a, Flows(B, E, d, l, a),
         Normal(B, d, l, a), ctx \subseteq loc, Pass \/ Taken \/ Fits
  PROVE  Right(B, d, l, a)'
<1>1. /\ code' = code /\ used' = used /\ where' = "in" /\ Go(at + 1)
      /\ code[at].t \in {"Guard", "Quest", "Open", "Close", "Semi", "Label", "Returned", "Then", "Block"}
  <2>1. Step
    BY DEF Step
  <2> QED BY <2>1, StepKeeps DEF Pass, Taken, Fits, Run, Now
<1>2. at \in 1..Len(code) - 1 /\ at \in 1..Len(code) /\ at + 1 \in 1..Len(code)
      /\ code[at].t \notin Leaving \cup {"Sync", "Assign"}
  BY <1>1, PlacedAt, KeptText DEF Leaving
<1>3. LinesFollow(code) /\ StatementsAreWhole(code) /\ Len(code) \in Nat
  BY KeptText
<1>4. Comes(code, B, at)
  BY DEF Normal
<1>5. Comes(code, B, at + 1)
  BY <1>2, <1>3, <1>4, ComesNext
<1>6. d[at] \subseteq d[at + 1]
      /\ l[at + 1] \subseteq l[at] \cup {r \in {code[at].of} : code[at].t = "Assign" /\ ~Guarded(B[at])}
  BY <1>2, <1>4 DEF Flows, Flow
<1>7. l[at + 1] \subseteq l[at]
  BY <1>2, <1>6
<1>8. ASSUME NEW p \in 1..Len(code), code[p].t = "Returned", at + 1 \in {p - 1, p}
      PROVE  writing = {} /\ used \subseteq ctx /\ used \subseteq loc
  <2>1. p > 3 /\ code[p - 1].t = "Semi" /\ code[p - 2].t = "Sync"
    BY <1>3, <1>8 DEF StatementsAreWhole
  <2>2. at + 1 # p - 1
    <3>1. at + 1 = p - 1 => at = p - 2
      BY <1>2
    <3> QED BY <1>2, <2>1, <3>1
  <2>3. at = p - 1 /\ at - 1 = p - 2
    BY <1>2, <1>8, <2>2
  <2>4. used \subseteq ctx /\ used \subseteq loc
    BY <1>8, <2>3 DEF Normal
  <2>5. writing = {}
    BY <2>1, <2>3 DEF Normal, Accesses
  <2> QED BY <2>4, <2>5
<1>9. Normal(B, d, l, a)'
  BY <1>1, <1>2, <1>5, <1>6, <1>7, <1>8, GoesOn DEF Flows
<1>10. ctx' \subseteq loc'
  BY <1>1 DEF Go, Written
<1> QED BY <1>1, <1>9, <1>10 DEF Right

\* Past what an if or an else leaves out.
LEMMA RightSkips ==
  ASSUME Kept, Placed, NEW B, NEW E, NEW d, NEW l, NEW a, Flows(B, E, d, l, a),
         Normal(B, d, l, a), ctx \subseteq loc, Else \/ NotTaken
  PROVE  Right(B, d, l, a)'
<1> DEFINE e == StatementEnd(code, at + 1)
<1>1. /\ code' = code /\ used' = used /\ where' = "in" /\ code[at].t \in {"Then", "Else"}
      /\ Go(e + 1) \/ (code[e + 1].t = "Else" /\ Go(e + 2))
  <2>1. Step
    BY DEF Step
  <2>2. code' = code /\ used' = used /\ where' = "in" /\ code[at].t \in {"Then", "Else"}
    BY <2>1, StepKeeps DEF Else, NotTaken, Run, Now
  <2>3. Go(e + 1) \/ (code[e + 1].t = "Else" /\ Go(e + 2))
    BY DEF Else, NotTaken, Past
  <2> QED BY <2>2, <2>3
<1>2. at \in 1..Len(code) /\ e + 1 \in 1..Len(code)
  BY <1>1, PlacedAt
<1>3. LinesFollow(code) /\ StatementsAreWhole(code) /\ Len(code) \in Nat
  BY KeptText
<1>4. Comes(code, B, at)
  BY DEF Normal
<1>5. Comes(code, B, e + 1) /\ d[at] \subseteq d[e + 1] /\ l[e + 1] \subseteq l[at]
  BY <1>1, <1>2, <1>3, <1>4, SkipFlow DEF Flows
<1>6. \A p \in 1..Len(code) : code[p].t = "Returned" =>
        e + 1 \notin {p - 1, p} /\ (code[e + 1].t = "Else" => e + 2 \notin {p - 1, p})
  BY <1>1, <1>2, <1>3, SkipsNoCall DEF Flows
<1>7. e \in Int
  <2>1. e \in at + 1..Len(code)
    BY <1>1, <1>2, <1>3, SkipsGuarded DEF Flows
  <2> HIDE DEF e
  <2> QED BY <2>1
<1> HIDE DEF e
<1>8. ASSUME Go(e + 1)
      PROVE  Normal(B, d, l, a)'
  BY <1>1, <1>2, <1>5, <1>6, <1>8, GoesOn DEF Flows
<1>9. ASSUME code[e + 1].t = "Else", Go(e + 2)
      PROVE  Normal(B, d, l, a)'
  <2>1. \E z : LastLeaves(code, z)
    BY KeptText, LastExists
  <2>2. Step
    BY DEF Step
  <2>3. at' \in 1..Len(code)
    <3>1. PICK z : LastLeaves(code, z)
      BY <2>1
    <3>2. at' \in 1..z /\ z \in 1..Len(code)
      BY <2>2, <3>1, GoesBefore DEF LastLeaves
    <3> QED BY <1>3, <3>2
  <2>4. e + 2 \in 1..Len(code)
    BY <1>9, <2>3 DEF Go
  <2>5. e + 1 \in 1..Len(code) - 1 /\ (e + 1) + 1 = e + 2 /\ code[e + 1].t \notin Leaving \cup {"Sync", "Assign"}
    BY <1>2, <1>3, <1>7, <1>9, <2>4 DEF Leaving
  <2>6. Comes(code, B, (e + 1) + 1)
    BY <1>3, <1>5, <2>5, ComesNext
  <2>7. d[e + 1] \subseteq d[(e + 1) + 1]
        /\ l[(e + 1) + 1] \subseteq l[e + 1] \cup {r \in {code[e + 1].of} : code[e + 1].t = "Assign" /\ ~Guarded(B[e + 1])}
    BY <1>5, <2>5 DEF Flows, Flow
  <2>8. Comes(code, B, e + 2) /\ d[at] \subseteq d[e + 2] /\ l[e + 2] \subseteq l[at]
    <3>1. l[e + 2] \subseteq l[e + 1]
      BY <2>5, <2>7
    <3> QED BY <1>5, <2>5, <2>6, <2>7, <3>1
  <2> QED BY <1>1, <1>6, <1>9, <2>4, <2>8, GoesOn DEF Flows
<1>10. ctx' \subseteq loc'
  BY <1>1 DEF Go, Written
<1> QED BY <1>1, <1>8, <1>9, <1>10 DEF Right

\* To a label.
LEMMA RightGoto ==
  ASSUME Kept, Placed, NEW B, NEW E, NEW d, NEW l, NEW a, Flows(B, E, d, l, a),
         Normal(B, d, l, a), ctx \subseteq loc, Goto
  PROVE  Right(B, d, l, a)'
<1> DEFINE q == Place(code, code[at].of)
<1>1. /\ code' = code /\ used' = used /\ where' = "in" /\ code[at].t = "Goto" /\ Go(q)
  <2>1. Step
    BY DEF Step
  <2> QED BY <2>1, StepKeeps DEF Goto, Run, Now
<1>2. at \in 1..Len(code)
  BY PlacedAt
<1>3. LinesFollow(code) /\ StatementsAreWhole(code) /\ LabelsStartBlocks(code)
  BY KeptText
<1>4. code[at].of \in Labels(code)
  BY <1>1, <1>2, <1>3 DEF LabelsStartBlocks
<1>5. q \in 1..Len(code) /\ code[q].t = "Label" /\ (q = 1 \/ code[q - 1].line < code[q].line)
  BY <1>3, <1>4, LabelIs
<1>6. Comes(code, B, q)
  <2> HIDE DEF q
  <2> QED BY <1>3, <1>5, StartComes
<1>7. d[at] \subseteq d[q] /\ l[q] \subseteq l[at]
  BY <1>1, <1>2 DEF Normal, Flows, Flow
<1>8. \A p \in 1..Len(code) : code[p].t = "Returned" => q \notin {p - 1, p}
  <2> HIDE DEF q
  <2> QED BY <1>3, <1>5 DEF StatementsAreWhole
<1>9. Normal(B, d, l, a)'
  <2> HIDE DEF q
  <2> QED BY <1>1, <1>5, <1>6, <1>7, <1>8, GoesOn DEF Flows
<1>10. ctx' \subseteq loc'
  BY <1>1 DEF Go, Written
<1> QED BY <1>1, <1>9, <1>10 DEF Right

\* The check of a block comes after the block's label, the only place it has.
LEMMA BlockIs ==
  ASSUME NEW c, LinesFollow(c), LabelsStartBlocks(c), NEW p \in 1..Len(c), c[p].t = "Block"
  PROVE  c[p].of \in Labels(c) /\ Place(c, c[p].of) = p - 1 /\ c[p - 1].t = "Label"
<1>1. p > 1 /\ c[p - 1].t = "Label" /\ c[p - 1].of # Dispatch /\ p - 1 \in 1..Len(c)
      /\ p - 1 < Len(c) /\ c[(p - 1) + 1].of = c[p - 1].of
  BY TextIs DEF LabelsStartBlocks
<1>2. (p - 1) + 1 = p
  OBVIOUS
<1>3. c[p].of = c[p - 1].of
  BY <1>1, <1>2
<1>4. ToSet(c) = {c[q] : q \in 1..Len(c)}
  BY TextIs DEF ToSet
<1>5. c[p].of \in Labels(c)
  BY <1>1, <1>3, <1>4 DEF Labels
<1>6. \A q \in 1..Len(c) : c[q].t = "Label" /\ c[q].of = c[p].of => q = Place(c, c[p].of)
  BY <1>5, LabelIs
<1> QED BY <1>1, <1>3, <1>5, <1>6

\* A way out stores what may be read past the check, and leaves nothing else
\* older than the context was.
LEMMA RightStops ==
  ASSUME Kept, Placed, NEW B, NEW E, NEW d, NEW l, NEW a, Flows(B, E, d, l, a),
         Normal(B, d, l, a), ctx \subseteq loc, OutOfBudget
  PROVE  Right(B, d, l, a)'
<1>1. /\ code' = code /\ used' = used /\ where' = "stopped" /\ code[at].t = "Block"
      /\ target' = code[at].of /\ ctx' = Stored(ways[code[at].line]) \cup {R15}
  <2>1. Step
    BY DEF Step
  <2> QED BY <2>1, StepKeeps DEF OutOfBudget, Run, Now
<1>2. at \in 1..Len(code) - 1 /\ at \in 1..Len(code)
  BY <1>1, PlacedAt DEF Leaving
<1>3. LinesFollow(code) /\ LabelsStartBlocks(code)
  BY KeptText
<1>4. Place(code, code[at].of) = at - 1 /\ code[at - 1].t = "Label"
  BY <1>1, <1>2, <1>3, BlockIs
<1>5. Place(code', target') + 1 = at /\ Place(code', target') + 2 = at + 1
  <2>1. Place(code', target') = at - 1
    BY <1>1, <1>4
  <2> QED BY <1>2, <2>1
<1>6. writing = {}
  BY <1>4 DEF Normal, Accesses
<1>7. Comes(code, B, at) /\ used \ d[at] \subseteq ctx /\ l[at] \subseteq loc
  BY <1>6 DEF Normal
<1>8. /\ (d[at] \cap l[at + 1]) \ {R15} \subseteq ways[code[at].line]
      /\ l[at + 1] \subseteq l[at] \cup {r \in {code[at].of} : code[at].t = "Assign" /\ ~Guarded(B[at])}
      /\ l[at + 1] \subseteq used
  <2>1. at + 1 \in 1..Len(code)
    BY <1>2
  <2> QED BY <1>1, <1>2, <1>7, <2>1 DEF Flows, Flow, Leaving
<1>9. l[at + 1] \subseteq loc
  BY <1>1, <1>7, <1>8
<1>10. ctx' = (ctx \ ways[code[at].line]) \cup (ways[code[at].line] \cap loc) \cup {R15}
  BY <1>1, <1>6 DEF Stored, Written
<1>11. used \ d[at] \subseteq ctx'
  BY <1>7, <1>10
<1>12. l[at + 1] \subseteq ctx'
  BY <1>7, <1>8, <1>9, <1>10
<1>13. Old(d, l)'
  BY <1>1, <1>5, <1>11, <1>12 DEF Old
<1> QED BY <1>1, <1>10, <1>13 DEF Right

\* What gets the context finds it whole.
LEMMA RightOut ==
  ASSUME Kept, Placed, NEW B, NEW E, NEW d, NEW l, NEW a, Flows(B, E, d, l, a),
         Normal(B, d, l, a), SyncOut \/ Return
  PROVE  Right(B, d, l, a)'
<1>1. /\ code' = code /\ used' = used /\ at' = at /\ code[at].t \in {"Sync", "Return", "ReturnTo"}
      /\ Stored(stores[code[at].line]) \subseteq ctx' /\ where' \in {"called", "left"}
  <2>1. Step
    BY DEF Step
  <2> QED BY <2>1, StepKeeps DEF SyncOut, Return, Run, Now
<1>2. used \subseteq Stored(stores[code[at].line])
  BY <1>1, PlacedAt, StoresAll DEF Flows
<1>3. Comes(code', B, at')
  BY <1>1 DEF Normal
<1> QED BY <1>1, <1>2, <1>3 DEF Right

\* So does dispatch, and it goes on with the locals.
LEMMA RightDispatches ==
  ASSUME Kept, Placed, NEW B, NEW E, NEW d, NEW l, NEW a, Flows(B, E, d, l, a),
         Normal(B, d, l, a), ctx \subseteq loc, DispatchTo \/ ReturnedElsewhere
  PROVE  Right(B, d, l, a)'
<1> DEFINE q == Place(code, Dispatch)
<1>1. /\ code' = code /\ used' = used /\ where' = "in" /\ at' = q /\ writing' = {}
      /\ at \in 1..Len(code)
  <2>1. Step
    BY DEF Step
  <2> QED BY <2>1, StepKeeps, PlacedAt DEF DispatchTo, ReturnedElsewhere, Run, Now, Go
<1>2. used \subseteq ctx' /\ used \subseteq loc' /\ ctx' \subseteq loc'
  <2>1. CASE DispatchTo
    <3>1. code[at].t \in {"Jump", "GotoDispatch"} /\ ctx' = Stored(stores[code[at].line]) /\ loc' = Written.loc
      BY <2>1 DEF DispatchTo, Now
    <3>2. used \subseteq ctx' /\ used \subseteq loc'
      BY <1>1, <3>1, StoresAll DEF Flows
    <3>3. ctx' \subseteq loc'
      BY <3>1 DEF Stored, Written
    <3> QED BY <3>2, <3>3
  <2>2. CASE ReturnedElsewhere
    <3>1. code[at].t = "Returned" /\ ctx' = ctx \ writing /\ loc' = loc \cup writing
      BY <2>2 DEF ReturnedElsewhere, Go, Now, Written
    <3>2. code[at - 1].t = "Semi"
      BY <1>1, <3>1, KeptText DEF StatementsAreWhole
    <3>3. writing = {}
      BY <3>2 DEF Normal, Accesses
    <3>4. used \subseteq ctx /\ used \subseteq loc
      BY <1>1, <3>1 DEF Normal
    <3> QED BY <3>1, <3>3, <3>4
  <2> QED BY <2>1, <2>2
<1>3. q \in 1..Len(code) /\ code[q].t = "Label" /\ (q = 1 \/ code[q - 1].line < code[q].line)
  BY KeptText, LabelIs
<1> HIDE DEF q
<1>4. Comes(code', B, at')
  BY <1>1, <1>3, KeptText, StartComes
<1>5. a[q] \subseteq used /\ l[q] \subseteq used
  BY <1>3 DEF Flows, Flow
<1>6. Normal(B, d, l, a)'
  BY <1>1, <1>2, <1>4, <1>5 DEF Normal
<1> QED BY <1>1, <1>2, <1>6 DEF Right

\* What had the context gives it back, or the function's caller gets it.
LEMMA RightBack ==
  ASSUME Kept, Placed, NEW B, NEW E, NEW d, NEW l, NEW a, Flows(B, E, d, l, a),
         Right(B, d, l, a), SyncIn \/ Exited
  PROVE  Right(B, d, l, a)'
<1>1. /\ code' = code /\ used' = used /\ ctx' = used /\ where = "called" /\ writing' = writing
      /\ Exited => where' = "left"
      /\ SyncIn => where' = "in" /\ loc' = used /\ at' = at + 1
  <2>1. Step
    BY DEF Step
  <2> QED BY <2>1, StepKeeps DEF SyncIn, Exited
<1>2. CASE Exited
  BY <1>1, <1>2 DEF Right
<1>3. CASE SyncIn
  <2>1. Comes(code, B, at) /\ code[at].t = "Sync" /\ writing = {}
    BY <1>1 DEF Right, Placed
  <2>2. at \in 1..Len(code) - 1 /\ at + 1 \in 1..Len(code) /\ code[at].t \notin Leaving
    BY <2>1, PlacedAt, KeptText DEF Leaving
  <2>3. Comes(code, B, at + 1)
    BY <2>1, <2>2, KeptText, ComesNext
  <2>4. a[at + 1] \subseteq used /\ l[at + 1] \subseteq used
    BY <2>2 DEF Flows, Flow
  <2>5. Normal(B, d, l, a)'
    BY <1>1, <1>3, <2>1, <2>3, <2>4 DEF Normal
  <2> QED BY <1>1, <1>3, <2>5 DEF Right
<1> QED BY <1>2, <1>3

\* The host has it run with a context that is whole, or as the budget left it.
LEMMA RightEnters ==
  ASSUME Kept, Placed, NEW B, NEW E, NEW d, NEW l, NEW a, Flows(B, E, d, l, a),
         Right(B, d, l, a), Enter
  PROVE  Right(B, d, l, a)'
<1>1. /\ code' = code /\ used' = used /\ ctx' = ctx /\ loc' = ctx /\ where' = "in" /\ at' = 1
      /\ where \in {"left", "stopped"} /\ writing' = writing
      /\ where = "stopped" => target' = target
  <2>1. Step
    BY DEF Step
  <2> QED BY <2>1, StepKeeps DEF Enter
<1>2. writing = {} /\ 1 \in 1..Len(code) /\ LinesFollow(code)
  BY <1>1, KeptText DEF Placed
<1>3. CASE where = "left"
  <2>1. used \subseteq ctx
    BY <1>3 DEF Right
  <2>2. Comes(code, B, 1)
    BY <1>2, StartComes
  <2>3. a[1] \subseteq used /\ l[1] \subseteq used
    BY <1>2 DEF Flows, Flow
  <2>4. Normal(B, d, l, a)'
    BY <1>1, <1>2, <2>1, <2>2, <2>3 DEF Normal
  <2> QED BY <1>1, <2>4 DEF Right
<1>4. CASE where = "stopped"
  <2>1. R15 \in ctx /\ Old(d, l) /\ target \in Labels(code)
    BY <1>4 DEF Right, Placed
  <2>2. PICK p : LeadsIn(code, target, p)
    BY <2>1, KeptText, LeadsInExists
  <2>3. p \in 1..Len(code)
    BY <2>2 DEF LeadsIn
  <2>4. 1 \in 1..p /\ 1 \in 1..p + 1
    BY <2>3
  <2>5. code[1].t # "Goto"
    <3>1. \/ code[1].t \in {"Semi", "Guard", "Open", "Label"}
          \/ (code[1].t = "Read" /\ code[1].of = R15)
          \/ (code[1].t = "Then" /\ code[1].of = OwnState)
          \/ CaseOf(code, 1)
          \/ (code[1].t = "Goto" /\ 1 > 1 /\ CaseOf(code, 1 - 1))
      BY <2>2, <2>4 DEF LeadsIn
    <3> QED BY <3>1 DEF CaseOf
  <2>6. Old(d, l)'
    BY <1>1, <1>4, <2>1 DEF Old
  <2>7. Resuming(d, l)'
    BY <1>1, <1>2, <1>4, <2>1, <2>2, <2>4, <2>5, <2>6 DEF Resuming
  <2> QED BY <1>1, <2>7 DEF Right
<1> QED BY <1>1, <1>3, <1>4

\* What is on the way to a label's case.
LEMMA OnTheWay ==
  ASSUME NEW c, NEW label, NEW p, LeadsIn(c, label, p), NEW q \in 1..p + 1, c[q].t = "Goto" => c[q].of = label
  PROVE  /\ c[q].t \in {"Semi", "Guard", "Open", "Label", "Read", "Then", "Goto"}
         /\ c[q].t = "Read" => c[q].of = R15
         /\ c[q].t = "Then" => c[q].of = OwnState \/ CaseOf(c, q)
         /\ c[q].t # "Goto" => q \in 1..p
<1>1. p \in 1..Len(c) /\ c[p + 1].t = "Goto"
  BY DEF LeadsIn, CaseOf
<1>2. CASE q = p + 1
  BY <1>1, <1>2
<1>3. CASE q # p + 1
  <2>1. q \in 1..p
    BY <1>1, <1>3
  <2>2. \/ c[q].t \in {"Semi", "Guard", "Open", "Label"}
        \/ (c[q].t = "Read" /\ c[q].of = R15)
        \/ (c[q].t = "Then" /\ c[q].of = OwnState)
        \/ CaseOf(c, q)
        \/ (c[q].t = "Goto" /\ q > 1 /\ CaseOf(c, q - 1))
    BY <2>1 DEF LeadsIn
  <2>3. CaseOf(c, q) => c[q].t = "Then"
    BY DEF CaseOf
  <2> QED BY <2>1, <2>2, <2>3
<1> QED BY <1>2, <1>3

\* The gotos on the way that are gone to are the label's.
LEMMA WayOn ==
  ASSUME NEW c, NEW label, NEW p, LeadsIn(c, label, p), NEW q \in 1..p,
         c[q].t = "Then" => q = p \/ ~CaseOf(c, q)
  PROVE  q + 1 \in 1..p + 1 /\ (c[q + 1].t = "Goto" => c[q + 1].of = label)
<1>1. p \in 1..Len(c) /\ c[p + 1].of = label
  BY DEF LeadsIn, CaseOf
<1>2. q + 1 \in 1..p + 1 /\ (q + 1) - 1 = q
  BY <1>1
<1>3. CASE q = p
  BY <1>1, <1>2, <1>3
<1>4. CASE q # p
  <2>1. q + 1 \in 1..p
    BY <1>1, <1>4
  <2>2. \/ c[q + 1].t \in {"Semi", "Guard", "Open", "Label"}
        \/ (c[q + 1].t = "Read" /\ c[q + 1].of = R15)
        \/ (c[q + 1].t = "Then" /\ c[q + 1].of = OwnState)
        \/ CaseOf(c, q + 1)
        \/ (c[q + 1].t = "Goto" /\ q + 1 > 1 /\ CaseOf(c, (q + 1) - 1))
    BY <2>1 DEF LeadsIn
  <2>3. c[q + 1].t = "Goto" => CaseOf(c, q)
    BY <1>2, <2>2 DEF CaseOf
  <2>4. CaseOf(c, q) => c[q].t = "Then"
    BY DEF CaseOf
  <2> QED BY <1>2, <1>4, <2>3, <2>4
<1> QED BY <1>3, <1>4

\* Past a case that is another label's the way goes on.
LEMMA WayPast ==
  ASSUME NEW c, LinesFollow(c), StatementsAreWhole(c), NEW label, NEW p, LeadsIn(c, label, p),
         NEW q \in 1..p, CaseOf(c, q), c[q].of # label
  PROVE  /\ StatementEnd(c, q + 1) + 1 = q + 3 /\ c[q + 3].t # "Else"
         /\ q + 3 \in 1..p + 1 /\ (c[q + 3].t = "Goto" => c[q + 3].of = label)
<1>1. c[q].t = "Then" /\ q + 3 <= Len(c) /\ c[q + 1].t = "Goto" /\ c[q + 2].t = "Semi" /\ c[q + 3].t # "Else"
  BY DEF CaseOf
<1>2. p \in 1..Len(c) /\ c[p].t = "Then" /\ c[p].of = label /\ q \in 1..Len(c) /\ Len(c) \in Nat
  BY TextIs DEF LeadsIn, CaseOf
<1> DEFINE e == StatementEnd(c, q + 1)
<1>3. PICK f \in q + 1..Len(c) :
           /\ e \in f..Len(c)
           /\ c[f].t \in {"Open", "Semi", "GotoDispatch"}
           /\ \A r \in q + 1..f - 1 : c[r].t \notin {"Open", "Semi", "GotoDispatch", "Close"}
           /\ c[f].t # "Open" => e = f
  BY <1>1, <1>2, EndIs
<1> HIDE DEF e
<1>4. f # q + 1
  BY <1>1, <1>3
<1>5. q + 2 \notin q + 1..f - 1
  BY <1>1, <1>3
<1>6. f = q + 2
  BY <1>2, <1>3, <1>4, <1>5
<1>7. e = q + 2
  BY <1>1, <1>3, <1>6
<1>8. p # q /\ p # q + 1 /\ p # q + 2
  BY <1>1, <1>2
<1>9. q + 2 \in 1..p /\ (q + 2) + 1 = q + 3 /\ e + 1 = q + 3
  BY <1>2, <1>7, <1>8
<1>10. (q + 2) + 1 \in 1..p + 1 /\ (c[(q + 2) + 1].t = "Goto" => c[(q + 2) + 1].of = label)
  BY <1>1, <1>9, WayOn
<1> QED BY <1>1, <1>9, <1>10 DEF e

\* From where the budget stopped it execution comes to its block again, past
\* nothing but reads of r15, which the way out left right.
LEMMA RightResumes ==
  ASSUME Kept, Placed, NEW B, NEW E, NEW d, NEW l, NEW a, Flows(B, E, d, l, a),
         Resuming(d, l), ctx \subseteq loc, Step, where = "in"
  PROVE  Right(B, d, l, a)'
<1> DEFINE b == Place(code, target)
<1>1. code' = code /\ used' = used /\ LinesFollow(code) /\ StatementsAreWhole(code) /\ LabelsStartBlocks(code)
  BY StepKeeps, KeptText
<1>2. target \in Labels(code) /\ writing = {} /\ R15 \in loc /\ Old(d, l)
  BY DEF Resuming
<1>3. /\ b \in 1..Len(code) /\ code[b].t = "Label"
      /\ target \in Nat /\ b + 1 \in 1..Len(code) /\ code[b + 1].t = "Block" /\ code[b + 1].of = target
      /\ code[b].line < code[b + 1].line
  <2>1. target # Dispatch
    BY <1>2 DEF Labels
  <2> QED BY <1>1, <1>2, <2>1, LabelIs
<1>4. target \notin {OwnState, Elsewhere, Anything}
  BY <1>3 DEF OwnState, Elsewhere, Anything
<1>5. ASSUME where' = "in", target' = target, ctx' = ctx, loc' = loc, writing' = {}, NEW q, at' = q,
             \/ \E p : LeadsIn(code, target, p) /\ q \in 1..p + 1 /\ (code[q].t = "Goto" => code[q].of = target)
             \/ q \in {b, b + 1}
      PROVE  Right(B, d, l, a)'
  <2>1. Old(d, l)'
    BY <1>1, <1>2, <1>5 DEF Old
  <2>2. Resuming(d, l)'
    BY <1>1, <1>2, <1>5, <2>1 DEF Resuming
  <2> QED BY <1>5, <2>2 DEF Right
<1>6. \A q : Go(q) => at' = q /\ ctx' = ctx /\ loc' = loc /\ writing' = {}
  BY <1>2 DEF Go, Written
<1>7. ASSUME NEW p, LeadsIn(code, target, p), at \in 1..p + 1, code[at].t = "Goto" => code[at].of = target
      PROVE  Right(B, d, l, a)'
  <2>1. /\ code[at].t \in {"Semi", "Guard", "Open", "Label", "Read", "Then", "Goto"}
        /\ code[at].t = "Read" => code[at].of = R15
        /\ code[at].t = "Then" => code[at].of = OwnState \/ CaseOf(code, at)
        /\ code[at].t # "Goto" => at \in 1..p
    BY <1>7, OnTheWay
  <2>2. CASE Access \/ Pass
    <3>1. /\ where' = "in" /\ target' = target /\ ctx' = ctx /\ loc' = loc /\ writing' = {} /\ at' = at + 1
          /\ code[at].t \notin {"Goto", "Then"}
      BY <1>2, <1>6, <2>1, <2>2 DEF Access, Pass, Run, Now, Accesses
    <3>2. at + 1 \in 1..p + 1 /\ (code[at + 1].t = "Goto" => code[at + 1].of = target)
      BY <1>7, <2>1, <3>1, WayOn
    <3> QED BY <1>5, <1>7, <3>1, <3>2
  <2>3. CASE Taken
    <3>1. /\ where' = "in" /\ target' = target /\ Go(at + 1)
          /\ code[at].t = "Then" /\ code[at].of \in {Anything, OwnState, target}
      BY <2>3 DEF Taken, Run, Now
    <3>2. at \in 1..p
      BY <2>1, <3>1
    <3>3. at + 1 \in 1..p + 1 /\ (code[at + 1].t = "Goto" => code[at + 1].of = target)
      <4>1. CASE CaseOf(code, at)
        <5>1. code[at].of \in Labels(code) /\ code[at + 1].of = code[at].of
          BY <4>1 DEF CaseOf
        <5>2. code[at].of \in Nat
          <6>1. code[at].of # Dispatch
            BY <5>1 DEF Labels
          <6> QED BY <1>1, <5>1, <6>1, LabelIs
        <5>3. code[at].of = target
          BY <3>1, <5>2 DEF Anything, OwnState
        <5>4. at + 1 \in 1..p + 1
          BY <1>7, <3>2 DEF LeadsIn
        <5> QED BY <5>1, <5>3, <5>4
      <4>2. CASE ~CaseOf(code, at)
        BY <1>7, <3>2, <4>2, WayOn
      <4> QED BY <4>1, <4>2
    <3> QED BY <1>5, <1>6, <1>7, <3>1, <3>3
  <2>4. CASE NotTaken
    <3>1. /\ where' = "in" /\ target' = target /\ Go(Past(at + 1))
          /\ code[at].t = "Then" /\ code[at].of # target
          /\ code[at].of = OwnState => target = Elsewhere
      BY <2>4 DEF NotTaken, Run, Now
    <3>2. at \in 1..p /\ CaseOf(code, at)
      BY <1>4, <2>1, <3>1
    <3>3. /\ StatementEnd(code, at + 1) + 1 = at + 3 /\ code[at + 3].t # "Else"
          /\ at + 3 \in 1..p + 1 /\ (code[at + 3].t = "Goto" => code[at + 3].of = target)
      BY <1>1, <1>7, <3>1, <3>2, WayPast
    <3>4. Past(at + 1) = at + 3
      BY <3>3 DEF Past
    <3> QED BY <1>5, <1>6, <1>7, <3>1, <3>3, <3>4
  <2>5. CASE Goto
    <3>1. where' = "in" /\ target' = target /\ Go(Place(code, code[at].of)) /\ code[at].t = "Goto"
      BY <2>5 DEF Goto, Run, Now
    <3>2. Place(code, code[at].of) = b
      BY <1>7, <3>1
    <3> QED BY <1>5, <1>6, <3>1, <3>2
  <2>6. CASE Else \/ Fits \/ OutOfBudget \/ SyncOut \/ ReturnedElsewhere \/ Return \/ DispatchTo
    BY <2>1, <2>6 DEF Else, Fits, OutOfBudget, SyncOut, ReturnedElsewhere, Return, DispatchTo, Now
  <2>7. CASE SyncIn \/ Exited \/ Enter
    BY <2>7 DEF SyncIn, Exited, Enter
  <2> QED BY <2>2, <2>3, <2>4, <2>5, <2>6, <2>7 DEF Step
<1>8. ASSUME at = b
      PROVE  Right(B, d, l, a)'
  <2>1. code[at].t = "Label"
    BY <1>3, <1>8
  <2>2. CASE Pass
    <3>1. where' = "in" /\ target' = target /\ Go(at + 1)
      BY <2>2 DEF Pass, Run
    <3>2. at + 1 = b + 1
      BY <1>8
    <3> HIDE DEF b
    <3> QED BY <1>5, <1>6, <3>1, <3>2
  <2>3. CASE ~Pass
    BY <2>1, <2>3 DEF Step, Access, Else, Taken, NotTaken, Goto, Fits, OutOfBudget, SyncOut, SyncIn, Exited,
                      ReturnedElsewhere, Return, DispatchTo, Enter, Now, Accesses
  <2> QED BY <2>2, <2>3
<1>9. ASSUME at = b + 1
      PROVE  Right(B, d, l, a)'
  <2>1. code[at].t = "Block" /\ code[at].of = target /\ at \in 1..Len(code)
    BY <1>3, <1>9
  <2>2. CASE Fits
    <3>1. where' = "in" /\ Go(at + 1)
      BY <2>2 DEF Fits, Run
    <3>2. at' = at + 1 /\ ctx' = ctx /\ loc' = loc /\ writing' = {}
      BY <1>6, <3>1
    <3>3. at \in 1..Len(code) - 1 /\ at + 1 \in 1..Len(code)
      BY <2>1, PlacedAt, KeptText DEF Leaving
    <3>4. Comes(code, B, at)
      <4>1. at - 1 = b /\ code[at - 1].line < code[at].line
        BY <1>3, <1>9
      <4> QED BY <1>1, <2>1, <4>1, StartComes
    <3>5. Comes(code, B, at + 1)
      BY <1>1, <2>1, <3>3, <3>4, ComesNext DEF Leaving
    <3>6. d[at] \subseteq d[at + 1] /\ a[at + 1] \subseteq l[at + 1]
      <4>1. code[at].t \notin Leaving \cup {"Sync"}
        BY <2>1 DEF Leaving
      <4> QED BY <3>3, <3>4, <4>1 DEF Flows, Flow
    <3>7. used \ d[at] \subseteq ctx /\ l[at + 1] \subseteq ctx
      <4>1. b + 2 = at + 1
        BY <1>3, <1>9
      <4>2. used \ d[b + 1] \subseteq ctx /\ l[b + 2] \subseteq ctx
        BY <1>2 DEF Old
      <4> QED BY <1>9, <4>1, <4>2
    <3>8. ASSUME NEW p \in 1..Len(code), code[p].t = "Returned"
          PROVE  at + 1 \notin {p - 1, p}
      <4>1. p > 3 /\ code[p - 1].t = "Semi" /\ code[p - 2].t = "Sync"
        BY <1>1, <3>8 DEF StatementsAreWhole
      <4>2. at + 1 = p - 1 => at = p - 2
        BY <3>3
      <4>3. at + 1 = p => at = p - 1
        BY <3>3
      <4> QED BY <2>1, <4>1, <4>2, <4>3
    <3>9. Normal(B, d, l, a)'
      BY <1>1, <3>2, <3>5, <3>6, <3>7, <3>8 DEF Normal
    <3> QED BY <3>1, <3>2, <3>9 DEF Right
  <2>3. CASE OutOfBudget
    <3>1. /\ where' = "stopped" /\ target' = code[at].of
          /\ ctx' = Stored(ways[code[at].line]) \cup {R15}
      BY <2>3 DEF OutOfBudget, Now
    <3>2. ctx \subseteq ctx'
      BY <1>2, <3>1 DEF Stored, Written
    <3>3. Old(d, l)'
      BY <1>1, <1>2, <2>1, <3>1, <3>2 DEF Old
    <3> QED BY <3>1, <3>3 DEF Right
  <2>4. CASE ~Fits /\ ~OutOfBudget
    BY <2>1, <2>4 DEF Step, Access, Pass, Else, Taken, NotTaken, Goto, SyncOut, SyncIn, Exited,
                      ReturnedElsewhere, Return, DispatchTo, Enter, Now, Accesses
  <2> QED BY <2>2, <2>3, <2>4
<1> QED BY <1>7, <1>8, <1>9 DEF Resuming

LEMMA RightStep ==
  ASSUME Kept, Placed, NEW B, NEW E, NEW d, NEW l, NEW a, Flows(B, E, d, l, a), Right(B, d, l, a), Step
  PROVE  Right(B, d, l, a)'
<1>1. CASE SyncIn \/ Exited
  BY <1>1, RightBack
<1>2. CASE Enter
  BY <1>2, RightEnters
<1>3. CASE ~(SyncIn \/ Exited \/ Enter)
  <2>1. where = "in"
    BY <1>3 DEF Step, Run, Access, Pass, Else, Taken, NotTaken, Goto, Fits, OutOfBudget, SyncOut,
                ReturnedElsewhere, Return, DispatchTo
  <2>2. ctx \subseteq loc /\ (Normal(B, d, l, a) \/ Resuming(d, l))
    BY <2>1 DEF Right
  <2>3. CASE Resuming(d, l)
    BY <2>1, <2>2, <2>3, RightResumes
  <2>4. CASE Normal(B, d, l, a)
    BY <1>3, <2>2, <2>4, RightAccess, RightOn, RightSkips, RightGoto, RightStops, RightOut, RightDispatches DEF Step
  <2> QED BY <2>2, <2>3, <2>4
<1> QED BY <1>1, <1>2, <1>3

LEMMA RightFirst == Init => RightThroughout
BY DEF Init, RightThroughout

LEMMA RightNext == Kept /\ Placed /\ RightThroughout /\ [Next]_vars => RightThroughout'
<1> SUFFICES ASSUME Kept, Placed, RightThroughout, [Next]_vars PROVE RightThroughout'
  OBVIOUS
<1>1. CASE Keep
  <2>1. phase # "run" /\ where = "left" /\ where' = "left" /\ (phase' = "run" => ctx' = used')
    BY <1>1 DEF Keep, Scan, Behind, Live, Ways, running, analysis, scanning, Placed
  <2>2. ASSUME phase' = "run", NEW B, NEW d, NEW l, NEW a
        PROVE  Right(B, d, l, a)'
    BY <2>1, <2>2 DEF Right
  <2> QED BY <2>2 DEF RightThroughout
<1>2. CASE Step
  <2>1. code' = code /\ used' = used /\ stores' = stores /\ ways' = ways /\ phase = "run"
    BY <1>2, StepKeeps
  <2>2. ASSUME NEW B, NEW E, NEW d, NEW l, NEW a,
               Shape(code', B, E), Flow(code', used', stores', ways', B, d, l, a)
        PROVE  Right(B, d, l, a)'
    <3>1. Shape(code, B, E) /\ Flow(code, used, stores, ways, B, d, l, a)
      BY <2>1, <2>2
    <3>2. Right(B, d, l, a)
      BY <2>1, <3>1 DEF RightThroughout
    <3> QED BY <1>2, <3>1, <3>2, RightStep DEF Flows
  <2> QED BY <2>2 DEF RightThroughout
<1>3. CASE UNCHANGED vars
  <2>1. code' = code /\ used' = used /\ stores' = stores /\ ways' = ways /\ phase' = phase /\ UNCHANGED running
    BY <1>3 DEF vars, analysis, scanning, forwards
  <2>2. ASSUME phase' = "run", NEW B, NEW E, NEW d, NEW l, NEW a,
               Shape(code', B, E), Flow(code', used', stores', ways', B, d, l, a)
        PROVE  Right(B, d, l, a)'
    <3>1. Right(B, d, l, a)
      BY <2>1, <2>2 DEF RightThroughout
    <3> QED BY <2>1, <3>1 DEF Right, Normal, Resuming, Old, running
  <2> QED BY <2>2 DEF RightThroughout
<1> QED BY <1>1, <1>2, <1>3 DEF Next

\* All of it, from the lines to what runs.
Inv == Kept /\ Passed /\ Placed /\ RightThroughout

LEMMA PassedFirst == Init => Passed
BY DEF Init, Passed

LEMMA InvHolds == Spec => []Inv
<1>1. Init => Inv
  BY KeptFirst, PassedFirst, PlacedFirst, RightFirst DEF Inv
<1>2. Inv /\ [Next]_vars => Inv'
  BY KeptNext, PassedNext, PlacedNext, RightNext DEF Inv
<1> QED BY <1>1, <1>2, PTL DEF Spec

\* There are a shape and a flow for what runs to be right by.
LEMMA RightNow ==
  ASSUME Inv, phase = "run"
  PROVE  \E B, E, d, l, a : Flows(B, E, d, l, a) /\ Right(B, d, l, a)
<1>1. PICK B, E : Shape(code, B, E)
  BY KeptText, ShapeExists DEF Inv
<1>2. PICK d, l, a : Flow(code, used, stores, ways, B, d, l, a)
  BY <1>1, FlowExists DEF Inv
<1>3. Right(B, d, l, a)
  BY <1>1, <1>2 DEF Inv, RightThroughout
<1> QED BY <1>1, <1>2, <1>3 DEF Flows

\* What the code reads when a statement, or the argument of a macro, is read has
\* in its local what the guest's register holds.
LEMMA ReadsRight == Inv => ReadsAreRight
<1> SUFFICES ASSUME Inv, phase = "run", where = "in" PROVE Reads \subseteq loc
  BY DEF ReadsAreRight
<1>1. Kept /\ Placed
  BY DEF Inv
<1>2. at \in 1..Len(code) /\ LinesFollow(code) /\ StatementsAreWhole(code) /\ LabelsStartBlocks(code) /\ Len(code) \in Nat
  BY <1>1, PlacedAt, KeptText
<1>3. PICK B, E, d, l, a : Flows(B, E, d, l, a) /\ Right(B, d, l, a)
  BY RightNow
<1>4. CASE Normal(B, d, l, a)
  <2>1. CASE code[at].t \in {"Read", "Modify"}
    <3>1. code[at].of \in a[at] /\ a[at] \subseteq loc
      BY <1>2, <1>3, <1>4, <2>1 DEF Flows, Flow, Normal
    <3> QED BY <2>1, <3>1 DEF Reads, Now
  <2>2. CASE code[at].t \in {"Jump", "ReturnTo"}
    <3>1. code[at - 1].t \notin Accesses
      BY <1>2, <2>2 DEF StatementsAreWhole
    <3>2. writing = {}
      BY <1>4, <3>1 DEF Normal
    <3>3. l[at] = used /\ l[at] \subseteq loc
      BY <1>2, <1>3, <1>4, <2>2, <3>2 DEF Flows, Flow, Normal
    <3>4. StatementEnd(code, at) \in at..Len(code)
      <4> DEFINE first == Min(Stops(code, at))
      <4>1. Stops(code, at) # {} /\ code[first].t # "Open"
        BY <1>2, <2>2 DEF StatementsAreWhole
      <4>2. Stops(code, at) \in SUBSET Int /\ Stops(code, at) \subseteq at..Len(code)
        BY DEF Stops
      <4>3. first \in Stops(code, at)
        <5> HIDE DEF first
        <5>1. \E x \in Stops(code, at) : \A y \in Stops(code, at) : x <= y
          <6>1. Stops(code, at) \in SUBSET Nat
            BY <1>2 DEF Stops
          <6> QED BY <4>1, <6>1, LeastNumber
        <5> QED BY <5>1, <4>1 DEF Min, first
      <4>4. StatementEnd(code, at) = first
        BY <4>1 DEF StatementEnd
      <4> HIDE DEF first
      <4> QED BY <4>2, <4>3, <4>4
    <3>5. Argument \subseteq used
      <4>1. ASSUME NEW p \in at..StatementEnd(code, at), code[p].t = "Read"
            PROVE  code[p].of \in used
        <5>1. p \in 1..Len(code)
          <6> DEFINE e == StatementEnd(code, at)
          <6>1. e \in at..Len(code) /\ p \in at..e
            BY <3>4
          <6> HIDE DEF e
          <6> QED BY <1>2, <6>1
        <5> QED BY <1>1, <4>1, <5>1, KeptUsed DEF Accesses
      <4> QED BY <4>1 DEF Argument
    <3> QED BY <2>2, <3>3, <3>5 DEF Reads, Now
  <2>3. CASE code[at].t \notin {"Read", "Modify", "Jump", "ReturnTo"}
    BY <2>3 DEF Reads, Now
  <2> QED BY <2>1, <2>2, <2>3
<1>5. CASE Resuming(d, l)
  <2>1. target \in Labels(code) /\ R15 \in loc
    BY <1>5 DEF Resuming
  <2>2. CASE at \in {Place(code, target), Place(code, target) + 1}
    <3>1. code[at].t \in {"Label", "Block"}
      <4>1. target # Dispatch
        BY <2>1 DEF Labels
      <4> QED BY <1>2, <2>1, <2>2, <4>1, LabelIs
    <3> QED BY <3>1 DEF Reads, Now
  <2>3. ASSUME NEW p, LeadsIn(code, target, p), at \in 1..p + 1, code[at].t = "Goto" => code[at].of = target
        PROVE  Reads \subseteq loc
    <3>1. code[at].t \in {"Semi", "Guard", "Open", "Label", "Read", "Then", "Goto"}
          /\ (code[at].t = "Read" => code[at].of = R15)
      BY <2>3, OnTheWay
    <3> QED BY <2>1, <3>1 DEF Reads, Now
  <2> QED BY <1>5, <2>2, <2>3 DEF Resuming
<1> QED BY <1>3, <1>4, <1>5 DEF Right

LEMMA ContextWhole == Inv => ContextIsWhole
<1> SUFFICES ASSUME Inv, phase = "run", where \in {"called", "left"} PROVE used \subseteq ctx
  BY DEF ContextIsWhole
<1>1. PICK B, E, d, l, a : Flows(B, E, d, l, a) /\ Right(B, d, l, a)
  BY RightNow
<1> QED BY <1>1 DEF Right

\* For every function keep's state, and what is run of its code, are of their
\* types: the passes find registers the function uses, and execution stays among
\* its tokens.
THEOREM LocalsTypes == Spec => []TypeOK
<1>1. Inv => TypeOK
  BY TypesAreRight DEF Inv
<1> QED BY <1>1, InvHolds, PTL

\* Whatever the functions, of any instructions and with loops and jumps of any
\* kind, the code that keep makes reads what the guest's registers hold: on every
\* path, past calls, and when the host has it go on where the budget stopped it.
THEOREM LocalsReads == Spec => []ReadsAreRight
BY InvHolds, ReadsRight, PTL

\* And whatever gets the context, with no more stored than a pass found to be
\* behind there, finds every register the function uses right in it.
THEOREM LocalsContext == Spec => []ContextIsWhole
BY InvHolds, ContextWhole, PTL

=============================================================================
