------------------------------ MODULE Origins ------------------------------
(***************************************************************************)
(* What write_origins of src/src/codegen/mod.rs says the functions of a    *)
(* unit were made from: the spans of each function, the pieces all spans   *)
(* cut the code into, and the run of pieces each span is.                  *)
(*                                                                         *)
(* An instruction, a span and a piece are a pair of where they start and   *)
(* where they end.  An action is one round of one of the loops.            *)
(***************************************************************************)
EXTENDS Integers, FiniteSets, SequencesExt

CONSTANT Units   \* the units: for each function its instructions, in order

Interval == {i \in Nat \X Nat : i[1] < i[2]}

ASSUME OriginsAssumption == Units \subseteq Seq(Seq(Interval))

VARIABLES
  unit,      \* the functions to write
  at,        \* the loop the code is in: that of spans, or of pieces
  spans,     \* the spans of the functions read, the last one being read
  taken,     \* how many of that one's instructions are in its spans
  rest,      \* the spans pieces has not come to
  covered,   \* the stretch it is in
  cutting,   \* what is left to cut of a stretch, None between two
  pieces     \* the pieces so far

vars == <<unit, at, spans, taken, rest, covered, cutting, pieces>>

None == <<>>

\* What an interval covers, and what several do.
Bytes(i) == i[1]..i[2] - 1
Covers(s) == UNION {Bytes(i) : i \in s}

AllSpans == UNION {ToSet(spans[f]) : f \in 1..Len(spans)}

\* Mutant: cut where spans start only.
CutsAtStarts == {s[1] : s \in AllSpans}

\* Wherever a span starts or ends.
Cuts == {s[1] : s \in AllSpans} \cup {s[2] : s \in AllSpans}
-----------------------------------------------------------------------------
Init ==
  /\ unit \in Units
  /\ at = "spans"
  /\ spans = <<>> /\ taken = 0
  /\ rest = {} /\ covered = None /\ cutting = None
  /\ pieces = <<>>

\* Every instruction of the function being read is in its spans.
FunctionRead == taken = IF spans = <<>> THEN 0 ELSE Len(unit[Len(spans)])

Function ==
  /\ at = "spans" /\ FunctionRead
  /\ Len(spans) < Len(unit)
  /\ spans' = Append(spans, <<>>)
  /\ taken' = 0
  /\ UNCHANGED <<unit, at, rest, covered, cutting, pieces>>

\* The spans s and an instruction, which makes the last one longer when it
\* comes right after it.
Join(s, i) ==
  IF s # <<>> /\ s[Len(s)][2] = i[1]
  THEN [s EXCEPT ![Len(s)] = <<s[Len(s)][1], i[2]>>]
  ELSE Append(s, i)

Instruction ==
  /\ at = "spans" /\ ~FunctionRead
  /\ spans' = [spans EXCEPT ![Len(spans)] = Join(@, unit[Len(spans)][taken + 1])]
  /\ taken' = taken + 1
  /\ UNCHANGED <<unit, at, rest, covered, cutting, pieces>>

\* All functions are read, and pieces sorts the spans.
Sort ==
  /\ at = "spans" /\ FunctionRead
  /\ Len(spans) = Len(unit)
  /\ at' = "pieces"
  /\ rest' = AllSpans
  /\ UNCHANGED <<unit, spans, taken, covered, cutting, pieces>>

\* The first of the spans left.
Precedes(s, t) == s[1] < t[1] \/ (s[1] = t[1] /\ s[2] <= t[2])
FirstSpan == CHOOSE s \in rest : \A t \in rest : Precedes(s, t)

\* Mutant: the stretch ends where the span does, though it reached further.
TakeInShort ==
  /\ at = "pieces" /\ cutting = None
  /\ rest # {} /\ covered # None /\ FirstSpan[1] <= covered[2]
  /\ covered' = <<covered[1], FirstSpan[2]>>
  /\ rest' = rest \ {FirstSpan}
  /\ UNCHANGED <<unit, at, spans, taken, cutting, pieces>>

\* A span that starts in the stretch, or right after it.
TakeIn ==
  /\ at = "pieces" /\ cutting = None
  /\ rest # {} /\ covered # None /\ FirstSpan[1] <= covered[2]
  /\ covered' = <<covered[1], IF covered[2] > FirstSpan[2] THEN covered[2] ELSE FirstSpan[2]>>
  /\ rest' = rest \ {FirstSpan}
  /\ UNCHANGED <<unit, at, spans, taken, cutting, pieces>>

\* One that does not starts the next stretch, after the last one is cut.
NextStretch ==
  /\ at = "pieces" /\ cutting = None
  /\ rest # {} /\ (covered # None => FirstSpan[1] > covered[2])
  /\ cutting' = covered
  /\ covered' = FirstSpan
  /\ rest' = rest \ {FirstSpan}
  /\ UNCHANGED <<unit, at, spans, taken, pieces>>

LastStretch ==
  /\ at = "pieces" /\ cutting = None
  /\ rest = {} /\ covered # None
  /\ cutting' = covered
  /\ covered' = None
  /\ UNCHANGED <<unit, at, spans, taken, rest, pieces>>

\* Mutant: the cuts after what is left as well.
InsideOrAfter == {c \in Cuts : cutting[1] < c}

\* The cuts in what is left of a stretch.
Inside == {c \in Cuts : cutting[1] < c /\ c < cutting[2]}

CutOff ==
  /\ cutting # None /\ Inside # {}
  /\ LET c == CHOOSE c \in Inside : \A d \in Inside : c <= d
     IN /\ pieces' = Append(pieces, <<cutting[1], c>>)
        /\ cutting' = <<c, cutting[2]>>
  /\ UNCHANGED <<unit, at, spans, taken, rest, covered>>

LastPiece ==
  /\ cutting # None /\ Inside = {}
  /\ pieces' = Append(pieces, cutting)
  /\ cutting' = None
  /\ UNCHANGED <<unit, at, spans, taken, rest, covered>>

Next ==
  \/ Function \/ Instruction \/ Sort
  \/ TakeIn \/ NextStretch \/ LastStretch
  \/ CutOff \/ LastPiece

Spec == Init /\ [][Next]_vars
-----------------------------------------------------------------------------
Done == at = "pieces" /\ rest = {} /\ covered = None /\ cutting = None

\* partition_point: the pieces that start before b, which come first.
CountBefore(b) == Cardinality({i \in 1..Len(pieces) : pieces[i][1] < b})

\* The run of a span, as the pieces from first up to end, counted from 0.
Run(s) == [first |-> CountBefore(s[1]), end |-> CountBefore(s[2])]

\* The pieces of function f's runs.
Held(f) ==
  {pieces[i] : i \in {i \in 1..Len(pieces) :
     \E j \in 1..Len(spans[f]) :
       LET run == Run(spans[f][j]) IN run.first < i /\ i <= run.end}}

TypeOK ==
  /\ unit \in Seq(Seq(Interval))
  /\ at \in {"spans", "pieces"}
  /\ spans \in Seq(Seq(Interval))
  /\ taken \in Nat
  /\ rest \subseteq Interval
  /\ covered \in Interval \cup {None}
  /\ cutting \in Interval \cup {None}
  /\ pieces \in Seq(Interval)

\* docs/interface.md, Origins: the pieces are in order and do not overlap,
\* at every round of the loops.
PiecesInOrder ==
  \A i, j \in 1..Len(pieces) : i < j => pieces[i][2] <= pieces[j][1]

\* "each function's code is made of whole pieces": the runs of a function
\* hold every byte it was made from and no other, so that it is stale when
\* its code changed and only then, whatever other functions share it.
RunsAreFunctions ==
  Done => \A f \in 1..Len(unit) : Covers(Held(f)) = Covers(ToSet(unit[f]))

\* "a byte several functions hold is in one piece", and none is hashed that
\* no function holds.
PiecesAreCode ==
  Done => Covers(ToSet(pieces)) = UNION {Covers(ToSet(unit[f])) : f \in 1..Len(unit)}
=============================================================================
