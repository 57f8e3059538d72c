--------------------------- MODULE DiscoverProofs ---------------------------
(***************************************************************************)
(* What Discover marks is what functions hold, for every program and every *)
(* threshold: a guess that comes to nothing is undone exactly.  What a     *)
(* guess joins is a label, what a function's labels are, and that every    *)
(* path is followed until code is split.                                   *)
(***************************************************************************)
EXTENDS Discover, FunctionTheorems, FiniteSetTheorems, SequenceTheorems, TLAPS

Leads == Lead(program.end)
Olds == UNION {[S -> [map : Bytes, modes : SUBSET Modes]] : S \in SUBSET Halfwords}
Trial == [before : Olds, calls : Seq(Leads), pointers : Seq(Leads),
          joins : SUBSET (Halfwords \X Modes), entries : SUBSET Halfwords]

\* The types, with those TLC does not look at.
Types ==
  /\ Program(program)
  /\ TypeOK
  /\ trial \in Trial
  /\ ~exploring => trial = NoTrial
  /\ round \in [number : 0..4, huge : SUBSET Halfwords, left : SUBSET Halfwords]

\* The marks as they were before the trial, which is what undoing it comes to.
OldMap(o) == IF o \in DOMAIN trial.before THEN trial.before[o].map ELSE map[o]
OldModes(o) == IF o \in DOMAIN trial.before THEN trial.before[o].modes ELSE modes[o]

FunctionsHold(m, o) == \E e \in DOMAIN functions : FunctionHolds(e, m, o)
FunctionsLoad(o) ==
  \/ program.relocated /\ {o, o - 1} \cap program.slots # {}
  \/ \E e \in DOMAIN functions : \E a \in functions[e].code : o \in LiteralsOf(functions[e].mode, a)

\* Without the trial, the marks are those of the functions there are.
TrialInv ==
  exploring /\ ex.judged =>
    \A o \in Halfwords :
      /\ OldMap(o) = "Code" <=> OldModes(o) # {}
      /\ \A m \in Modes : FunctionsHold(m, o) => m \in OldModes(o)
      /\ phase = "scan" => \A m \in OldModes(o) : FunctionsHold(m, o)
      /\ phase = "scan" /\ OldMap(o) = "Literal" => FunctionsLoad(o)

Inv == Types /\ MarksAreHeld /\ TrialInv

\* One instruction, whatever it does: what it leads to and what it marks.
StepWith(blocks, ends, calls, pointers, literals, new) ==
  /\ Walks
  /\ Mark(Span(ex.mode, ex.at), literals)
  /\ Note(calls, pointers, literals, new)
  /\ Walk(blocks, ends)
  /\ entries' = entries \cup new
  /\ cuts' \in [Halfwords -> SUBSET Halfwords]
  /\ UNCHANGED <<program, phase, functions, rejected, guessed, joins, exploring, round>>

Stepped ==
  \E blocks \in Seq(Halfwords), ends \in BOOLEAN, calls \in Seq(Leads), pointers \in Seq(Leads),
     literals \in SUBSET LiteralsOf(ex.mode, ex.at), new \in SUBSET Halfwords :
       StepWith(blocks, ends, calls, pointers, literals, new)

\* Where exploring is going on.
Phases == exploring => phase \in {"scan", "split"}

\* A guess is cut where code was joined, which is marked, without the trial too.
JoinsInv ==
  /\ phase # "done" => \A e \in Halfwords : \A a \in cuts[e] : \E m \in Modes : <<a, m>> \in joins
  /\ \A j \in joins : j[2] \in modes[j[1]] /\ (exploring /\ ex.judged => j[2] \in OldModes(j[1]))
  /\ \A j \in trial.joins : j[2] \in modes[j[1]]
  /\ JoinsAreLabels

\* Where the instruction at a begins blocks of a function that is not cut.
BlocksOf(m, a) ==
  LET i == program.code[m][a]
      cases == {n \in 1..program.end : \A k \in 1..n : IsCase(a + 2 * k)}
      table == {n \in 0..i.width - 1 : \A k \in 0..n : IsAddress(a + 4 + 2 * k)}
  IN CASE i.flow = "Branch" /\ ~i.link -> {i.target} \cap Halfwords
       [] i.flow = "JumpTable" -> {a + 2 * n : n \in cases}
       [] i.flow = "AddressTable" ->
            {program.points[a + 4 + 2 * n][1] : n \in {n \in table : program.points[a + 4 + 2 * n][2] = "Arm"}}
       [] OTHER -> {}

\* The labels there are for it, where it leads and where execution comes back.
LabelsOf(m, a) ==
  BlocksOf(m, a) \cup {t \in {a + program.code[m][a].size} : Returns(program.code[m][a])}
AllLabels(m, code) == UNION {LabelsOf(m, a) : a \in code}

\* The labels functions have, and those in J are joined.
LabelledWith(J) ==
  \A e \in DOMAIN functions :
    LET f == functions[e]
    IN f.labels = f.code \cap ({e} \cup AllLabels(f.mode, f.code) \cup {a \in f.code : <<a, f.mode>> \in J})


\* In code that is not split, the labels of a function are those its code needs, and
\* while it is explored they are or wait.
LabelsInv ==
  round.number = 0 =>
    /\ phase # "split"
    /\ phase # "done" => LabelledWith({})
    /\ phase = "done" => \E J : LabelledWith(J)
    /\ exploring => ex.labels \cup Range(ex.blocks) = {ex.entry} \cup AllLabels(ex.mode, ex.code)

In(s, t, m) == \E l \in Range(s) : l.address = t /\ l.mode = m

\* The leads to t there are, and those of the trial.
Queued(t, m) == In(queue, t, m) \/ In(guesses, t, m)
Tried(t, m) == In(trial.calls, t, m) \/ In(trial.pointers, t, m)
Awaited(t, m) == Queued(t, m) \/ (exploring /\ ex.entry = t /\ ex.mode = m)

\* What became of a place execution can go to, which stays so: marks may be undone.
Settled(t, m) ==
  \/ ~InText(t)
  \/ FunctionsHold(m, t)
  \/ <<t, m>> \in rejected
  \/ OldMap(t) # "Unknown" /\ FunctionsLoad(t)
  \/ ~Decoded(t, m)
  \/ t \in DOMAIN functions /\ functions[t].mode # m

\* A function has the instruction it begins with, if that is one.
Begun(e) ==
  \/ e \in functions[e].code
  \/ OldMap(e) # "Unknown" /\ FunctionsLoad(e)
  \/ ~Decoded(e, functions[e].mode)

FunctionsFollowed ==
  \A e \in DOMAIN functions :
    /\ Begun(e)
    /\ \A a \in functions[e].code : \A to \in After(functions[e].mode, a) :
         Settled(to[1], to[2]) \/ (phase = "scan" /\ Awaited(to[1], to[2]))

\* Where exploring has been or still goes, and what became of where it has been.
Ahead(t, m) == m = ex.mode /\ (t \in ex.seen \/ t \in Range(ex.blocks) \/ (ex.walking /\ t = ex.at))
Seen(s) ==
  \/ s \in ex.code
  \/ map[s] # "Unknown" /\ Loaded(s)
  \/ ~Decoded(s, ex.mode)
  \/ s # ex.entry /\ Holds(ex.mode, s)

ExploredInv ==
  /\ ~ex.judged => trial = NoTrial
  /\ ex.seen = {} =>
       /\ ex.code = {}
       /\ ex.judged => ex.mode \notin modes[ex.entry]
       /\ IF ex.walking THEN ex.at = ex.entry ELSE ex.blocks = <<ex.entry>>
  /\ ex.seen # {} => ex.entry \in ex.seen
  /\ \A s \in ex.seen : Seen(s)
  /\ \A a \in ex.code : \A to \in After(ex.mode, a) :
       Settled(to[1], to[2]) \/ Awaited(to[1], to[2]) \/ Tried(to[1], to[2]) \/ Ahead(to[1], to[2])

\* In code that is not split, each place a function leads to is settled or waits.
FollowedInv ==
  round.number = 0 =>
    /\ \A o \in Halfwords : map[o] = "Unknown" => OldMap(o) = "Unknown"
    /\ phase = "scan" => \A a \in Halfwords : cuts[a] # {} => a \in DOMAIN functions
    /\ FunctionsFollowed
    /\ exploring => ExploredInv

\* Whatever is sure to lead into the program starts a function or is about to.
CallsInv ==
  \A i \in DOMAIN program.calls :
    LET l == program.calls[i]
    IN \/ Known(l)
       \/ exploring /\ ~ex.judged /\ ex.entry = l.address
       \/ phase = "scan" /\ l \in Range(queue)

\* In code that is not split, what is marked is held.
WholeInv == round.number = 0 => \A o \in Halfwords : \A m \in modes[o] : Holds(m, o)

\* A function that has the instruction it begins with has a label for it, and it
\* has or waits for one while the function is explored.
EntriesInv ==
  /\ \A e \in DOMAIN functions : e \in functions[e].code => e \in functions[e].labels
  /\ exploring => ex.entry \in ex.labels \cup Range(ex.blocks)

AllInv ==
  Inv /\ Phases /\ JoinsInv /\ LabelsInv /\ FollowedInv /\ CallsInv /\ WholeInv /\ EntriesInv
-----------------------------------------------------------------------------
\* What is known of the instructions of a program.
LEMMA CodeFacts ==
  ASSUME Program(program), NEW m \in Modes, NEW a \in DOMAIN program.code[m]
  PROVE  /\ program.code[m][a] \in Instruction
         /\ a \in Halfwords
         /\ Span(m, a) \subseteq Halfwords
         /\ a \in Span(m, a)
<1>2. /\ program.code[m][a] \in Instruction
      /\ a \in Nat /\ a + program.code[m][a].size <= program.end
      /\ program.end \in Nat
  BY DEF Program
<1>3. program.code[m][a].size \in {1, 2}
  BY <1>2 DEF Instruction
<1> QED BY <1>2, <1>3 DEF Halfwords, Span

LEMMA LeadType ==
  ASSUME NEW address, NEW mode \in Modes, NEW sure \in BOOLEAN
  PROVE  LeadTo(address, mode, sure) \in Seq(Leads)
<1>1. CASE Unfound(address)
  <2>1. [address |-> address, mode |-> mode, sure |-> sure] \in Leads
    BY <1>1 DEF Unfound, InText, Halfwords, Leads, Lead
  <2> QED BY <2>1, <1>1 DEF LeadTo
<1>2. CASE ~Unfound(address)
  BY <1>2 DEF LeadTo
<1> QED BY <1>1, <1>2

LEMMA PointerType ==
  ASSUME NEW a
  PROVE  Pointer(a) \in Seq(Leads)
<1> DEFINE to == program.points[a]
<1>1. FALSE \in BOOLEAN
  OBVIOUS
<1>2. ASSUME to[2] \in Modes PROVE LeadTo(to[1], to[2], FALSE) \in Seq(Leads)
  BY <1>1, <1>2, LeadType
<1>3. <<>> \in Seq(Leads)
  OBVIOUS
<1> QED BY <1>2, <1>3 DEF Pointer

\* What is read off a finite set in order is a sequence.
LEMMA SortedType ==
  ASSUME NEW S, IsFiniteSet(S), NEW s \in Sorted(S)
  PROVE  Cardinality(S) \in Nat /\ s \in [1..Cardinality(S) -> S]
BY FS_CardinalityType DEF Sorted

\* Some words one after another are finitely many.
LEMMA TableFinite ==
  ASSUME NEW n \in Nat, NEW a \in Nat, NEW S, S \subseteq {a + 2 * k : k \in 0..n - 1}
  PROVE  IsFiniteSet(S)
<1>1. IsFiniteSet(a..a + 2 * n)
  BY FS_Interval
<1>2. S \subseteq a..a + 2 * n
  OBVIOUS
<1> QED BY <1>1, <1>2, FS_Subset

\* The instruction explore is at.
LEMMA ThisFacts ==
  ASSUME Types, Walks
  PROVE  /\ ex.mode \in Modes /\ ex.at \in DOMAIN program.code[ex.mode]
         /\ ex.at \in Halfwords /\ ex.at \in Nat
         /\ This \in Instruction
         /\ Span(ex.mode, ex.at) \subseteq Halfwords
         /\ ex.entry \in Halfwords
<1>1. ex.mode \in Modes /\ ex.at \in DOMAIN program.code[ex.mode] /\ ex.at \in Nat
  BY DEF Types, TypeOK, Exploration, Walks, Decodes
<1>2. ex.entry \in Halfwords
  BY DEF Types, TypeOK, Walks
<1> QED BY <1>1, <1>2, CodeFacts DEF Types, This

\* Every instruction is one of these steps.
LEMMA StepIs ==
  ASSUME Types, Step
  PROVE  Stepped
<1> USE DEF leads
<1>1. Walks
  BY DEF Step, Plain, Call, Branch, TailCall, Jump, JumpTable, AddressTable, LoadPcLiteral, LiteralLoad
<1>2. /\ <<>> \in Seq(Leads) /\ <<>> \in Seq(Halfwords)
      /\ {} \in SUBSET LiteralsOf(ex.mode, ex.at) /\ {} \in SUBSET Halfwords
      /\ entries \cup {} = entries
      /\ cuts \in [Halfwords -> SUBSET Halfwords] /\ entries \subseteq Halfwords
  BY DEF Types, TypeOK
<1>3. /\ This \in Instruction /\ This = program.code[ex.mode][ex.at]
      /\ ex.at \in Nat /\ ex.mode \in Modes /\ ex.sure \in BOOLEAN /\ ex.entry \in Halfwords
  BY <1>1, ThisFacts DEF This, Types, TypeOK, Exploration
<1>4. /\ This.conditional \in BOOLEAN /\ This.link \in BOOLEAN /\ This.width \in Nat /\ This.target \in Int
      /\ (~This.conditional) \in BOOLEAN /\ (~This.conditional /\ ~This.link) \in BOOLEAN
  BY <1>3 DEF Instruction
<1>5. CASE Plain
  <2>1. StepWith(<<>>, FALSE, <<>>, <<>>, {}, {})
    BY <1>1, <1>2, <1>5 DEF Plain, StepWith
  <2> QED BY <2>1, <1>2 DEF Stepped
<1>6. CASE Call
  <2> DEFINE calls == CallTo(This.target, IF This.flow = "Branch" THEN ex.mode ELSE Other(ex.mode))
  <2>1. calls \in Seq(Leads)
    BY <1>3, LeadType DEF CallTo, Other, Modes
  <2>2. StepWith(<<>>, FALSE, calls, <<>>, {}, {})
    BY <1>1, <1>2, <1>6 DEF Call, StepWith
  <2> HIDE DEF calls
  <2> QED BY <2>1, <2>2, <1>2 DEF Stepped
<1>7. CASE Branch
  <2> DEFINE blocks == IF InText(This.target) THEN <<This.target>> ELSE <<>>
  <2>1. blocks \in Seq(Halfwords)
    BY DEF InText
  <2>2. StepWith(blocks, ~This.conditional, <<>>, <<>>, {}, {})
    BY <1>1, <1>2, <1>7 DEF Branch, StepWith
  <2> HIDE DEF blocks
  <2> QED BY <2>1, <2>2, <1>2, <1>4 DEF Stepped
<1>8. CASE TailCall
  <2> DEFINE new == entries' \ entries
             calls == CallTo(This.target, ex.mode)
  <2>1. calls \in Seq(Leads)
    BY <1>3, LeadType DEF CallTo
  <2>2. entries' = (IF InText(This.target) THEN entries \cup {This.target} ELSE entries)
    BY <1>8 DEF TailCall
  <2>3. new \in SUBSET Halfwords /\ entries' = entries \cup new
    BY <2>2 DEF InText
  <2>4. cuts' \in [Halfwords -> SUBSET Halfwords]
    <3>1. cuts[ex.entry] \subseteq Halfwords
      BY <1>2, <1>3
    <3>2. cuts' = IF InText(This.target) THEN [cuts EXCEPT ![This.target] = @ \cup cuts[ex.entry]] ELSE cuts
      BY <1>8 DEF TailCall
    <3> QED BY <3>1, <3>2, <1>2 DEF InText
  <2>5. StepWith(<<>>, ~This.conditional, calls, <<>>, {}, new)
    BY <1>1, <1>2, <1>8, <2>3, <2>4 DEF TailCall, StepWith
  <2> HIDE DEF new, calls
  <2> QED BY <2>1, <2>3, <2>5, <1>2, <1>4 DEF Stepped
<1>9. CASE Jump
  <2>1. StepWith(<<>>, ~This.conditional /\ ~This.link, <<>>, <<>>, {}, {})
    BY <1>1, <1>2, <1>9 DEF Jump, StepWith
  <2> QED BY <2>1, <1>2, <1>4 DEF Stepped
<1>10. CASE JumpTable
  <2>1. PICK n \in 0..program.end :
          /\ \A k \in 1..n : IsCase(ex.at + 2 * k)
          /\ Walk([k \in 1..n |-> ex.at + 2 * k], TRUE)
    BY <1>10 DEF JumpTable
  <2> DEFINE blocks == [k \in 1..n |-> ex.at + 2 * k]
  <2>2. blocks \in Seq(Halfwords)
    <3>1. \A k \in 1..n : ex.at + 2 * k \in Halfwords
      BY <2>1, CodeFacts DEF IsCase, Types, Modes
    <3>2. n \in Nat
      BY <2>1
    <3> QED BY <3>1, <3>2, IsASeq
  <2>3. StepWith(blocks, TRUE, <<>>, <<>>, {}, {})
    BY <1>1, <1>2, <1>10, <2>1 DEF JumpTable, StepWith
  <2> HIDE DEF blocks
  <2> QED BY <2>2, <2>3, <1>2 DEF Stepped
<1>11. CASE AddressTable
  <2> DEFINE table == ex.at + 4
             slots(n, mode) == {a \in {table + 2 * k : k \in 0..n - 1} : program.points[a][2] = mode}
             literals(n) == table..table + 2 * n - 1
             unfound(n) == {a \in slots(n, "Thumb") : Unfound(program.points[a][1])}
             blocks(arm) == [k \in DOMAIN arm |-> program.points[arm[k]][1]]
             pointers(thumb) == [k \in DOMAIN thumb |-> [address |-> program.points[thumb[k]][1],
                                                         mode |-> "Thumb", sure |-> FALSE]]
  <2>1. PICK n \in 0..This.width :
          /\ \A k \in 0..n - 1 : IsAddress(table + 2 * k)
          /\ Mark(Span(ex.mode, ex.at), literals(n))
          /\ \E arm \in Sorted(slots(n, "Arm")) : Walk(blocks(arm), ~This.conditional)
          /\ \E thumb \in Sorted(unfound(n)) : Note(<<>>, pointers(thumb), literals(n), {})
    BY <1>11 DEF AddressTable
  <2>2. PICK arm \in Sorted(slots(n, "Arm")) : Walk(blocks(arm), ~This.conditional)
    BY <2>1
  <2>3. PICK thumb \in Sorted(unfound(n)) : Note(<<>>, pointers(thumb), literals(n), {})
    BY <2>1
  <2>4. StepWith(blocks(arm), ~This.conditional, <<>>, pointers(thumb), literals(n), {})
    BY <1>1, <1>2, <1>11, <2>1, <2>2, <2>3 DEF AddressTable, StepWith
  <2>5. literals(n) \in SUBSET LiteralsOf(ex.mode, ex.at)
    <3>1. This.flow = "AddressTable" /\ n \in Nat /\ n <= This.width
      BY <1>11, <1>4, <2>1 DEF AddressTable
    <3>2. LiteralsOf(ex.mode, ex.at) = ex.at + 4..ex.at + 3 + 2 * This.width
      BY <3>1, <1>3 DEF LiteralsOf
    <3>3. \A w \in Nat, t \in Nat : n <= w => (t + 4)..(t + 4) + 2 * n - 1 \subseteq t + 4..t + 3 + 2 * w
      BY <3>1
    <3> QED BY <3>1, <3>2, <3>3, <1>3, <1>4
  <2>6. blocks(arm) \in Seq(Halfwords)
    <3> DEFINE f(a) == program.points[a][1]
               S == slots(n, "Arm")
    <3>1. \A a \in S : f(a) \in Halfwords
      BY <2>1 DEF IsAddress, InText
    <3>2. S \subseteq {table + 2 * k : k \in 0..n - 1} /\ arm \in Sorted(S)
      BY <2>2
    <3>3. table \in Nat /\ n \in Nat
      BY <1>3, <1>4
    <3> HIDE DEF S, table
    <3>4. IsFiniteSet(S)
      BY <3>2, <3>3, TableFinite
    <3> HIDE DEF f
    <3>5. PICK c \in Nat : arm \in [1..c -> S]
      BY <3>2, <3>4, SortedType
    <3>6. [k \in DOMAIN arm |-> f(arm[k])] \in [1..c -> Halfwords]
      BY <3>1, <3>5
    <3>7. [k \in DOMAIN arm |-> f(arm[k])] \in Seq(Halfwords)
      BY <3>6, SeqDef
    <3> QED BY <3>7 DEF f
  <2>7. pointers(thumb) \in Seq(Leads)
    <3> DEFINE f(a) == [address |-> program.points[a][1], mode |-> "Thumb", sure |-> FALSE]
               S == unfound(n)
    <3>1. \A a \in S : f(a) \in Leads
      BY DEF Unfound, InText, Halfwords, Leads, Lead, Modes
    <3>2. S \subseteq {table + 2 * k : k \in 0..n - 1} /\ thumb \in Sorted(S)
      BY <2>3
    <3>3. table \in Nat /\ n \in Nat
      BY <1>3, <1>4
    <3> HIDE DEF S, table
    <3>4. IsFiniteSet(S)
      BY <3>2, <3>3, TableFinite
    <3> HIDE DEF f
    <3>5. PICK c \in Nat : thumb \in [1..c -> S]
      BY <3>2, <3>4, SortedType
    <3>6. [k \in DOMAIN thumb |-> f(thumb[k])] \in [1..c -> Leads]
      BY <3>1, <3>5
    <3>7. [k \in DOMAIN thumb |-> f(thumb[k])] \in Seq(Leads)
      BY <3>6, SeqDef
    <3> QED BY <3>7 DEF f
  <2> HIDE DEF literals, blocks, pointers
  <2> QED BY <2>4, <2>5, <2>6, <2>7, <1>2, <1>4 DEF Stepped
<1>12. CASE LoadPcLiteral
  <2> DEFINE literals == This.target..This.target + 1
  <2>1. literals \in SUBSET LiteralsOf(ex.mode, ex.at)
    BY <1>3, <1>12 DEF LiteralsOf, LoadPcLiteral
  <2>2. StepWith(<<>>, ~This.conditional, <<>>, Pointer(This.target), literals, {})
    BY <1>1, <1>2, <1>12 DEF LoadPcLiteral, StepWith
  <2> HIDE DEF literals
  <2> QED BY <2>1, <2>2, <1>2, <1>4, PointerType DEF Stepped
<1>13. CASE LiteralLoad
  <2> DEFINE data == InText(This.target) /\ map[This.target] # "Code"
                     /\ This.target \notin Span(ex.mode, ex.at)
             literals == IF data THEN This.target..This.target + This.width - 1 ELSE {}
             pointers == IF data /\ This.width = 2 THEN Pointer(This.target) ELSE <<>>
  <2>1. literals \in SUBSET LiteralsOf(ex.mode, ex.at)
    BY <1>3, <1>13 DEF LiteralsOf, LiteralLoad
  <2>2. StepWith(<<>>, FALSE, <<>>, pointers, literals, {})
    BY <1>1, <1>2, <1>13 DEF LiteralLoad, StepWith
  <2>3. pointers \in Seq(Leads)
    BY <1>2, PointerType
  <2> HIDE DEF literals, pointers
  <2> QED BY <2>1, <2>2, <2>3, <1>2 DEF Stepped
<1> QED
  BY <1>5, <1>6, <1>7, <1>8, <1>9, <1>10, <1>11, <1>12, <1>13 DEF Step
-----------------------------------------------------------------------------
LEMMA HalfwordsSame ==
  ASSUME program' = program
  PROVE  Halfwords' = Halfwords /\ Leads' = Leads /\ Olds' = Olds /\ Trial' = Trial
BY DEF Halfwords, Leads, Olds, Trial, Lead

\* What is before the marks of a step changes none of those before the trial.
LEMMA BeforeFacts ==
  ASSUME Types, NEW touched, touched \subseteq Int
  PROVE  /\ Before(touched) \in Olds
         /\ DOMAIN Before(touched) = DOMAIN trial.before \cup (touched \cap Halfwords)
         /\ \A o \in DOMAIN Before(touched) :
              Before(touched)[o] = IF o \in DOMAIN trial.before THEN trial.before[o]
                                   ELSE [map |-> map[o], modes |-> modes[o]]
<1> DEFINE D == DOMAIN trial.before \cup (touched \cap Halfwords)
<1>1. trial.before \in Olds
  BY DEF Types, Trial
<1>2. PICK S \in SUBSET Halfwords : trial.before \in [S -> [map : Bytes, modes : SUBSET Modes]]
  BY <1>1 DEF Olds
<1>3. D \in SUBSET Halfwords
  BY <1>2
<1>4. \A o \in touched \cap Halfwords : [map |-> map[o], modes |-> modes[o]] \in [map : Bytes, modes : SUBSET Modes]
  BY DEF Types, TypeOK
<1>5. Before(touched) \in [D -> [map : Bytes, modes : SUBSET Modes]]
  BY <1>2, <1>4 DEF Before
<1>6. Before(touched) \in Olds
  BY <1>3, <1>5 DEF Olds
<1> QED BY <1>6 DEF Before

LEMMA LiteralsFacts ==
  ASSUME NEW m, NEW a, program.code[m][a] \in Instruction, a \in Nat
  PROVE  LiteralsOf(m, a) \subseteq Int
<1> DEFINE i == program.code[m][a]
<1>1. i.target \in Int /\ i.width \in Nat
  BY DEF Instruction
<1> HIDE DEF i
<1>2. /\ i.target..i.target + i.width - 1 \subseteq Int
      /\ i.target..i.target + 1 \subseteq Int
      /\ a + 4..a + 3 + 2 * i.width \subseteq Int
  BY <1>1
<1>3. \/ LiteralsOf(m, a) = i.target..i.target + i.width - 1
      \/ LiteralsOf(m, a) = i.target..i.target + 1
      \/ LiteralsOf(m, a) = a + 4..a + 3 + 2 * i.width
      \/ LiteralsOf(m, a) = {}
  BY DEF LiteralsOf, i
<1> QED BY <1>2, <1>3

LEMMA StepTypes ==
  ASSUME Types, Stepped
  PROVE  Types'
<1>1. PICK blocks \in Seq(Halfwords), ends \in BOOLEAN, calls \in Seq(Leads), pointers \in Seq(Leads),
           literals \in SUBSET LiteralsOf(ex.mode, ex.at), new \in SUBSET Halfwords :
             StepWith(blocks, ends, calls, pointers, literals, new)
  BY DEF Stepped
<1>2. /\ Walks /\ program' = program /\ phase' = phase /\ functions' = functions
      /\ rejected' = rejected /\ guessed' = guessed /\ joins' = joins
      /\ exploring' = exploring /\ round' = round
      /\ cuts' \in [Halfwords -> SUBSET Halfwords]
      /\ entries' = entries \cup new
  BY <1>1 DEF StepWith
<1>3. /\ Halfwords' = Halfwords /\ Leads' = Leads /\ Trial' = Trial
      /\ Lead(program.end)' = Leads
  BY <1>2, HalfwordsSame DEF Leads
<1>4. /\ ex.mode \in Modes /\ ex.at \in DOMAIN program.code[ex.mode]
      /\ ex.at \in Halfwords /\ ex.at \in Nat
      /\ This \in Instruction
      /\ Span(ex.mode, ex.at) \subseteq Halfwords
  BY <1>2, ThisFacts
<1>5. map' \in [Halfwords -> Bytes] /\ modes' \in [Halfwords -> SUBSET Modes]
  BY <1>1, <1>4 DEF StepWith, Mark, Types, TypeOK, Bytes
<1>6. This.size \in Nat
  BY <1>4 DEF Instruction
<1>7. /\ ex' \in Exploration /\ ex'.mode = ex.mode /\ ex'.entry = ex.entry
      /\ ex'.judged = ex.judged /\ ex'.code = ex.code \cup {ex.at}
  <2> DEFINE on == ~ends
             blocks2 == ex.blocks \o blocks
             labels2 == ex.labels \cup IF Returns(This) THEN {ex.at + This.size} ELSE {}
  <2>1. ex \in Exploration
    BY DEF Types, TypeOK
  <2>2. blocks2 \in Seq(Halfwords)
    BY <2>1, ConcatProperties DEF Exploration
  <2>3. labels2 \in SUBSET Nat
    BY <2>1, <1>4, <1>6 DEF Exploration
  <2>4. ex' = [ex EXCEPT !.walking = on, !.at = ex.at + This.size, !.blocks = blocks2,
                         !.seen = ex.seen \cup {ex.at}, !.code = ex.code \cup {ex.at},
                         !.labels = labels2]
    BY <1>1 DEF StepWith, Walk
  <2>5. /\ ex.at + This.size \in Nat
        /\ ex.seen \cup {ex.at} \in SUBSET Halfwords /\ ex.code \cup {ex.at} \in SUBSET Halfwords
    BY <2>1, <1>4, <1>6 DEF Exploration
  <2>6. on \in BOOLEAN
    OBVIOUS
  <2> HIDE DEF on, blocks2, labels2
  <2> QED BY <2>1, <2>2, <2>3, <2>4, <2>5, <2>6 DEF Exploration
<1>8. ex'.code \subseteq DOMAIN program'.code[ex'.mode]
  <2>1. ex.code \subseteq DOMAIN program.code[ex.mode]
    BY DEF Types, TypeOK
  <2> QED BY <2>1, <1>2, <1>4, <1>7
<1>9. /\ trial' \in Trial /\ trial'.entries \subseteq entries'
      /\ queue' \in Seq(Leads) /\ guesses' \in Seq(Leads)
  <2>1. queue \in Seq(Leads) /\ guesses \in Seq(Leads) /\ trial \in Trial /\ trial.entries \subseteq entries
    BY DEF Types, TypeOK, Leads
  <2>2. CASE ex.judged
    <3> DEFINE touched == Span(ex.mode, ex.at) \cup literals
    <3>1. touched \subseteq Int
      <4>1. LiteralsOf(ex.mode, ex.at) \subseteq Int
        BY <1>4, LiteralsFacts DEF This
      <4> QED BY <4>1, <1>4 DEF Halfwords
    <3>2. Before(touched) \in Olds
      BY <3>1, BeforeFacts
    <3>3. trial.calls \o calls \in Seq(Leads) /\ trial.pointers \o pointers \in Seq(Leads)
      BY <2>1, ConcatProperties DEF Trial
    <3>4. /\ trial' = [trial EXCEPT !.before = Before(touched), !.calls = trial.calls \o calls,
                                    !.pointers = trial.pointers \o pointers,
                                    !.entries = trial.entries \cup new]
          /\ queue' = queue /\ guesses' = guesses
      BY <1>1, <2>2 DEF StepWith, Note, leads
    <3> HIDE DEF touched
    <3> QED BY <2>1, <3>2, <3>3, <3>4, <1>2 DEF Trial
  <2>3. CASE ~ex.judged
    <3>1. queue' = queue \o calls /\ guesses' = guesses \o pointers /\ trial' = trial
      BY <1>1, <2>3 DEF StepWith, Note, Follow
    <3> QED BY <2>1, <3>1, <1>2, ConcatProperties
  <2> QED BY <2>2, <2>3
<1>10. /\ DOMAIN trial'.before \subseteq Halfwords
       /\ trial'.calls \in Seq(Leads) /\ trial'.pointers \in Seq(Leads)
       /\ trial'.joins \subseteq Halfwords \X Modes
  BY <1>9 DEF Trial, Olds
<1>11. (~exploring => trial = NoTrial)'
  BY <1>2 DEF Walks
<1>12. entries' \subseteq Halfwords
  BY <1>2 DEF Types, TypeOK
<1>13. Exploration' = Exploration
  BY <1>3 DEF Exploration
<1>14. TypeOK'
  <2>1. /\ phase' \in {"scan", "split", "label", "done"}
        /\ DOMAIN functions' \subseteq Halfwords'
        /\ \A e \in DOMAIN functions' :
             /\ functions'[e] \in [mode : Modes, code : SUBSET Halfwords', labels : SUBSET Nat]
             /\ functions'[e].labels \subseteq functions'[e].code
             /\ functions'[e].code \subseteq DOMAIN program'.code[functions'[e].mode]
        /\ guessed' \subseteq DOMAIN functions'
    BY <1>2, <1>3 DEF Types, TypeOK
  <2>2. /\ rejected' \subseteq Halfwords' \X Modes /\ joins' \subseteq Halfwords' \X Modes
        /\ exploring' \in BOOLEAN
        /\ (exploring' => ex'.entry \in Halfwords' /\ (phase' = "scan" => ex'.entry \notin DOMAIN functions'))
        /\ round'.number \in 0..4 /\ round'.left \subseteq round'.huge /\ round'.huge \subseteq DOMAIN functions'
    BY <1>2, <1>3, <1>7 DEF Types, TypeOK
  <2> QED BY <2>1, <2>2, <1>2, <1>3, <1>5, <1>7, <1>8, <1>9, <1>10, <1>12, <1>13 DEF TypeOK
<1> QED BY <1>2, <1>3, <1>9, <1>11, <1>14 DEF Types
-----------------------------------------------------------------------------
\* What functions hold and load are the same with the same functions.
LEMMA FunctionsSame ==
  ASSUME functions' = functions, program' = program, NEW o
  PROVE  /\ \A m : FunctionsHold(m, o)' <=> FunctionsHold(m, o)
         /\ FunctionsLoad(o)' <=> FunctionsLoad(o)
<1>1. \A m, a : Span(m, a)' = Span(m, a) /\ LiteralsOf(m, a)' = LiteralsOf(m, a)
  BY DEF Span, LiteralsOf
<1>2. \A m : FunctionsHold(m, o)' <=> FunctionsHold(m, o)
  BY <1>1, Zenon DEF FunctionsHold, FunctionHolds, HoldsAt
<1>3. FunctionsLoad(o)' <=> FunctionsLoad(o)
  BY <1>1, Zenon DEF FunctionsLoad
<1> QED BY <1>2, <1>3

\* A step changes nothing of what undoing the trial comes to.
LEMMA StepOld ==
  ASSUME Types, Stepped, ex.judged, NEW o \in Halfwords
  PROVE  OldMap(o)' = OldMap(o) /\ OldModes(o)' = OldModes(o)
<1>1. PICK blocks \in Seq(Halfwords), ends \in BOOLEAN, calls \in Seq(Leads), pointers \in Seq(Leads),
           literals \in SUBSET LiteralsOf(ex.mode, ex.at), new \in SUBSET Halfwords :
             StepWith(blocks, ends, calls, pointers, literals, new)
  BY DEF Stepped
<1> DEFINE code == Span(ex.mode, ex.at)
<1>2. code \subseteq Halfwords /\ ex.at \in Nat /\ This \in Instruction
  BY <1>1, ThisFacts DEF StepWith
<1>3. /\ map'[o] = IF o \in code THEN "Code"
                   ELSE IF o \in literals /\ map[o] # "Code" THEN "Literal" ELSE map[o]
      /\ modes'[o] = IF o \in code THEN modes[o] \cup {ex.mode} ELSE modes[o]
  BY <1>1 DEF StepWith, Mark
<1> DEFINE touched == code \cup literals
<1>4. touched \subseteq Int
  <2>1. LiteralsOf(ex.mode, ex.at) \subseteq Int
    BY <1>2, LiteralsFacts DEF This
  <2> QED BY <2>1, <1>2 DEF Halfwords
<1>5. trial'.before = Before(touched)
  BY <1>1 DEF StepWith, Note, Types, Trial
<1>6. /\ DOMAIN trial'.before = DOMAIN trial.before \cup (touched \cap Halfwords)
      /\ \A b \in DOMAIN trial'.before :
           trial'.before[b] = IF b \in DOMAIN trial.before THEN trial.before[b]
                              ELSE [map |-> map[b], modes |-> modes[b]]
  <2> HIDE DEF touched
  <2>1. /\ DOMAIN Before(touched) = DOMAIN trial.before \cup (touched \cap Halfwords)
        /\ \A b \in DOMAIN Before(touched) :
             Before(touched)[b] = IF b \in DOMAIN trial.before THEN trial.before[b]
                                  ELSE [map |-> map[b], modes |-> modes[b]]
    BY <1>4, BeforeFacts
  <2> QED BY <2>1, <1>5, Zenon
<1>7. /\ o \in DOMAIN trial.before => o \in DOMAIN trial'.before /\ trial'.before[o] = trial.before[o]
      /\ o \notin DOMAIN trial.before /\ o \in touched =>
           /\ o \in DOMAIN trial'.before
           /\ trial'.before[o].map = map[o] /\ trial'.before[o].modes = modes[o]
      /\ o \notin DOMAIN trial.before /\ o \notin touched =>
           o \notin DOMAIN trial'.before /\ map'[o] = map[o] /\ modes'[o] = modes[o]
  <2>1. o \notin touched => map'[o] = map[o] /\ modes'[o] = modes[o]
    BY <1>3
  <2> HIDE DEF touched
  <2>2. o \in DOMAIN trial.before => o \in DOMAIN trial'.before /\ trial'.before[o] = trial.before[o]
    BY <1>6
  <2>3. ASSUME o \notin DOMAIN trial.before, o \in touched
        PROVE  o \in DOMAIN trial'.before /\ trial'.before[o] = [map |-> map[o], modes |-> modes[o]]
    <3>1. o \in DOMAIN trial'.before
      BY <2>3, <1>6
    <3> QED BY <3>1, <2>3, <1>6
  <2>4. o \notin DOMAIN trial.before /\ o \notin touched => o \notin DOMAIN trial'.before
    BY <1>6
  <2> QED BY <2>1, <2>2, <2>3, <2>4
<1> HIDE DEF touched
<1> QED BY <1>7 DEF OldMap, OldModes


\* A step marks what the instruction it adds holds and loads, no more.
LEMMA StepMarks ==
  ASSUME Types, MarksAreHeld, TrialInv, Stepped
  PROVE  MarksAreHeld' /\ TrialInv'
<1>1. PICK blocks \in Seq(Halfwords), ends \in BOOLEAN, calls \in Seq(Leads), pointers \in Seq(Leads),
           literals \in SUBSET LiteralsOf(ex.mode, ex.at), new \in SUBSET Halfwords :
             StepWith(blocks, ends, calls, pointers, literals, new)
  BY DEF Stepped
<1> DEFINE code == Span(ex.mode, ex.at)
<1>2. /\ exploring /\ exploring' /\ program' = program /\ phase' = phase /\ functions' = functions
      /\ Halfwords' = Halfwords
      /\ ex'.mode = ex.mode /\ ex'.judged = ex.judged /\ ex'.code = ex.code \cup {ex.at}
  BY <1>1 DEF StepWith, Walks, Walk, Types, TypeOK, Exploration, Halfwords
<1>3. /\ ex.mode \in Modes /\ code \subseteq Halfwords
      /\ ex.at \in Nat /\ This \in Instruction
  BY <1>1, ThisFacts DEF StepWith
<1>4. \A o \in Halfwords :
        /\ map'[o] = IF o \in code THEN "Code"
                     ELSE IF o \in literals /\ map[o] # "Code" THEN "Literal" ELSE map[o]
        /\ modes'[o] = IF o \in code THEN modes[o] \cup {ex.mode} ELSE modes[o]
  BY <1>1 DEF StepWith, Mark
<1>5. \A m, a : Span(m, a)' = Span(m, a) /\ LiteralsOf(m, a)' = LiteralsOf(m, a)
  BY <1>2 DEF Span, LiteralsOf
<1>6. ASSUME NEW o \in Halfwords, NEW m
      PROVE  Holds(m, o)' <=> Holds(m, o) \/ (m = ex.mode /\ o \in code)
  <2>1. FunctionsHold(m, o)' <=> FunctionsHold(m, o)
    BY <1>2, FunctionsSame
  <2>2. (exploring /\ ex.mode = m /\ HoldsAt(m, ex.code, o))'
          <=> (exploring /\ ex.mode = m /\ HoldsAt(m, ex.code, o)) \/ (m = ex.mode /\ o \in code)
    BY <1>2, <1>5 DEF HoldsAt
  <2> QED BY <2>1, <2>2 DEF Holds, FunctionsHold
<1>7. ASSUME NEW o \in Halfwords, Loaded(o) \/ o \in literals
      PROVE  Loaded(o)'
  <2>1. FunctionsLoad(o)' <=> FunctionsLoad(o)
    BY <1>2, FunctionsSame
  <2>2. (\E a \in ex.code : o \in LiteralsOf(ex.mode, a)) \/ o \in literals
          => (exploring /\ \E a \in ex.code : o \in LiteralsOf(ex.mode, a))'
    <3>1. ex.at \in ex'.code /\ ex.code \subseteq ex'.code
      BY <1>2
    <3>2. \A a : LiteralsOf(ex.mode, a)' = LiteralsOf(ex.mode, a)
      BY <1>2, <1>5
    <3>3. \A b \in literals : b \in LiteralsOf(ex.mode, ex.at)
      OBVIOUS
    <3> QED BY <3>1, <3>2, <3>3, <1>2, Zenon
  <2> QED BY <2>1, <2>2, <1>7, <1>2 DEF Loaded, FunctionsLoad
<1>8. MarksAreHeld'
  <2> SUFFICES ASSUME NEW o \in Halfwords
               PROVE  /\ (map'[o] = "Code" <=> modes'[o] # {})
                      /\ \A m \in Modes : Holds(m, o)' => m \in modes'[o]
                      /\ (phase' = "scan" => \A m \in modes'[o] : Holds(m, o)')
                      /\ (phase' = "scan" /\ map'[o] = "Literal" => Loaded(o)')
    BY <1>2 DEF MarksAreHeld
  <2>1. /\ (map[o] = "Code" <=> modes[o] # {})
        /\ \A m \in Modes : Holds(m, o) => m \in modes[o]
        /\ (phase = "scan" => \A m \in modes[o] : Holds(m, o))
        /\ (phase = "scan" /\ map[o] = "Literal" => Loaded(o))
    BY DEF MarksAreHeld
  <2>2. map'[o] = "Code" <=> modes'[o] # {}
    BY <2>1, <1>4
  <2>3. \A m \in Modes : Holds(m, o)' => m \in modes'[o]
    BY <2>1, <1>4, <1>6
  <2>4. phase' = "scan" => \A m \in modes'[o] : Holds(m, o)'
    BY <2>1, <1>2, <1>4, <1>6
  <2>5. phase' = "scan" /\ map'[o] = "Literal" => Loaded(o)'
    BY <2>1, <1>2, <1>4, <1>7
  <2> QED BY <2>2, <2>3, <2>4, <2>5
<1>9. TrialInv'
  <2> SUFFICES ASSUME ex.judged, NEW o \in Halfwords
               PROVE  /\ (OldMap(o)' = "Code" <=> OldModes(o)' # {})
                      /\ \A m \in Modes : FunctionsHold(m, o)' => m \in OldModes(o)'
                      /\ (phase' = "scan" => \A m \in OldModes(o)' : FunctionsHold(m, o)')
                      /\ (phase' = "scan" /\ OldMap(o)' = "Literal" => FunctionsLoad(o)')
    BY <1>2 DEF TrialInv
  <2>1. OldMap(o)' = OldMap(o) /\ OldModes(o)' = OldModes(o)
    BY StepOld
  <2> QED BY <2>1, <1>2, FunctionsSame DEF TrialInv
<1> QED BY <1>8, <1>9
-----------------------------------------------------------------------------
\* An action that leaves the marks, the functions and the code of the trial alone.
LEMMA QuietMarks ==
  ASSUME MarksAreHeld, TrialInv,
         program' = program, functions' = functions, map' = map, modes' = modes,
         phase' = "scan" => phase = "scan",
         exploring' = exploring, ex'.mode = ex.mode, ex'.code = ex.code, ex'.judged = ex.judged,
         trial'.before = trial.before
  PROVE  MarksAreHeld' /\ TrialInv'
<1>1. Halfwords' = Halfwords
  BY DEF Halfwords
<1>2. \A m, a : Span(m, a)' = Span(m, a) /\ LiteralsOf(m, a)' = LiteralsOf(m, a)
  BY DEF Span, LiteralsOf
<1>3. \A m, o : Holds(m, o)' <=> Holds(m, o)
  BY <1>2, Zenon DEF Holds, FunctionHolds, HoldsAt
<1>4. \A o : Loaded(o)' <=> Loaded(o)
  BY <1>2, Zenon DEF Loaded
<1>5. \A o : OldMap(o)' = OldMap(o) /\ OldModes(o)' = OldModes(o)
  BY DEF OldMap, OldModes
<1>6. MarksAreHeld'
  BY <1>1, <1>3, <1>4 DEF MarksAreHeld
<1>7. TrialInv'
  BY <1>1, <1>5, FunctionsSame DEF TrialInv
<1> QED BY <1>6, <1>7

\* The marks before a trial are the marks when it begins.
LEMMA StartMarks ==
  ASSUME MarksAreHeld, ~exploring,
         program' = program, functions' = functions, map' = map, modes' = modes,
         phase' = phase, ex'.code = {}, trial' = NoTrial
  PROVE  MarksAreHeld' /\ TrialInv'
<1>1. Halfwords' = Halfwords
  BY DEF Halfwords
<1>2. \A m, o : Holds(m, o) <=> FunctionsHold(m, o)
  BY DEF Holds, FunctionsHold
<1>3. \A m, o : Holds(m, o)' <=> FunctionsHold(m, o)'
  BY DEF Holds, FunctionsHold, HoldsAt
<1>4. \A o : (Loaded(o) <=> FunctionsLoad(o)) /\ (Loaded(o)' <=> FunctionsLoad(o)')
  BY DEF Loaded, FunctionsLoad
<1>5. \A o : OldMap(o)' = map[o] /\ OldModes(o)' = modes[o]
  BY DEF OldMap, OldModes, NoTrial
<1>6. MarksAreHeld'
  BY <1>1, <1>2, <1>3, <1>4, FunctionsSame DEF MarksAreHeld
<1>7. TrialInv'
  BY <1>1, <1>2, <1>4, <1>5, FunctionsSame DEF TrialInv, MarksAreHeld
<1> QED BY <1>6, <1>7

\* What was explored is held by the function that takes its place.
LEMMA InsertMarks ==
  ASSUME Types, MarksAreHeld, exploring, Insert, Idling,
         program' = program, map' = map, modes' = modes, phase' = phase
  PROVE  MarksAreHeld' /\ TrialInv'
<1>1. Halfwords' = Halfwords
  BY DEF Halfwords
<1>2. \A m, a : Span(m, a)' = Span(m, a) /\ LiteralsOf(m, a)' = LiteralsOf(m, a)
  BY DEF Span, LiteralsOf
<1>3. /\ DOMAIN functions' = DOMAIN functions \cup {ex.entry}
      /\ functions'[ex.entry].mode = ex.mode /\ functions'[ex.entry].code = ex.code
      /\ \A e \in DOMAIN functions : e # ex.entry => functions'[e] = functions[e]
  BY DEF Insert
<1>4. exploring' = FALSE
  BY DEF Idling
<1>5. phase = "scan" => ex.entry \notin DOMAIN functions
  BY DEF Types, TypeOK
<1>6. ASSUME NEW m, NEW o
      PROVE  (Holds(m, o)' => Holds(m, o)) /\ (phase = "scan" /\ Holds(m, o) => Holds(m, o)')
  <2>1. ASSUME NEW e, e = ex.entry
        PROVE  FunctionHolds(e, m, o)' <=> (ex.mode = m /\ HoldsAt(m, ex.code, o))
    BY <2>1, <1>2, <1>3 DEF FunctionHolds, HoldsAt
  <2>2. \A e \in DOMAIN functions : e # ex.entry => (FunctionHolds(e, m, o)' <=> FunctionHolds(e, m, o))
    BY <1>2, <1>3 DEF FunctionHolds, HoldsAt
  <2>3. Holds(m, o)' <=> \E e \in DOMAIN functions' : FunctionHolds(e, m, o)'
    BY <1>4 DEF Holds
  <2> QED BY <2>1, <2>2, <2>3, <1>3, <1>5 DEF Holds
<1>7. ASSUME phase = "scan", NEW o, Loaded(o)
      PROVE  Loaded(o)'
  <2>1. CASE program.relocated /\ {o, o - 1} \cap program.slots # {}
    BY <2>1 DEF Loaded
  <2>2. ASSUME NEW e \in DOMAIN functions, NEW a \in functions[e].code, o \in LiteralsOf(functions[e].mode, a)
        PROVE  Loaded(o)'
    <3>1. e \in DOMAIN functions' /\ functions'[e] = functions[e]
      BY <1>3, <1>5, <1>7
    <3> QED BY <3>1, <2>2, <1>2 DEF Loaded
  <2>3. ASSUME NEW a \in ex.code, o \in LiteralsOf(ex.mode, a)
        PROVE  Loaded(o)'
    BY <2>3, <1>2, <1>3 DEF Loaded
  <2> QED BY <1>7, <2>1, <2>2, <2>3 DEF Loaded
<1>8. MarksAreHeld'
  BY <1>1, <1>6, <1>7 DEF MarksAreHeld
<1> QED BY <1>4, <1>8 DEF TrialInv

\* A guess that is rejected leaves the marks of the functions there are.
LEMMA RejectMarks ==
  ASSUME TrialInv, exploring, Reject
  PROVE  MarksAreHeld' /\ TrialInv'
<1>1. /\ program' = program /\ functions' = functions /\ phase' = phase
      /\ Halfwords' = Halfwords /\ exploring' = FALSE /\ ex.judged
      /\ \A o \in Halfwords : map'[o] = OldMap(o) /\ modes'[o] = OldModes(o)
  BY DEF Reject, Idling, Halfwords, OldMap, OldModes
<1>2. \A m, o : Holds(m, o)' <=> FunctionsHold(m, o)'
  BY <1>1 DEF Holds, FunctionsHold
<1>3. \A o : Loaded(o)' <=> FunctionsLoad(o)'
  BY <1>1 DEF Loaded, FunctionsLoad
<1>4. MarksAreHeld'
  BY <1>1, <1>2, <1>3, FunctionsSame DEF MarksAreHeld, TrialInv
<1> QED BY <1>1, <1>4 DEF TrialInv

\* Labels are no marks.
LEMMA LabelMarks ==
  ASSUME Types, MarksAreHeld, TrialInv, LabelJoins
  PROVE  MarksAreHeld' /\ TrialInv'
<1>1. /\ program' = program /\ map' = map /\ modes' = modes /\ phase' = "done"
      /\ Halfwords' = Halfwords /\ exploring' = exploring /\ ex' = ex /\ trial' = trial
      /\ DOMAIN functions' = DOMAIN functions
      /\ \A e \in DOMAIN functions :
           functions'[e] = [functions[e] EXCEPT !.labels = @ \cup {a \in functions[e].code : <<a, functions[e].mode>> \in joins}]
  BY DEF LabelJoins, Halfwords, marks
<1>2. \A m, a : Span(m, a)' = Span(m, a)
  BY <1>1 DEF Span
<1>3. \A e \in DOMAIN functions : functions'[e].mode = functions[e].mode /\ functions'[e].code = functions[e].code
  <2>1. \A e \in DOMAIN functions : functions[e] \in [mode : Modes, code : SUBSET Halfwords, labels : SUBSET Nat]
    BY DEF Types, TypeOK
  <2> QED BY <2>1, <1>1
<1>4. \A m, o : Holds(m, o)' <=> Holds(m, o)
  BY <1>1, <1>2, <1>3 DEF Holds, FunctionHolds, HoldsAt
<1>5. MarksAreHeld'
  BY <1>1, <1>4 DEF MarksAreHeld
<1>6. \A m, o : FunctionsHold(m, o)' <=> FunctionsHold(m, o)
  BY <1>1, <1>2, <1>3 DEF FunctionsHold, FunctionHolds, HoldsAt
<1>7. \A o : OldMap(o)' = OldMap(o) /\ OldModes(o)' = OldModes(o)
  BY <1>1 DEF OldMap, OldModes
<1>8. TrialInv'
  BY <1>1, <1>6, <1>7 DEF TrialInv
<1> QED BY <1>5, <1>8
-----------------------------------------------------------------------------
LEMMA NoTrialType == NoTrial \in Trial /\ Nowhere \in Exploration /\ NoTrial.entries = {}
<1>1. <<>> \in [{} -> [map : Bytes, modes : SUBSET Modes]]
  OBVIOUS
<1>2. {} \in SUBSET Halfwords
  OBVIOUS
<1>3. <<>> \in Olds
  BY <1>1, <1>2 DEF Olds
<1>4. NoTrial \in Trial
  BY <1>3 DEF NoTrial, Trial
<1>5. Nowhere \in Exploration
  BY DEF Nowhere, Exploration, Modes
<1> QED BY <1>4, <1>5 DEF NoTrial

LEMMA StartInv == Program(program) /\ Start => Inv
<1> SUFFICES ASSUME Program(program), Start PROVE Inv
  OBVIOUS
<1>2. queue \in Seq(Leads) /\ guesses \in Seq(Leads)
  BY DEF Start, Program, Leads
<1>3. DOMAIN functions = {}
  BY DEF Start
<1>4. ~exploring /\ ex = Nowhere /\ trial = NoTrial /\ round = NoRound
  BY DEF Start
<1>5. /\ map \in [Halfwords -> Bytes] /\ modes \in [Halfwords -> SUBSET Modes]
      /\ cuts \in [Halfwords -> SUBSET Halfwords]
  BY DEF Start, Bytes
<1>6. /\ phase = "scan" /\ entries = {} /\ rejected = {} /\ guessed = {} /\ joins = {}
  BY DEF Start
<1>7. round \in [number : 0..4, huge : SUBSET Halfwords, left : SUBSET Halfwords]
  BY <1>4 DEF NoRound
<1>8. Nowhere.code = {}
  BY DEF Nowhere
<1>9. TypeOK
  <2>1. /\ DOMAIN trial.before \subseteq Halfwords
        /\ trial.calls \in Seq(Leads) /\ trial.pointers \in Seq(Leads)
        /\ trial.joins \subseteq Halfwords \X Modes /\ trial.entries \subseteq entries
    BY <1>4 DEF NoTrial
  <2>2. round.number \in 0..4 /\ round.left \subseteq round.huge /\ round.huge \subseteq DOMAIN functions
    BY <1>4 DEF NoRound
  <2>3. exploring \in BOOLEAN
    BY DEF Start
  <2>4. ex \in Exploration /\ ex.code \subseteq DOMAIN program.code[ex.mode]
    BY <1>4, <1>8, NoTrialType
  <2>5. phase \in {"scan", "split", "label", "done"}
    BY <1>6
  <2> QED BY <1>2, <1>3, <1>4, <1>5, <1>6, <2>1, <2>2, <2>3, <2>4, <2>5, Zenon DEF TypeOK, Leads
<1>10. Types
  BY <1>4, <1>7, <1>9, NoTrialType DEF Types
<1>11. MarksAreHeld
  <2>1. \A o \in Halfwords : map[o] # "Code" /\ modes[o] = {}
    BY DEF Start
  <2>2. \A o \in Halfwords : map[o] = "Literal" => Loaded(o)
    BY DEF Start, Loaded
  <2>3. \A m, o : ~Holds(m, o)
    BY <1>3, <1>4 DEF Holds
  <2> QED BY <2>1, <2>2, <2>3 DEF MarksAreHeld
<1>12. TrialInv
  BY <1>4 DEF TrialInv
<1> QED BY <1>10, <1>11, <1>12 DEF Inv

LEMMA InitInv == Init => Inv
BY StartInv, DiscoverAssumption DEF Init, DiscoverAssumption

\* What an action that leaves what functions there are alone has to keep.
LEMMA TypesRest ==
  ASSUME Types, program' = program, functions' = functions,
         phase' \in {"scan", "split", "label", "done"}, phase' = "scan" => phase = "scan",
         queue' \in Seq(Leads), guesses' \in Seq(Leads),
         map' \in [Halfwords -> Bytes], modes' \in [Halfwords -> SUBSET Modes],
         entries' \subseteq Halfwords, guessed' = guessed,
         rejected' \subseteq Halfwords \X Modes, joins' \subseteq Halfwords \X Modes,
         cuts' \in [Halfwords -> SUBSET Halfwords],
         exploring' \in BOOLEAN,
         ex' \in Exploration, ex'.code \subseteq DOMAIN program.code[ex'.mode],
         exploring' => ex'.entry \in Halfwords /\ (phase' = "scan" => ex'.entry \notin DOMAIN functions),
         trial' \in Trial, trial'.entries \subseteq entries', ~exploring' => trial' = NoTrial,
         round' \in [number : 0..4, huge : SUBSET DOMAIN functions, left : SUBSET Halfwords],
         round'.left \subseteq round'.huge
  PROVE  Types'
<1>1. /\ Halfwords' = Halfwords /\ Leads' = Leads /\ Trial' = Trial /\ Lead(program.end)' = Leads
      /\ Exploration' = Exploration /\ NoTrial' = NoTrial
  BY HalfwordsSame DEF Leads, Exploration, NoTrial
<1>2. /\ DOMAIN trial'.before \subseteq Halfwords
      /\ trial'.calls \in Seq(Leads) /\ trial'.pointers \in Seq(Leads)
      /\ trial'.joins \subseteq Halfwords \X Modes
  BY DEF Trial, Olds
<1>3. DOMAIN functions \subseteq Halfwords
  BY DEF Types, TypeOK
<1>4. round' \in [number : 0..4, huge : SUBSET Halfwords', left : SUBSET Halfwords']
  BY <1>1, <1>3
<1>5. /\ DOMAIN functions' \subseteq Halfwords'
      /\ \A e \in DOMAIN functions' :
           /\ functions'[e] \in [mode : Modes, code : SUBSET Halfwords', labels : SUBSET Nat]
           /\ functions'[e].labels \subseteq functions'[e].code
           /\ functions'[e].code \subseteq DOMAIN program'.code[functions'[e].mode]
      /\ guessed' \subseteq DOMAIN functions'
  BY <1>1 DEF Types, TypeOK
<1>6. /\ round'.number \in 0..4 /\ round'.left \subseteq round'.huge /\ round'.huge \subseteq DOMAIN functions'
  OBVIOUS
<1>7. TypeOK'
  BY <1>1, <1>2, <1>5, <1>6 DEF TypeOK
<1>8. Program(program)'
  BY DEF Types
<1> QED BY <1>1, <1>4, <1>7, <1>8 DEF Types

\* What the types say, in one place.
LEMMA TypesFacts ==
  ASSUME Types
  PROVE  /\ Program(program) /\ phase \in {"scan", "split", "label", "done"}
         /\ queue \in Seq(Leads) /\ guesses \in Seq(Leads)
         /\ DOMAIN functions \subseteq Halfwords
         /\ \A e \in DOMAIN functions :
              /\ functions[e] \in [mode : Modes, code : SUBSET Halfwords, labels : SUBSET Nat]
              /\ functions[e].labels \subseteq functions[e].code
              /\ functions[e].code \subseteq DOMAIN program.code[functions[e].mode]
         /\ map \in [Halfwords -> Bytes] /\ modes \in [Halfwords -> SUBSET Modes]
         /\ entries \subseteq Halfwords /\ guessed \subseteq DOMAIN functions
         /\ rejected \subseteq Halfwords \X Modes /\ joins \subseteq Halfwords \X Modes
         /\ cuts \in [Halfwords -> SUBSET Halfwords]
         /\ exploring \in BOOLEAN
         /\ ex \in Exploration /\ ex.code \subseteq DOMAIN program.code[ex.mode]
         /\ (exploring => ex.entry \in Halfwords /\ (phase = "scan" => ex.entry \notin DOMAIN functions))
         /\ trial \in Trial /\ trial.entries \subseteq entries /\ (~exploring => trial = NoTrial)
         /\ round \in [number : 0..4, huge : SUBSET DOMAIN functions, left : SUBSET Halfwords]
         /\ round.left \subseteq round.huge
<1>1. round.huge \subseteq DOMAIN functions /\ round \in [number : 0..4, huge : SUBSET Halfwords, left : SUBSET Halfwords]
  BY DEF Types, TypeOK
<1>2. round \in [number : 0..4, huge : SUBSET DOMAIN functions, left : SUBSET Halfwords]
  BY <1>1
<1> QED BY <1>2 DEF Types, TypeOK, Leads

\* The lead that is taken, and those that are left.
LEMMA TakeFacts ==
  ASSUME Types, TakeFirst
  PROVE  /\ ~exploring /\ First \in Leads /\ First.address \in Halfwords /\ First.mode \in Modes
         /\ queue' \in Seq(Leads) /\ guesses' \in Seq(Leads)
<1>1. queue \in Seq(Leads) /\ guesses \in Seq(Leads)
  BY TypesFacts
<1>2. ~exploring
  BY DEF TakeFirst, Idle
<1>3. CASE queue # <<>>
  <2>1. Head(queue) \in Leads /\ Tail(queue) \in Seq(Leads)
    BY <1>1, <1>3, HeadTailProperties
  <2>2. First = Head(queue) /\ queue' = Tail(queue) /\ guesses' = guesses
    BY <1>3 DEF First, TakeFirst
  <2> QED BY <1>1, <1>2, <2>1, <2>2 DEF Leads, Lead, Halfwords
<1>4. CASE queue = <<>>
  <2>1. guesses # <<>>
    BY <1>4 DEF TakeFirst, Waiting
  <2>2. Head(guesses) \in Leads /\ Tail(guesses) \in Seq(Leads)
    BY <1>1, <2>1, HeadTailProperties
  <2>3. First = Head(guesses) /\ guesses' = Tail(guesses) /\ queue' = queue
    BY <1>4 DEF First, TakeFirst
  <2> QED BY <1>1, <1>2, <2>2, <2>3 DEF Leads, Lead, Halfwords
<1> QED BY <1>3, <1>4

LEMMA SkipInv ==
  ASSUME Inv, Skip
  PROVE  Inv'
<1>1. /\ TakeFirst /\ program' = program /\ phase' = phase /\ functions' = functions
      /\ map' = map /\ modes' = modes /\ entries' = entries /\ rejected' = rejected
      /\ guessed' = guessed /\ joins' = joins /\ cuts' = cuts /\ exploring' = exploring
      /\ ex' = ex /\ trial' = trial /\ round' = round
  BY DEF Skip, marks
<1>2. Types'
  BY <1>1, TakeFacts, TypesFacts, TypesRest DEF Inv
<1>3. MarksAreHeld' /\ TrialInv'
  BY <1>1, QuietMarks DEF Inv
<1> QED BY <1>2, <1>3 DEF Inv

LEMMA RefuseInv ==
  ASSUME Inv, Refuse
  PROVE  Inv'
<1>1. /\ TakeFirst /\ program' = program /\ phase' = phase /\ functions' = functions
      /\ map' = map /\ modes' = modes /\ entries' = entries
      /\ rejected' = rejected \cup {<<First.address, First.mode>>}
      /\ guessed' = guessed
      /\ joins' = joins \cup IF Held(First) THEN {<<First.address, First.mode>>} ELSE {}
      /\ cuts' = cuts /\ exploring' = exploring
      /\ ex' = ex /\ trial' = trial /\ round' = round
  BY DEF Refuse, marks
<1>2. First.address \in Halfwords /\ First.mode \in Modes
  BY <1>1, TakeFacts DEF Inv
<1>3. rejected' \subseteq Halfwords \X Modes /\ joins' \subseteq Halfwords \X Modes
  BY <1>1, <1>2, TypesFacts DEF Inv
<1>4. Types'
  BY <1>1, <1>3, TakeFacts, TypesFacts, TypesRest DEF Inv
<1>5. MarksAreHeld' /\ TrialInv'
  BY <1>1, QuietMarks DEF Inv
<1> QED BY <1>4, <1>5 DEF Inv

\* What exploring begins with.
LEMMA ExploreFacts ==
  ASSUME NEW entry \in Halfwords, NEW mode \in Modes, NEW sure \in BOOLEAN, NEW judged \in BOOLEAN,
         Explore(entry, mode, sure, judged)
  PROVE  /\ ex' \in Exploration /\ ex'.code = {} /\ ex'.entry = entry /\ ex'.mode = mode
         /\ exploring' = TRUE /\ trial' = NoTrial
<1>1. <<entry>> \in Seq(Halfwords) /\ entry \in Nat
  BY DEF Halfwords
<1>2. ex' = [Nowhere EXCEPT !.entry = entry, !.mode = mode, !.sure = sure, !.judged = judged,
                            !.blocks = <<entry>>]
  BY DEF Explore
<1>3. Nowhere \in Exploration /\ Nowhere.code = {}
  BY NoTrialType DEF Nowhere
<1>4. ex' \in Exploration /\ ex'.code = {} /\ ex'.entry = entry /\ ex'.mode = mode
  BY <1>1, <1>2, <1>3 DEF Exploration
<1> QED BY <1>4 DEF Explore

LEMMA BeginInv ==
  ASSUME Inv, Begin
  PROVE  Inv'
<1>1. /\ TakeFirst /\ program' = program /\ phase' = phase /\ functions' = functions
      /\ map' = map /\ modes' = modes /\ entries' = entries /\ rejected' = rejected
      /\ guessed' = guessed /\ joins' = joins /\ cuts' = cuts /\ round' = round
      /\ Explore(First.address, First.mode, First.sure, Judged(First))
      /\ First.address \notin DOMAIN functions
  BY DEF Begin, marks, Known
<1>2. /\ First.address \in Halfwords /\ First.mode \in Modes /\ First.sure \in BOOLEAN
      /\ Judged(First) \in BOOLEAN /\ ~exploring
  BY <1>1, TakeFacts DEF Inv, Leads, Lead, Judged
<1>3. /\ ex' \in Exploration /\ ex'.code = {} /\ ex'.entry = First.address
      /\ exploring' = TRUE /\ trial' = NoTrial
  BY <1>1, <1>2, ExploreFacts
<1>4. trial' \in Trial /\ trial'.entries \subseteq entries'
  BY <1>3, NoTrialType
<1>5. exploring' \in BOOLEAN
  BY <1>3
<1>6. Types'
  BY <1>1, <1>2, <1>3, <1>4, <1>5, TakeFacts, TypesFacts, TypesRest DEF Inv
<1>7. MarksAreHeld' /\ TrialInv'
  BY <1>1, <1>2, <1>3, StartMarks DEF Inv
<1> QED BY <1>6, <1>7 DEF Inv

LEMMA NextBlockInv ==
  ASSUME Inv, NextBlock
  PROVE  Inv'
<1>1. /\ exploring /\ ex.blocks # <<>>
      /\ ex' = [ex EXCEPT !.walking = TRUE, !.at = Last(ex.blocks), !.blocks = Front(ex.blocks),
                          !.labels = ex.labels \cup {Last(ex.blocks)}]
      /\ program' = program /\ phase' = phase /\ functions' = functions
      /\ map' = map /\ modes' = modes /\ entries' = entries /\ rejected' = rejected
      /\ guessed' = guessed /\ joins' = joins /\ cuts' = cuts /\ round' = round
      /\ queue' = queue /\ guesses' = guesses /\ exploring' = exploring /\ trial' = trial
  BY DEF NextBlock, marks, leads
<1>2. ex \in Exploration /\ ex.blocks \in Seq(Halfwords)
  BY TypesFacts DEF Inv, Exploration
<1>3. Last(ex.blocks) \in Halfwords /\ Front(ex.blocks) \in Seq(Halfwords)
  <2>1. /\ Len(ex.blocks) \in Nat /\ Len(ex.blocks) # 0 /\ DOMAIN ex.blocks = 1..Len(ex.blocks)
        /\ \A i \in 1..Len(ex.blocks) : ex.blocks[i] \in Halfwords
    BY <1>1, <1>2, LenProperties, ElementOfSeq, EmptySeq
  <2>2. Last(ex.blocks) \in Halfwords
    BY <2>1 DEF Last
  <2>3. Front(ex.blocks) = [i \in 1..Len(ex.blocks) - 1 |-> ex.blocks[i]]
    BY <1>2, SubSeqProperties DEF Front
  <2>4. Len(ex.blocks) - 1 \in Nat
    BY <2>1
  <2>5. \A i \in 1..Len(ex.blocks) - 1 : ex.blocks[i] \in Halfwords
    BY <2>1
  <2> QED BY <2>2, <2>3, <2>4, <2>5, IsASeq
<1>4. Last(ex.blocks) \in Nat
  BY <1>3 DEF Halfwords
<1>5. /\ ex' \in Exploration /\ ex'.mode = ex.mode /\ ex'.code = ex.code /\ ex'.judged = ex.judged
      /\ ex'.entry = ex.entry
  <2> DEFINE to == Last(ex.blocks)
             rest == Front(ex.blocks)
             labels == ex.labels \cup {to}
  <2>1. labels \in SUBSET Nat
    BY <1>2, <1>4 DEF Exploration
  <2>2. ex' = [ex EXCEPT !.walking = TRUE, !.at = to, !.blocks = rest, !.labels = labels]
    BY <1>1
  <2>3. to \in Nat /\ rest \in Seq(Halfwords)
    BY <1>3, <1>4
  <2> HIDE DEF to, rest, labels
  <2> QED BY <2>1, <2>2, <2>3, <1>2 DEF Exploration
<1>6. Types'
  BY <1>1, <1>5, TypesFacts, TypesRest DEF Inv
<1>7. MarksAreHeld' /\ TrialInv'
  BY <1>1, <1>5, QuietMarks DEF Inv
<1> QED BY <1>6, <1>7 DEF Inv

LEMMA StopInv ==
  ASSUME Inv, Stop
  PROVE  Inv'
<1> DEFINE seen == IF InText(ex.at) THEN ex.seen \cup {ex.at} ELSE ex.seen
<1>1. /\ exploring /\ ex' = [ex EXCEPT !.walking = FALSE, !.seen = seen]
      /\ program' = program /\ phase' = phase /\ functions' = functions
      /\ map' = map /\ modes' = modes /\ entries' = entries /\ rejected' = rejected
      /\ guessed' = guessed /\ joins' = joins /\ cuts' = cuts /\ round' = round
      /\ queue' = queue /\ guesses' = guesses /\ exploring' = exploring /\ trial' = trial
  BY DEF Stop, marks, leads
<1>2. ex \in Exploration
  BY TypesFacts DEF Inv
<1>3. seen \in SUBSET Halfwords
  BY <1>2 DEF Exploration, InText
<1>4. /\ ex' \in Exploration /\ ex'.mode = ex.mode /\ ex'.code = ex.code /\ ex'.judged = ex.judged
      /\ ex'.entry = ex.entry
  <2> HIDE DEF seen
  <2> QED BY <1>1, <1>2, <1>3 DEF Exploration
<1>5. Types'
  BY <1>1, <1>4, TypesFacts, TypesRest DEF Inv
<1>6. MarksAreHeld' /\ TrialInv'
  BY <1>1, <1>4, QuietMarks DEF Inv
<1> QED BY <1>5, <1>6 DEF Inv

LEMMA JoinInv ==
  ASSUME Inv, Join
  PROVE  Inv'
<1>1. /\ exploring /\ InText(ex.at) /\ ex' = [ex EXCEPT !.walking = FALSE, !.seen = ex.seen \cup {ex.at}]
      /\ trial' = [trial EXCEPT !.joins = trial.joins \cup {<<ex.at, ex.mode>>}]
      /\ program' = program /\ phase' = phase /\ functions' = functions
      /\ map' = map /\ modes' = modes /\ entries' = entries /\ rejected' = rejected
      /\ guessed' = guessed /\ joins' = joins /\ cuts' = cuts /\ round' = round
      /\ queue' = queue /\ guesses' = guesses /\ exploring' = exploring
  BY DEF Join, New, marks, leads
<1>2. ex \in Exploration /\ trial \in Trial /\ ex.at \in Halfwords /\ ex.mode \in Modes
  BY <1>1, TypesFacts DEF Inv, InText, Exploration
<1>3. /\ ex' \in Exploration /\ ex'.mode = ex.mode /\ ex'.code = ex.code /\ ex'.judged = ex.judged
      /\ ex'.entry = ex.entry
  <2>1. ex.seen \cup {ex.at} \in SUBSET Halfwords
    BY <1>2 DEF Exploration
  <2> QED BY <1>1, <1>2, <2>1 DEF Exploration
<1>4. trial' \in Trial /\ trial'.entries = trial.entries /\ trial'.before = trial.before
  <2> DEFINE both == trial.joins \cup {<<ex.at, ex.mode>>}
  <2>1. both \in SUBSET (Halfwords \X Modes)
    BY <1>2 DEF Trial
  <2>2. trial' = [trial EXCEPT !.joins = both]
    BY <1>1
  <2> HIDE DEF both
  <2> QED BY <2>1, <2>2, <1>2 DEF Trial
<1>5. Types'
  BY <1>1, <1>3, <1>4, TypesFacts, TypesRest DEF Inv
<1>6. MarksAreHeld' /\ TrialInv'
  BY <1>1, <1>3, <1>4, QuietMarks DEF Inv
<1> QED BY <1>5, <1>6 DEF Inv

\* A function in the place of what was explored.
LEMMA InsertTypes ==
  ASSUME Types, exploring, Insert, Idling,
         program' = program, phase' = phase, map' = map, modes' = modes, entries' = entries,
         rejected' = rejected, round' = round,
         queue' \in Seq(Leads), guesses' \in Seq(Leads),
         guessed' \subseteq guessed \cup {ex.entry}, joins' \subseteq Halfwords \X Modes,
         cuts' \in [Halfwords -> SUBSET Halfwords]
  PROVE  Types'
<1>1. /\ Halfwords' = Halfwords /\ Leads' = Leads /\ Trial' = Trial /\ Lead(program.end)' = Leads
      /\ Exploration' = Exploration /\ NoTrial' = NoTrial
  BY HalfwordsSame DEF Leads, Exploration, NoTrial
<1>2. /\ exploring' = FALSE /\ ex' = Nowhere /\ trial' = NoTrial
      /\ exploring' \in BOOLEAN /\ Nowhere.code = {}
  BY DEF Idling, Nowhere
<1>3. ex \in Exploration /\ ex.entry \in Halfwords /\ ex.code \subseteq DOMAIN program.code[ex.mode]
  BY TypesFacts
<1>4. [mode |-> ex.mode, code |-> ex.code, labels |-> ex.labels \cap ex.code]
        \in [mode : Modes, code : SUBSET Halfwords, labels : SUBSET Nat]
  BY <1>3 DEF Exploration
<1>5. /\ DOMAIN functions' = DOMAIN functions \cup {ex.entry}
      /\ DOMAIN functions' \subseteq Halfwords'
      /\ \A e \in DOMAIN functions' :
           /\ functions'[e] \in [mode : Modes, code : SUBSET Halfwords', labels : SUBSET Nat]
           /\ functions'[e].labels \subseteq functions'[e].code
           /\ functions'[e].code \subseteq DOMAIN program'.code[functions'[e].mode]
  <2>1. /\ DOMAIN functions' = DOMAIN functions \cup {ex.entry}
        /\ functions'[ex.entry] = [mode |-> ex.mode, code |-> ex.code, labels |-> ex.labels \cap ex.code]
        /\ \A e \in DOMAIN functions : e # ex.entry => functions'[e] = functions[e]
    BY DEF Insert
  <2>2. DOMAIN functions' \subseteq Halfwords'
    BY <2>1, <1>1, <1>3, TypesFacts
  <2>3. ASSUME NEW e \in DOMAIN functions'
        PROVE  /\ functions'[e] \in [mode : Modes, code : SUBSET Halfwords', labels : SUBSET Nat]
               /\ functions'[e].labels \subseteq functions'[e].code
               /\ functions'[e].code \subseteq DOMAIN program'.code[functions'[e].mode]
    <3>1. CASE e = ex.entry
      BY <3>1, <2>1, <1>1, <1>3, <1>4
    <3>2. CASE e # ex.entry
      BY <3>2, <2>1, <1>1, TypesFacts
    <3> QED BY <3>1, <3>2
  <2> QED BY <2>1, <2>2, <2>3
<1>6. guessed' \subseteq DOMAIN functions'
  BY <1>5, TypesFacts
<1>7. /\ round' \in [number : 0..4, huge : SUBSET DOMAIN functions, left : SUBSET Halfwords]
      /\ round'.left \subseteq round'.huge /\ DOMAIN functions \subseteq Halfwords
  BY TypesFacts
<1>8. /\ round'.number \in 0..4 /\ round'.left \subseteq round'.huge /\ round'.huge \subseteq DOMAIN functions'
      /\ round' \in [number : 0..4, huge : SUBSET Halfwords, left : SUBSET Halfwords]
  BY <1>5, <1>7
<1>9. /\ trial' \in Trial /\ ex' \in Exploration
      /\ DOMAIN trial'.before \subseteq Halfwords
      /\ trial'.calls \in Seq(Leads) /\ trial'.pointers \in Seq(Leads)
      /\ trial'.joins \subseteq Halfwords \X Modes /\ trial'.entries \subseteq entries'
      /\ ex'.code \subseteq DOMAIN program'.code[ex'.mode]
  BY <1>2, NoTrialType DEF Trial, NoTrial
<1>10. TypeOK'
  <2>1. /\ phase' \in {"scan", "split", "label", "done"}
        /\ map' \in [Halfwords' -> Bytes] /\ modes' \in [Halfwords' -> SUBSET Modes]
        /\ entries' \subseteq Halfwords' /\ rejected' \subseteq Halfwords' \X Modes
        /\ joins' \subseteq Halfwords' \X Modes /\ cuts' \in [Halfwords' -> SUBSET Halfwords']
    BY <1>1, TypesFacts
  <2> QED BY <1>1, <1>2, <1>5, <1>6, <1>8, <1>9, <2>1, Zenon DEF TypeOK
<1>11. Program(program)'
  BY DEF Types
<1> QED BY <1>1, <1>2, <1>8, <1>9, <1>10, <1>11 DEF Types

LEMMA KeepInv ==
  ASSUME Inv, Keep
  PROVE  Inv'
<1>1. /\ exploring /\ Insert /\ Idling
      /\ program' = program /\ phase' = phase /\ map' = map /\ modes' = modes
      /\ entries' = entries /\ rejected' = rejected /\ round' = round
      /\ queue' = queue /\ guesses' = guesses /\ joins' = joins /\ cuts' = cuts
      /\ guessed' \subseteq guessed \cup {ex.entry}
  BY DEF Keep, Explored, marks, leads
<1>2. Types'
  BY <1>1, TypesFacts, InsertTypes DEF Inv
<1>3. MarksAreHeld' /\ TrialInv'
  BY <1>1, InsertMarks DEF Inv
<1> QED BY <1>2, <1>3 DEF Inv

LEMMA AcceptInv ==
  ASSUME Inv, Accept
  PROVE  Inv'
<1>1. /\ exploring /\ Insert /\ Idling
      /\ program' = program /\ phase' = phase /\ map' = map /\ modes' = modes
      /\ entries' = entries /\ rejected' = rejected /\ round' = round
      /\ queue' = queue \o trial.calls /\ guesses' = guesses \o trial.pointers
      /\ joins' = joins \cup trial.joins
      /\ cuts' = [cuts EXCEPT ![ex.entry] = cuts[ex.entry] \cup {j[1] : j \in trial.joins}]
      /\ guessed' \subseteq guessed \cup {ex.entry}
  BY DEF Accept, Explored, Follow, marks
<1>2. trial \in Trial /\ ex.entry \in Halfwords /\ cuts \in [Halfwords -> SUBSET Halfwords]
  BY <1>1, TypesFacts DEF Inv
<1>3. trial.joins \subseteq Halfwords \X Modes /\ trial.calls \in Seq(Leads) /\ trial.pointers \in Seq(Leads)
  BY <1>2 DEF Trial
<1>4. queue' \in Seq(Leads) /\ guesses' \in Seq(Leads)
  BY <1>1, <1>3, TypesFacts, ConcatProperties DEF Inv
<1>5. {j[1] : j \in trial.joins} \subseteq Halfwords
  BY <1>3
<1>6. cuts' \in [Halfwords -> SUBSET Halfwords]
  BY <1>1, <1>2, <1>5
<1>7. joins' \subseteq Halfwords \X Modes
  BY <1>1, <1>3, TypesFacts DEF Inv
<1>8. Types'
  BY <1>1, <1>4, <1>6, <1>7, InsertTypes DEF Inv
<1>9. MarksAreHeld' /\ TrialInv'
  BY <1>1, InsertMarks DEF Inv
<1> QED BY <1>8, <1>9 DEF Inv

LEMMA RejectInv ==
  ASSUME Inv, Reject
  PROVE  Inv'
<1>1. /\ exploring /\ Idling
      /\ map' = [o \in Halfwords |-> OldMap(o)] /\ modes' = [o \in Halfwords |-> OldModes(o)]
      /\ entries' = entries \ trial.entries
      /\ rejected' = rejected \cup {<<ex.entry, ex.mode>>}
      /\ program' = program /\ phase' = phase /\ functions' = functions
      /\ queue' = queue /\ guesses' = guesses /\ guessed' = guessed /\ joins' = joins
      /\ cuts' = cuts /\ round' = round
  BY DEF Reject, Explored, leads, OldMap, OldModes
<1>2. /\ exploring' = FALSE /\ ex' = Nowhere /\ trial' = NoTrial
      /\ exploring' \in BOOLEAN /\ Nowhere.code = {}
  BY <1>1 DEF Idling, Nowhere
<1>3. ex.entry \in Halfwords /\ ex.mode \in Modes /\ trial.before \in Olds
  BY <1>1, TypesFacts DEF Inv, Exploration, Trial
<1>4. PICK S \in SUBSET Halfwords : trial.before \in [S -> [map : Bytes, modes : SUBSET Modes]]
  BY <1>3 DEF Olds
<1>5. \A o \in Halfwords : OldMap(o) \in Bytes /\ OldModes(o) \in SUBSET Modes
  <2>1. map \in [Halfwords -> Bytes] /\ modes \in [Halfwords -> SUBSET Modes]
    BY TypesFacts DEF Inv
  <2> QED BY <1>4, <2>1 DEF OldMap, OldModes
<1>6. map' \in [Halfwords -> Bytes] /\ modes' \in [Halfwords -> SUBSET Modes]
  BY <1>1, <1>5
<1>7. rejected' \subseteq Halfwords \X Modes /\ entries' \subseteq Halfwords
  BY <1>1, <1>3, TypesFacts DEF Inv
<1>8. /\ ex' \in Exploration /\ ex'.code \subseteq DOMAIN program.code[ex'.mode]
      /\ trial' \in Trial /\ trial'.entries \subseteq entries'
  BY <1>2, NoTrialType
<1>9. Types'
  BY <1>1, <1>2, <1>6, <1>7, <1>8, TypesFacts, TypesRest DEF Inv
<1>10. MarksAreHeld' /\ TrialInv'
  BY <1>1, RejectMarks DEF Inv
<1> QED BY <1>9, <1>10 DEF Inv

LEMMA ScanInv ==
  ASSUME Inv, Scan
  PROVE  Inv'
<1>1. PICK s \in Sorted(GapStarts) :
        queue' = [i \in DOMAIN s |-> [address |-> s[i], mode |-> "Arm", sure |-> FALSE]]
  BY DEF Scan
<1>2. /\ program' = program /\ phase' = phase /\ functions' = functions
      /\ map' = map /\ modes' = modes /\ entries' = entries /\ rejected' = rejected
      /\ guessed' = guessed /\ joins' = joins /\ cuts' = cuts /\ exploring' = exploring
      /\ ex' = ex /\ trial' = trial /\ round' = round /\ guesses' = guesses
  BY DEF Scan, marks
<1>3. GapStarts \subseteq Halfwords
  BY CodeFacts, TypesFacts DEF Inv, GapStarts, Modes
<1>4. program.end \in Nat
  BY TypesFacts DEF Inv, Program
<1>5. IsFiniteSet(GapStarts)
  <2>1. IsFiniteSet(0..program.end - 1)
    BY <1>4, FS_Interval
  <2> QED BY <2>1, <1>3, FS_Subset DEF Halfwords
<1>6. \A a \in GapStarts : [address |-> a, mode |-> "Arm", sure |-> FALSE] \in Leads
  BY <1>3 DEF Leads, Lead, Halfwords, Modes
<1>7. queue' \in Seq(Leads)
  <2> DEFINE S == GapStarts
             f(a) == [address |-> a, mode |-> "Arm", sure |-> FALSE]
  <2>1. /\ \A a \in S : f(a) \in Leads
        /\ IsFiniteSet(S) /\ s \in Sorted(S)
        /\ queue' = [i \in DOMAIN s |-> f(s[i])]
    BY <1>1, <1>5, <1>6
  <2> HIDE DEF S, f
  <2>2. PICK c \in Nat : s \in [1..c -> S]
    BY <2>1, SortedType
  <2>3. queue' \in [1..c -> Leads]
    BY <2>1, <2>2
  <2> QED BY <2>3, SeqDef
<1>8. Types'
  BY <1>2, <1>7, TypesFacts, TypesRest DEF Inv
<1>9. MarksAreHeld' /\ TrialInv'
  BY <1>2, QuietMarks DEF Inv
<1> QED BY <1>8, <1>9 DEF Inv

LEMMA HugeOnesFact == HugeOnes \subseteq DOMAIN functions
BY DEF HugeOnes

LEMMA NothingHugeInv ==
  ASSUME Inv, NothingHuge
  PROVE  Inv'
<1>1. /\ program' = program /\ phase' = "label" /\ functions' = functions /\ queue' = queue
      /\ map' = map /\ modes' = modes /\ entries' = entries /\ rejected' = rejected
      /\ guessed' = guessed /\ joins' = joins /\ cuts' = cuts /\ exploring' = exploring
      /\ ex' = ex /\ trial' = trial /\ round' = round /\ guesses' = guesses
  BY DEF NothingHuge, marks, leads
<1>2. ~exploring
  BY DEF NothingHuge, Scanned, Idle
<1>3. Types'
  BY <1>1, <1>2, TypesFacts, TypesRest DEF Inv
<1>4. MarksAreHeld' /\ TrialInv'
  BY <1>1, QuietMarks DEF Inv
<1> QED BY <1>3, <1>4 DEF Inv

LEMMA SplitInv ==
  ASSUME Inv, Split
  PROVE  Inv'
<1>1. /\ program' = program /\ phase' = "split" /\ functions' = functions /\ queue' = queue
      /\ map' = map /\ modes' = modes /\ rejected' = rejected
      /\ guessed' = guessed /\ joins' = joins /\ cuts' = cuts /\ exploring' = exploring
      /\ ex' = ex /\ trial' = trial /\ guesses' = guesses
      /\ entries' = DOMAIN functions \cup {j[1] : j \in joins}
      /\ round' = [number |-> 1, huge |-> HugeOnes, left |-> HugeOnes]
  BY DEF Split, marks, leads
<1>2. ~exploring /\ phase = "scan"
  BY DEF Split, Scanned, Idle
<1>3. entries' \subseteq Halfwords
  BY <1>1, TypesFacts DEF Inv
<1>4. trial'.entries \subseteq entries'
  BY <1>1, <1>2, NoTrialType, TypesFacts DEF Inv
<1>5. /\ round' \in [number : 0..4, huge : SUBSET DOMAIN functions, left : SUBSET Halfwords]
      /\ round'.left \subseteq round'.huge
  BY <1>1, HugeOnesFact, TypesFacts DEF Inv
<1>6. Types'
  BY <1>1, <1>2, <1>3, <1>4, <1>5, TypesFacts, TypesRest DEF Inv
<1>7. MarksAreHeld' /\ TrialInv'
  BY <1>1, <1>2, QuietMarks DEF Inv
<1> QED BY <1>6, <1>7 DEF Inv

LEMMA ExploreAgainInv ==
  ASSUME Inv, ExploreAgain
  PROVE  Inv'
<1>1. PICK e \in round.left :
        /\ Explore(e, functions[e].mode, e \notin guessed, FALSE)
        /\ round' = [round EXCEPT !.left = round.left \ {e}]
  BY DEF ExploreAgain
<1>2. /\ program' = program /\ phase' = phase /\ functions' = functions /\ queue' = queue
      /\ map' = map /\ modes' = modes /\ entries' = entries /\ rejected' = rejected
      /\ guessed' = guessed /\ joins' = joins /\ cuts' = cuts /\ guesses' = guesses
      /\ phase = "split" /\ ~exploring
  BY DEF ExploreAgain, marks, leads
<1>3. e \in Halfwords /\ functions[e].mode \in Modes
  BY TypesFacts DEF Inv
<1>4. (e \notin guessed) \in BOOLEAN /\ FALSE \in BOOLEAN
  OBVIOUS
<1>5. /\ ex' \in Exploration /\ ex'.code = {} /\ ex'.entry = e
      /\ exploring' = TRUE /\ trial' = NoTrial
  BY <1>1, <1>3, <1>4, ExploreFacts
<1>6. trial' \in Trial /\ trial'.entries \subseteq entries'
  BY <1>5, NoTrialType
<1>7. exploring' \in BOOLEAN
  BY <1>5
<1>8. /\ round' \in [number : 0..4, huge : SUBSET DOMAIN functions, left : SUBSET Halfwords]
      /\ round'.left \subseteq round'.huge
  BY <1>1, TypesFacts DEF Inv
<1>9. Types'
  BY <1>2, <1>3, <1>5, <1>6, <1>7, <1>8, TypesFacts, TypesRest DEF Inv
<1>10. MarksAreHeld' /\ TrialInv'
  BY <1>2, <1>5, StartMarks DEF Inv
<1> QED BY <1>9, <1>10 DEF Inv

LEMMA NextRoundInv ==
  ASSUME Inv, NextRound
  PROVE  Inv'
<1>1. /\ program' = program /\ phase' = phase /\ functions' = functions /\ queue' = queue
      /\ map' = map /\ modes' = modes /\ entries' = entries /\ rejected' = rejected
      /\ guessed' = guessed /\ joins' = joins /\ cuts' = cuts /\ exploring' = exploring
      /\ ex' = ex /\ trial' = trial /\ guesses' = guesses
      /\ round' = [number |-> round.number + 1, huge |-> HugeOnes, left |-> HugeOnes]
      /\ round.number # 4
  BY DEF NextRound, Enough, marks, leads
<1>2. round.number \in 0..4
  BY TypesFacts DEF Inv
<1>3. round.number + 1 \in 0..4
  BY <1>1, <1>2
<1>4. /\ round' \in [number : 0..4, huge : SUBSET DOMAIN functions, left : SUBSET Halfwords]
      /\ round'.left \subseteq round'.huge
  BY <1>1, <1>3, HugeOnesFact, TypesFacts DEF Inv
<1>5. Types'
  BY <1>1, <1>4, TypesFacts, TypesRest DEF Inv
<1>6. MarksAreHeld' /\ TrialInv'
  BY <1>1, QuietMarks DEF Inv
<1> QED BY <1>5, <1>6 DEF Inv

LEMMA SplitDoneInv ==
  ASSUME Inv, SplitDone
  PROVE  Inv'
<1>1. /\ program' = program /\ phase' = "label" /\ functions' = functions /\ queue' = queue
      /\ map' = map /\ modes' = modes /\ entries' = {} /\ rejected' = rejected
      /\ guessed' = guessed /\ joins' = joins /\ cuts' = cuts /\ exploring' = exploring
      /\ ex' = ex /\ trial' = trial /\ round' = round /\ guesses' = guesses
  BY DEF SplitDone, marks, leads
<1>2. ~exploring
  BY DEF SplitDone, RoundDone, Idle
<1>3. trial'.entries \subseteq entries'
  BY <1>1, <1>2, NoTrialType, TypesFacts DEF Inv
<1>4. Types'
  BY <1>1, <1>2, <1>3, TypesFacts, TypesRest DEF Inv
<1>5. MarksAreHeld' /\ TrialInv'
  BY <1>1, QuietMarks DEF Inv
<1> QED BY <1>4, <1>5 DEF Inv

LEMMA LabelJoinsInv ==
  ASSUME Inv, LabelJoins
  PROVE  Inv'
<1> DEFINE joined(e) == {a \in functions[e].code : <<a, functions[e].mode>> \in joins}
<1>1. /\ program' = program /\ phase' = "done" /\ queue' = queue /\ guesses' = guesses
      /\ map' = map /\ modes' = modes /\ entries' = entries /\ rejected' = rejected
      /\ guessed' = guessed /\ joins' = {} /\ cuts' = cuts /\ exploring' = exploring
      /\ ex' = ex /\ trial' = trial /\ round' = round
      /\ DOMAIN functions' = DOMAIN functions
      /\ \A e \in DOMAIN functions :
           functions'[e] = [functions[e] EXCEPT !.labels = functions[e].labels \cup joined(e)]
  BY DEF LabelJoins, marks, leads
<1>2. /\ Halfwords' = Halfwords /\ Leads' = Leads /\ Trial' = Trial /\ Lead(program.end)' = Leads
      /\ Exploration' = Exploration /\ NoTrial' = NoTrial
  BY <1>1, HalfwordsSame DEF Leads, Exploration, NoTrial
<1>3. ASSUME NEW e \in DOMAIN functions'
      PROVE  /\ functions'[e] \in [mode : Modes, code : SUBSET Halfwords, labels : SUBSET Nat]
             /\ functions'[e].labels \subseteq functions'[e].code
             /\ functions'[e].code \subseteq DOMAIN program'.code[functions'[e].mode]
  <2> DEFINE labels == functions[e].labels \cup joined(e)
  <2>1. /\ functions[e] \in [mode : Modes, code : SUBSET Halfwords, labels : SUBSET Nat]
        /\ functions[e].labels \subseteq functions[e].code
        /\ functions[e].code \subseteq DOMAIN program.code[functions[e].mode]
    BY <1>1, TypesFacts DEF Inv
  <2>2. joined(e) \subseteq functions[e].code
    OBVIOUS
  <2>3. labels \subseteq functions[e].code
    BY <2>1, <2>2
  <2>4. Halfwords \subseteq Nat
    BY DEF Halfwords
  <2>5. functions'[e] = [functions[e] EXCEPT !.labels = labels]
    BY <1>1, <1>3
  <2> HIDE DEF labels
  <2> QED BY <1>1, <2>1, <2>3, <2>4, <2>5
<1>4. Types'
  <2> QED BY <1>1, <1>2, <1>3 DEF Inv, Types, TypeOK
<1>5. MarksAreHeld' /\ TrialInv'
  BY LabelMarks DEF Inv
<1> QED BY <1>4, <1>5 DEF Inv

LEMMA NextInv ==
  ASSUME Inv, [Next]_vars
  PROVE  Inv'
<1>1. ASSUME Step PROVE Inv'
  BY <1>1, StepIs, StepTypes, StepMarks DEF Inv
<1>2. ASSUME Run PROVE Inv'
  BY <1>2, SkipInv, RefuseInv, BeginInv, KeepInv, AcceptInv, RejectInv DEF Run
<1>3. CASE UNCHANGED vars
  <2>1. /\ program' = program /\ phase' = phase /\ functions' = functions /\ queue' = queue
        /\ map' = map /\ modes' = modes /\ entries' = entries /\ rejected' = rejected
        /\ guessed' = guessed /\ joins' = joins /\ cuts' = cuts /\ exploring' = exploring
        /\ ex' = ex /\ trial' = trial /\ round' = round /\ guesses' = guesses
    BY <1>3 DEF vars
  <2>2. Types'
    BY <2>1, TypesFacts, TypesRest DEF Inv
  <2>3. MarksAreHeld' /\ TrialInv'
    BY <2>1, QuietMarks DEF Inv
  <2> QED BY <2>2, <2>3 DEF Inv
<1> QED BY <1>1, <1>2, <1>3, NextBlockInv, StopInv, JoinInv, ScanInv, NothingHugeInv, SplitInv,
           ExploreAgainInv, NextRoundInv, SplitDoneInv, LabelJoinsInv DEF Next

-----------------------------------------------------------------------------
(* Cuts, joins and labels.                                                  *)

LEMMA PhasesNext ==
  ASSUME Inv, Phases, [Next]_vars
  PROVE  Phases'
<1>1. CASE Begin \/ ExploreAgain
  BY <1>1 DEF Begin, ExploreAgain, TakeFirst, Idle, Phases
<1>2. CASE Keep \/ Accept \/ Reject
  BY <1>2 DEF Keep, Accept, Reject, Idling, Phases
<1>3. CASE NothingHuge \/ Split \/ SplitDone \/ LabelJoins
  <2>1. ~exploring /\ exploring' = exploring
    BY <1>3 DEF NothingHuge, Split, SplitDone, LabelJoins, Scanned, RoundDone, Idle, Phases
  <2> QED BY <2>1 DEF Phases
<1>4. CASE Step
  BY <1>4 DEF Step, Plain, Call, Branch, TailCall, Jump, JumpTable, AddressTable, LoadPcLiteral, LiteralLoad, Phases
<1>5. CASE Skip \/ Refuse \/ NextBlock \/ Stop \/ Join \/ Scan \/ NextRound \/ UNCHANGED vars
  BY <1>5 DEF Skip, Refuse, NextBlock, Stop, Join, Scan, NextRound, vars, Phases
<1> QED BY <1>1, <1>2, <1>3, <1>4, <1>5 DEF Next, Run

\* What a step marks and what it takes over of other cuts.
LEMMA StepCuts ==
  ASSUME Types, Step
  PROVE  /\ phase' = phase /\ exploring' = exploring /\ Walks /\ joins' = joins /\ program' = program
         /\ trial'.joins = trial.joins /\ ex'.judged = ex.judged
         /\ \A o \in Halfwords : modes[o] \subseteq modes'[o]
         /\ \A e \in Halfwords : \A a \in cuts'[e] : \E d \in Halfwords : a \in cuts[d]
<1>1. PICK blocks \in Seq(Halfwords), ends \in BOOLEAN, calls \in Seq(Leads), pointers \in Seq(Leads),
           literals \in SUBSET LiteralsOf(ex.mode, ex.at), new \in SUBSET Halfwords :
             StepWith(blocks, ends, calls, pointers, literals, new)
  BY StepIs DEF Stepped
<1>2. phase' = phase /\ exploring' = exploring /\ Walks /\ joins' = joins /\ program' = program
  BY <1>1 DEF StepWith
<1>3. trial'.joins = trial.joins /\ ex'.judged = ex.judged
  BY <1>1 DEF StepWith, Note, Walk, Types, TypeOK, Exploration, Trial
<1>4. \A o \in Halfwords : modes[o] \subseteq modes'[o]
  BY <1>1 DEF StepWith, Mark
<1>5. ASSUME NEW e \in Halfwords, NEW a \in cuts'[e]
      PROVE  \E d \in Halfwords : a \in cuts[d]
  <2>1. CASE TailCall
    <3>1. cuts' = IF InText(This.target) THEN [cuts EXCEPT ![This.target] = cuts[This.target] \cup cuts[ex.entry]] ELSE cuts
      BY <2>1 DEF TailCall
    <3>2. ex.entry \in Halfwords /\ cuts \in [Halfwords -> SUBSET Halfwords]
      BY <1>2, ThisFacts, TypesFacts
    <3> QED BY <3>1, <3>2, <1>5 DEF InText
  <2>2. CASE ~TailCall
    <3>1. cuts' = cuts
      BY <2>2 DEF Step, Plain, Call, Branch, Jump, JumpTable, AddressTable, LoadPcLiteral, LiteralLoad
    <3> QED BY <3>1, <1>5
  <2> QED BY <2>1, <2>2
<1> QED BY <1>2, <1>3, <1>4, <1>5

LEMMA ProgramSame ==
  ASSUME [Next]_vars
  PROVE  program' = program
<1>1. ASSUME Run \/ NextBlock \/ Stop \/ Join \/ UNCHANGED vars PROVE program' = program
  BY <1>1 DEF Run, Skip, Refuse, Begin, Keep, Accept, Reject, NextBlock, Stop, Join, vars
<1>2. ASSUME Step PROVE program' = program
  BY <1>2 DEF Step, Plain, Call, Branch, TailCall, Jump, JumpTable, AddressTable, LoadPcLiteral, LiteralLoad
<1>3. ASSUME Scan \/ NothingHuge \/ Split \/ ExploreAgain \/ NextRound \/ SplitDone \/ LabelJoins PROVE program' = program
  BY <1>3 DEF Scan, NothingHuge, Split, ExploreAgain, NextRound, SplitDone, LabelJoins
<1> QED BY <1>1, <1>2, <1>3 DEF Next

\* What LabelJoins leaves alone and what it adds.
LEMMA LabelsStay ==
  ASSUME Types, LabelJoins
  PROVE  /\ modes' = modes /\ cuts' = cuts /\ DOMAIN functions' = DOMAIN functions
         /\ \A e \in DOMAIN functions :
              /\ functions'[e].mode = functions[e].mode /\ functions'[e].code = functions[e].code
              /\ functions'[e].labels =
                   functions[e].labels \cup {a \in functions[e].code : <<a, functions[e].mode>> \in joins}
<1>1. /\ modes' = modes /\ cuts' = cuts /\ DOMAIN functions' = DOMAIN functions
      /\ \A e \in DOMAIN functions :
           functions'[e] = [functions[e] EXCEPT !.labels = @ \cup {a \in functions[e].code : <<a, functions[e].mode>> \in joins}]
  BY DEF LabelJoins, marks
<1>2. \A e \in DOMAIN functions : functions[e] \in [mode : Modes, code : SUBSET Halfwords, labels : SUBSET Nat]
  BY TypesFacts
<1> QED BY <1>1, <1>2

\* An action that leaves marks and cuts alone.
LEMMA QuietJoins ==
  ASSUME JoinsInv, program' = program, phase # "done" \/ (phase' = phase /\ functions' = functions),
         phase' = "done" => phase = "done", modes' = modes, cuts' = cuts,
         joins \subseteq joins', \A j \in joins' : j[2] \in modes[j[1]],
         exploring' /\ ex'.judged =>
           trial' = NoTrial \/ (joins' = joins /\ exploring /\ ex.judged /\ trial'.before = trial.before),
         \A j \in trial'.joins : j[2] \in modes[j[1]]
  PROVE  JoinsInv'
<1>1. Halfwords' = Halfwords
  BY HalfwordsSame
<1>2. \A o : OldModes(o)' = IF o \in DOMAIN trial'.before THEN trial'.before[o].modes ELSE modes[o]
  BY DEF OldModes
<1>3. NoTrial.before = <<>> /\ DOMAIN <<>> = {}
  BY DEF NoTrial
<1>4. ASSUME NEW j \in joins', exploring', ex'.judged
      PROVE  j[2] \in OldModes(j[1])'
  <2>1. CASE trial' = NoTrial
    BY <2>1, <1>2, <1>3
  <2>2. CASE joins' = joins /\ exploring /\ ex.judged /\ trial'.before = trial.before
    BY <2>2, <1>2 DEF JoinsInv, OldModes
  <2> QED BY <1>4, <2>1, <2>2
<1>5. JoinsAreLabels'
  BY DEF JoinsInv, JoinsAreLabels
<1>6. phase' # "done" => \A e \in Halfwords' : \A a \in cuts'[e] : \E m \in Modes : <<a, m>> \in joins'
  <2>1. CASE phase # "done"
    BY <2>1, <1>1 DEF JoinsInv
  <2>2. CASE phase = "done"
    BY <2>2
  <2> QED BY <2>1, <2>2
<1> QED BY <1>4, <1>5, <1>6 DEF JoinsInv

\* Whatever is done, cuts are joined and joins are marked.
LEMMA JoinsNext ==
  ASSUME Inv, Phases, JoinsInv, [Next]_vars
  PROVE  JoinsInv'
<1> USE DEF Inv
<1>t. /\ joins \subseteq Halfwords \X Modes /\ cuts \in [Halfwords -> SUBSET Halfwords]
      /\ modes \in [Halfwords -> SUBSET Modes] /\ trial \in Trial
      /\ trial.joins \subseteq Halfwords \X Modes
      /\ \A e \in DOMAIN functions : functions[e].mode \in Modes
      /\ DOMAIN functions \subseteq Halfwords
      /\ ~exploring => trial = NoTrial
  <2>1. trial \in Trial /\ ex \in Exploration
    BY TypesFacts
  <2>2. trial.joins \subseteq Halfwords \X Modes
    BY <2>1 DEF Trial
  <2> QED BY <2>1, <2>2, TypesFacts
<1>n. NoTrial.joins = {} /\ NoTrial.before = <<>> /\ DOMAIN <<>> = {}
  BY DEF NoTrial
<1>p. program' = program
  BY ProgramSame
<1>h. Halfwords' = Halfwords
  BY <1>p, HalfwordsSame
<1>j. \A j \in joins : j[2] \in modes[j[1]]
  BY DEF JoinsInv
<1>k. \A j \in trial.joins : j[2] \in modes[j[1]]
  BY DEF JoinsInv
<1>1. CASE Skip \/ NextBlock \/ Stop \/ Scan \/ NothingHuge \/ Split \/ NextRound \/ SplitDone \/ UNCHANGED vars
  <2>1. /\ modes' = modes /\ cuts' = cuts /\ joins' = joins /\ functions' = functions
        /\ exploring' = exploring /\ trial' = trial /\ ex'.judged = ex.judged
    BY <1>1, TypesFacts DEF Skip, NextBlock, Stop, Scan, NothingHuge, Split, NextRound, SplitDone, vars, marks, Exploration
  <2>2. (phase # "done" \/ phase' = phase) /\ (phase' = "done" => phase = "done")
    BY <1>1 DEF Skip, NextBlock, Stop, Scan, NothingHuge, Split, NextRound, SplitDone, Scanned, RoundDone, vars
  <2> QED BY <2>1, <2>2, <1>p, <1>j, <1>k, QuietJoins
<1>2. CASE Refuse
  <2>1. /\ modes' = modes /\ cuts' = cuts /\ functions' = functions /\ phase' = phase
        /\ ~exploring /\ exploring' = exploring /\ trial' = trial
        /\ joins' = joins \cup IF Held(First) THEN {<<First.address, First.mode>>} ELSE {}
    BY <1>2 DEF Refuse, marks, TakeFirst, Idle
  <2>2. \A j \in joins' : j[2] \in modes[j[1]]
    BY <2>1, <1>j DEF Held
  <2> QED BY <2>1, <2>2, <1>p, <1>k, QuietJoins
<1>3. CASE Begin \/ ExploreAgain
  <2>1. /\ modes' = modes /\ cuts' = cuts /\ joins' = joins /\ functions' = functions
        /\ phase' = phase /\ trial' = NoTrial
    BY <1>3 DEF Begin, ExploreAgain, Explore, marks
  <2>2. \A j \in trial'.joins : j[2] \in modes[j[1]]
    BY <2>1, <1>n
  <2> QED BY <2>1, <2>2, <1>p, <1>j, QuietJoins
<1>4. CASE Join
  <2>1. /\ modes' = modes /\ cuts' = cuts /\ joins' = joins /\ functions' = functions
        /\ phase' = phase /\ exploring /\ ex'.judged = ex.judged /\ trial'.before = trial.before
        /\ trial'.joins = trial.joins \cup {<<ex.at, ex.mode>>} /\ ex.mode \in modes[ex.at] /\ ex.judged
    BY <1>4, <1>t, TypesFacts DEF Join, Joins, marks, Exploration, Trial
  <2>2. \A j \in trial'.joins : j[2] \in modes[j[1]]
    BY <2>1, <1>k
  <2> QED BY <2>1, <2>2, <1>p, <1>j, QuietJoins
<1>5. CASE Step
  <2>1. Stepped
    BY <1>5, StepIs
  <2>2. /\ phase' = phase /\ exploring' = exploring /\ exploring /\ joins' = joins
        /\ trial'.joins = trial.joins /\ ex'.judged = ex.judged
        /\ \A o \in Halfwords : modes[o] \subseteq modes'[o]
        /\ \A e \in Halfwords : \A a \in cuts'[e] : \E d \in Halfwords : a \in cuts[d]
    BY <1>5, StepCuts DEF Walks
  <2>3. phase # "done"
    BY <2>2 DEF Phases
  <2>4. \A e \in Halfwords' : \A a \in cuts'[e] : \E m \in Modes : <<a, m>> \in joins'
    BY <2>2, <2>3, <1>h DEF JoinsInv
  <2>5. \A j \in joins' : j[2] \in modes'[j[1]]
    BY <2>2, <1>j, <1>t
  <2>6. \A j \in trial'.joins : j[2] \in modes'[j[1]]
    BY <2>2, <1>k, <1>t
  <2>7. ASSUME NEW j \in joins', exploring', ex'.judged
        PROVE  j[2] \in OldModes(j[1])'
    <3>1. j \in joins /\ j[1] \in Halfwords /\ ex.judged /\ exploring
      BY <2>2, <2>7, <1>t
    <3>2. OldModes(j[1])' = OldModes(j[1])
      BY <3>1, <2>1, StepOld
    <3> QED BY <3>1, <3>2 DEF JoinsInv
  <2>8. JoinsAreLabels'
    BY <2>2, <2>3 DEF JoinsAreLabels
  <2> QED BY <2>4, <2>5, <2>6, <2>7, <2>8 DEF JoinsInv
<1>6. CASE Keep
  <2>1. /\ modes' = modes /\ cuts' = cuts /\ joins' = joins /\ phase' = phase
        /\ exploring /\ exploring' = FALSE /\ trial' = NoTrial
    BY <1>6 DEF Keep, Explored, Idling, marks
  <2>2. phase # "done"
    BY <2>1 DEF Phases
  <2>3. trial' = NoTrial /\ \A j \in trial'.joins : j[2] \in modes[j[1]]
    BY <2>1, <1>n
  <2>4. joins \subseteq joins' /\ (\A j \in joins' : j[2] \in modes[j[1]]) /\ modes' = modes /\ cuts' = cuts
    BY <2>1, <1>j
  <2>5. phase' # "done"
    BY <2>1, <2>2
  <2>6. phase # "done" \/ (phase' = phase /\ functions' = functions)
    BY <2>2
  <2>7. exploring' /\ ex'.judged =>
          trial' = NoTrial \/ (joins' = joins /\ exploring /\ ex.judged /\ trial'.before = trial.before)
    BY <2>3
  <2>8. phase' = "done" => phase = "done"
    BY <2>5
  <2> QED BY <2>6, <2>7, <2>8, <2>3, <2>4, <1>p, QuietJoins
<1>7. CASE Accept
  <2>1. /\ modes' = modes /\ joins' = joins \cup trial.joins /\ phase' = phase
        /\ cuts' = [cuts EXCEPT ![ex.entry] = cuts[ex.entry] \cup {j[1] : j \in trial.joins}]
        /\ exploring /\ exploring' = FALSE /\ trial' = NoTrial
    BY <1>7 DEF Accept, Explored, Idling, marks
  <2>2. phase # "done" /\ ex.entry \in Halfwords
    BY <2>1, TypesFacts DEF Phases
  <2>3. ASSUME NEW e \in Halfwords, NEW a \in cuts'[e]
        PROVE  \E m \in Modes : <<a, m>> \in joins'
    <3>1. CASE a \in cuts[e]
      BY <3>1, <2>1, <2>2 DEF JoinsInv
    <3>2. CASE a \notin cuts[e]
      <4>1. PICK j \in trial.joins : a = j[1]
        BY <3>2, <2>1, <2>2, <2>3, <1>t
      <4>2. j[2] \in Modes /\ j = <<j[1], j[2]>>
        BY <1>t
      <4> QED BY <4>1, <4>2, <2>1
    <3> QED BY <3>1, <3>2
  <2>4. \A j \in joins' : j[2] \in modes'[j[1]]
    BY <2>1, <1>j, <1>k
  <2>5. JoinsAreLabels'
    BY <2>1, <2>2 DEF JoinsAreLabels
  <2> QED BY <2>1, <2>3, <2>4, <2>5, <1>h, <1>n DEF JoinsInv
<1>8. CASE Reject
  <2>1. /\ modes' = [o \in Halfwords |-> OldModes(o)] /\ joins' = joins /\ phase' = phase /\ cuts' = cuts
        /\ exploring /\ ex.judged /\ exploring' = FALSE /\ trial' = NoTrial
    BY <1>8 DEF Reject, Explored, Idling, OldModes
  <2>2. phase # "done"
    BY <2>1 DEF Phases
  <2>3. \A j \in joins' : j[2] \in modes'[j[1]]
    <3>1. \A j \in joins : j[1] \in Halfwords /\ j[2] \in OldModes(j[1])
      BY <2>1, <1>t DEF JoinsInv
    <3> QED BY <3>1, <2>1
  <2>4. JoinsAreLabels'
    BY <2>1, <2>2 DEF JoinsAreLabels
  <2>5. \A e \in Halfwords' : \A a \in cuts'[e] : \E m \in Modes : <<a, m>> \in joins'
    BY <2>1, <2>2, <1>h DEF JoinsInv
  <2> QED BY <2>1, <2>3, <2>4, <2>5, <1>n DEF JoinsInv
<1>9. CASE LabelJoins
  <2>1. /\ phase = "label" /\ phase' = "done" /\ joins' = {} /\ exploring' = exploring /\ trial' = trial
    BY <1>9 DEF LabelJoins
  <2>2. ~exploring
    BY <2>1 DEF Phases
  <2>3. JoinsAreLabels'
    <3> SUFFICES ASSUME NEW e \in DOMAIN functions', NEW a \in cuts'[e], NEW d \in DOMAIN functions',
                        modes'[a] = {functions'[d].mode}, a \in functions'[d].code
                 PROVE  a \in functions'[d].labels
      BY DEF JoinsAreLabels
    <3>1. /\ e \in Halfwords /\ a \in cuts[e] /\ d \in DOMAIN functions
          /\ modes[a] = {functions[d].mode} /\ a \in functions[d].code
          /\ functions'[d].labels =
               functions[d].labels \cup {b \in functions[d].code : <<b, functions[d].mode>> \in joins}
      BY <1>9, <1>t, LabelsStay
    <3>2. PICK m \in Modes : <<a, m>> \in joins
      BY <3>1, <2>1 DEF JoinsInv
    <3>3. m \in modes[a]
      BY <3>2, <1>j
    <3>4. m = functions[d].mode
      BY <3>1, <3>3
    <3> QED BY <3>1, <3>2, <3>4
  <2>4. \A j \in trial'.joins : j[2] \in modes'[j[1]]
    BY <2>1, <2>2, <1>t, <1>n
  <2> QED BY <2>1, <2>3, <2>4 DEF JoinsInv
<1> QED BY <1>1, <1>2, <1>3, <1>4, <1>5, <1>6, <1>7, <1>8, <1>9 DEF Next, Run

LEMMA SortedRange ==
  ASSUME NEW S, IsFiniteSet(S), S \subseteq Int, NEW s \in Sorted(S)
  PROVE  Range(s) = S
<1> DEFINE c == Cardinality(S)
<1>1. c \in Nat /\ s \in [1..c -> S]
  BY SortedType
<1>2. \A i, j \in 1..c : s[i] = s[j] => i = j
  <2> SUFFICES ASSUME NEW i \in 1..c, NEW j \in 1..c, i < j PROVE s[i] # s[j]
    BY <1>1
  <2>1. s[i] < s[j] /\ s[i] \in Int /\ s[j] \in Int
    BY <1>1 DEF Sorted, InOrder
  <2> QED BY <2>1
<1>3. s \in Injection(1..c, S)
  <2> HIDE DEF c
  <2> QED BY <1>1, <1>2, Fun_IsInj
<1>4. Cardinality(1..c) = c
  <2> HIDE DEF c
  <2> QED BY <1>1, FS_Interval
<1>5. s \in Surjection(1..c, S)
  <2>1. Cardinality(1..c) = Cardinality(S)
    BY <1>4
  <2> HIDE DEF c
  <2> QED BY <1>3, <2>1, FS_Injection
<1> QED BY <1>5, Fun_SurjectionProperties

LEMMA RangeLast ==
  ASSUME NEW S, NEW s \in Seq(S), s # <<>>
  PROVE  Range(s) = Range(Front(s)) \cup {Last(s)}
<1>1. /\ Len(s) \in Nat /\ Len(s) # 0 /\ DOMAIN s = 1..Len(s)
  BY LenProperties, EmptySeq
<1>2. Front(s) = [i \in 1..Len(s) - 1 |-> s[i]]
  BY SubSeqProperties DEF Front
<1>3. Range(Front(s)) = {s[i] : i \in 1..Len(s) - 1}
  BY <1>1, <1>2 DEF Range
<1>4. Range(s) = {s[i] : i \in 1..Len(s)}
  BY <1>1 DEF Range
<1>5. 1..Len(s) = 1..Len(s) - 1 \cup {Len(s)}
  BY <1>1
<1> QED BY <1>3, <1>4, <1>5 DEF Last

\* The blocks a step begins are those of the instruction, whatever was found before,
\* where no branch is a tail call.
LEMMA StepBlocks ==
  ASSUME Types, Step, phase = "scan"
  PROVE  \E blocks \in Seq(Halfwords), ends \in BOOLEAN :
           Walk(blocks, ends) /\ Range(blocks) = BlocksOf(ex.mode, ex.at)
<1>1. Walks
  BY DEF Step, Plain, Call, Branch, TailCall, Jump, JumpTable, AddressTable, LoadPcLiteral, LiteralLoad
<1>2. /\ This \in Instruction /\ This = program.code[ex.mode][ex.at]
      /\ ex.at \in Nat /\ ex.mode \in Modes
  BY <1>1, ThisFacts DEF This
<1>3. /\ This.conditional \in BOOLEAN /\ This.link \in BOOLEAN /\ This.width \in Nat /\ This.target \in Int
      /\ (~This.conditional) \in BOOLEAN /\ (~This.conditional /\ ~This.link) \in BOOLEAN
      /\ TRUE \in BOOLEAN /\ FALSE \in BOOLEAN
  BY <1>2 DEF Instruction
<1>4. <<>> \in Seq(Halfwords) /\ Range(<<>>) = {}
  BY DEF Range
<1>5. CASE Plain \/ Call \/ Jump \/ LoadPcLiteral \/ LiteralLoad
  <2>1. \E ends \in BOOLEAN : Walk(<<>>, ends)
    BY <1>5, <1>3 DEF Plain, Call, Jump, LoadPcLiteral, LiteralLoad
  <2>2. BlocksOf(ex.mode, ex.at) = {}
    BY <1>5, <1>2 DEF Plain, Call, Jump, LoadPcLiteral, LiteralLoad, BlocksOf
  <2> QED BY <2>1, <2>2, <1>4
<1>6. CASE Branch
  <2> DEFINE blocks == IF InText(This.target) THEN <<This.target>> ELSE <<>>
  <2>1. blocks \in Seq(Halfwords)
    BY DEF InText
  <2>2. Walk(blocks, ~This.conditional)
    BY <1>6 DEF Branch
  <2>3. BlocksOf(ex.mode, ex.at) = {This.target} \cap Halfwords
    BY <1>6, <1>2 DEF Branch, BlocksOf
  <2>4. Range(blocks) = {This.target} \cap Halfwords
    BY DEF InText, Range
  <2> HIDE DEF blocks
  <2> QED BY <2>1, <2>2, <2>3, <2>4, <1>3
<1>7. ~TailCall
  BY DEF TailCall, TailCalls
<1>8. CASE JumpTable
  <2>1. PICK n \in 0..program.end :
          /\ \A k \in 1..n : IsCase(ex.at + 2 * k)
          /\ ~IsCase(ex.at + 2 * (n + 1))
          /\ Walk([k \in 1..n |-> ex.at + 2 * k], TRUE)
    BY <1>8 DEF JumpTable
  <2> DEFINE blocks == [k \in 1..n |-> ex.at + 2 * k]
             cases == {k \in 1..program.end : \A j \in 1..k : IsCase(ex.at + 2 * j)}
  <2>2. blocks \in Seq(Halfwords)
    <3>1. \A k \in 1..n : ex.at + 2 * k \in Halfwords
      BY <2>1, CodeFacts DEF IsCase, Types, Modes
    <3>2. n \in Nat
      BY <2>1
    <3> QED BY <3>1, <3>2, IsASeq
  <2>3. BlocksOf(ex.mode, ex.at) = {ex.at + 2 * k : k \in cases}
    BY <1>8, <1>2 DEF JumpTable, BlocksOf
  <2>4. cases = 1..n
    <3>1. program.end \in Nat /\ n \in Nat /\ n <= program.end
      BY <2>1 DEF Types, Program
    <3>2. \A k \in 1..n : k \in cases
      BY <3>1, <2>1
    <3>3. ASSUME NEW k \in cases PROVE k \in 1..n
      <4>1. CASE k > n
        <5>1. n + 1 \in 1..k
          BY <4>1, <3>1
        <5> QED BY <5>1, <2>1
      <4> QED BY <4>1, <3>1
    <3> QED BY <3>2, <3>3
  <2>5. Range(blocks) = {ex.at + 2 * k : k \in 1..n}
    BY DEF Range
  <2>6. Walk(blocks, TRUE)
    BY <2>1
  <2> HIDE DEF blocks, cases
  <2> QED BY <2>2, <2>3, <2>4, <2>5, <2>6, <1>3
<1>9. CASE AddressTable
  <2> DEFINE table == ex.at + 4
             slots(n, mode) == {a \in {table + 2 * k : k \in 0..n - 1} : program.points[a][2] = mode}
             blocks(arm) == [k \in DOMAIN arm |-> program.points[arm[k]][1]]
             all == {k \in 0..This.width - 1 : \A j \in 0..k : IsAddress(table + 2 * j)}
  <2>1. PICK n \in 0..This.width :
          /\ \A k \in 0..n - 1 : IsAddress(table + 2 * k)
          /\ n = This.width \/ ~IsAddress(table + 2 * n)
          /\ \E arm \in Sorted(slots(n, "Arm")) : Walk(blocks(arm), ~This.conditional)
    BY <1>9 DEF AddressTable
  <2>2. PICK arm \in Sorted(slots(n, "Arm")) : Walk(blocks(arm), ~This.conditional)
    BY <2>1
  <2> DEFINE S == slots(n, "Arm")
             f(a) == program.points[a][1]
  <2>3. table \in Nat /\ n \in Nat /\ n <= This.width
    BY <1>2, <1>3, <2>1
  <2>4. IsFiniteSet(S) /\ S \subseteq Int
    <3>1. S \subseteq {table + 2 * k : k \in 0..n - 1}
      OBVIOUS
    <3>2. {table + 2 * k : k \in 0..n - 1} \subseteq Int
      BY <2>3
    <3> HIDE DEF S, table
    <3> QED BY <3>1, <3>2, <2>3, TableFinite
  <2>5. Range(arm) = S /\ arm \in Sorted(S)
    <3>1. arm \in Sorted(S)
      BY <2>2
    <3> HIDE DEF S
    <3> QED BY <3>1, <2>4, SortedRange
  <2>6. blocks(arm) \in Seq(Halfwords)
    <3>1. \A a \in S : f(a) \in Halfwords
      BY <2>1 DEF IsAddress, InText
    <3> HIDE DEF S, f
    <3>5. PICK c \in Nat : arm \in [1..c -> S]
      BY <2>5, <2>4, SortedType
    <3>6. [k \in DOMAIN arm |-> f(arm[k])] \in [1..c -> Halfwords]
      BY <3>1, <3>5
    <3>7. [k \in DOMAIN arm |-> f(arm[k])] \in Seq(Halfwords)
      BY <3>6, SeqDef
    <3> QED BY <3>7 DEF f
  <2>7. Range(blocks(arm)) = {f(a) : a \in S}
    <3> HIDE DEF S, f
    <3>1. Range([k \in DOMAIN arm |-> f(arm[k])]) = {f(a) : a \in S}
      BY <2>5 DEF Range
    <3> QED BY <3>1 DEF f
  <2>8. BlocksOf(ex.mode, ex.at) = {f(table + 2 * k) : k \in {k \in all : program.points[table + 2 * k][2] = "Arm"}}
    BY <1>9, <1>2 DEF AddressTable, BlocksOf
  <2>9. all = 0..n - 1
    <3>1. \A k \in 0..n - 1 : k \in all
      BY <2>3, <2>1, <1>3
    <3>2. ASSUME NEW k \in all PROVE k \in 0..n - 1
      <4>1. CASE k >= n
        <5>1. n \in 0..k /\ n # This.width
          BY <4>1, <2>3, <1>3
        <5> QED BY <5>1, <2>1
      <4> QED BY <4>1, <2>3, <1>3
    <3> QED BY <3>1, <3>2
  <2>10. {f(a) : a \in S} = {f(table + 2 * k) : k \in {k \in 0..n - 1 : program.points[table + 2 * k][2] = "Arm"}}
    <3> HIDE DEF f
    <3> QED OBVIOUS
  <2> HIDE DEF S, f, table, all
  <2> QED BY <2>2, <2>6, <2>7, <2>8, <2>9, <2>10, <1>3
<1> QED BY <1>5, <1>6, <1>7, <1>8, <1>9 DEF Step

LEMMA LabelsSame ==
  ASSUME program' = program
  PROVE  \A m, a : LabelsOf(m, a)' = LabelsOf(m, a)
<1>1. \A m, a : BlocksOf(m, a)' = BlocksOf(m, a)
  BY DEF BlocksOf, IsCase, IsAddress, InText, MayPoint, Halfwords
<1> QED BY <1>1 DEF LabelsOf

\* An action that leaves the functions alone and what is found for the one explored.
LEMMA QuietLabels ==
  ASSUME LabelsInv, program' = program, functions' = functions, round'.number = round.number,
         phase' = phase \/ (phase' # "split" /\ phase' # "done" /\ phase # "done"),
         exploring' => /\ exploring /\ ex'.entry = ex.entry /\ ex'.mode = ex.mode /\ ex'.code = ex.code
                       /\ ex'.labels \cup Range(ex'.blocks) = ex.labels \cup Range(ex.blocks)
  PROVE  LabelsInv'
<1>1. \A m, a : LabelsOf(m, a)' = LabelsOf(m, a)
  BY LabelsSame
<1>2. \A J : LabelledWith(J)' <=> LabelledWith(J)
  BY <1>1 DEF LabelledWith, AllLabels
<1>3. LabelledWith({})' <=> LabelledWith({})
  BY <1>2
<1>4. (\E J : LabelledWith(J))' <=> \E J : LabelledWith(J)
  BY <1>2
<1>5. exploring' => AllLabels(ex.mode, ex.code)' = AllLabels(ex.mode, ex.code)
  BY <1>1 DEF AllLabels
<1> QED BY <1>3, <1>4, <1>5 DEF LabelsInv

\* What is new of a function is labelled by what its code needs.
LEMMA InsertLabels ==
  ASSUME LabelsInv, Types, Explored, Insert, Idling, phase # "done",
         program' = program, round' = round, phase' = phase
  PROVE  LabelsInv'
<1> SUFFICES ASSUME round.number = 0 PROVE LabelsInv'
  BY DEF LabelsInv
<1>1. \A m, a : LabelsOf(m, a)' = LabelsOf(m, a)
  BY LabelsSame
<1>2. ex.labels = {ex.entry} \cup AllLabels(ex.mode, ex.code)
  BY DEF LabelsInv, Explored, Range
<1>3. /\ DOMAIN functions' = DOMAIN functions \cup {ex.entry}
      /\ functions'[ex.entry] = [mode |-> ex.mode, code |-> ex.code, labels |-> ex.labels \cap ex.code]
      /\ \A e \in DOMAIN functions : e # ex.entry => functions'[e] = functions[e]
  BY DEF Insert
<1>4. LabelledWith({})'
  <2> SUFFICES ASSUME NEW e \in DOMAIN functions'
               PROVE  functions'[e].labels = functions'[e].code \cap ({e} \cup AllLabels(functions'[e].mode, functions'[e].code))
    BY <1>1 DEF LabelledWith, AllLabels
  <2>1. CASE e = ex.entry
    BY <2>1, <1>2, <1>3
  <2>2. CASE e # ex.entry
    <3>1. e \in DOMAIN functions /\ functions'[e] = functions[e]
      BY <2>2, <1>3
    <3>2. LabelledWith({})
      BY DEF LabelsInv
    <3> QED BY <3>1, <3>2 DEF LabelledWith
  <2> QED BY <2>1, <2>2
<1>5. ~exploring'
  BY DEF Idling
<1> QED BY <1>4, <1>5 DEF LabelsInv

\* Whatever is done, labels are what the code needs.
LEMMA LabelsNext ==
  ASSUME Inv, Phases, LabelsInv, [Next]_vars
  PROVE  LabelsInv'
<1>p. program' = program
  BY ProgramSame
<1>t. Types /\ ex \in Exploration /\ round.number \in 0..4
  BY TypesFacts DEF Inv
<1>1. CASE Skip \/ Refuse \/ Stop \/ Join \/ Scan \/ NothingHuge \/ UNCHANGED vars
  <2>1. functions' = functions /\ round' = round /\ exploring' = exploring
    BY <1>1 DEF Skip, Refuse, Stop, Join, Scan, NothingHuge, vars
  <2>2. phase' = phase \/ (phase' # "split" /\ phase' # "done" /\ phase # "done")
    BY <1>1 DEF Skip, Refuse, Stop, Join, Scan, NothingHuge, Scanned, vars
  <2>3. /\ ex'.entry = ex.entry /\ ex'.mode = ex.mode /\ ex'.code = ex.code
        /\ ex'.labels = ex.labels /\ ex'.blocks = ex.blocks
    BY <1>1, <1>t DEF Skip, Refuse, Stop, Join, Scan, NothingHuge, vars, Exploration
  <2> QED BY <2>1, <2>2, <2>3, <1>p, QuietLabels
<1>2. CASE NextBlock
  <2>1. /\ functions' = functions /\ round' = round /\ phase' = phase
        /\ exploring' = exploring /\ exploring /\ ex.blocks # <<>>
    BY <1>2 DEF NextBlock
  <2>2. /\ ex'.entry = ex.entry /\ ex'.mode = ex.mode /\ ex'.code = ex.code
        /\ ex'.labels = ex.labels \cup {Last(ex.blocks)} /\ ex'.blocks = Front(ex.blocks)
    BY <1>2, <1>t DEF NextBlock, Exploration
  <2>3. Range(ex.blocks) = Range(Front(ex.blocks)) \cup {Last(ex.blocks)}
    <3>1. ex.blocks \in Seq(Halfwords)
      BY <1>t DEF Exploration
    <3> QED BY <3>1, <2>1, RangeLast
  <2>4. ex'.labels \cup Range(ex'.blocks) = ex.labels \cup Range(ex.blocks)
    BY <2>2, <2>3
  <2> QED BY <2>1, <2>2, <2>4, <1>p, QuietLabels
<1>3. CASE Begin
  <2>1. /\ functions' = functions /\ round' = round /\ phase' = phase /\ phase \in {"scan", "split"}
        /\ Explore(First.address, First.mode, First.sure, Judged(First))
    BY <1>3 DEF Begin, TakeFirst, Idle
  <2>2. /\ ex'.labels = {} /\ ex'.blocks = <<First.address>> /\ ex'.code = {} /\ ex'.entry = First.address
    BY <2>1 DEF Explore, Nowhere
  <2>3. Range(<<First.address>>) = {First.address}
    BY DEF Range
  <2>4. (ex.labels \cup Range(ex.blocks) = {ex.entry} \cup AllLabels(ex.mode, ex.code))'
    BY <2>2, <2>3 DEF AllLabels
  <2>5. \A m, a : LabelsOf(m, a)' = LabelsOf(m, a)
    BY <1>p, LabelsSame
  <2>6. LabelledWith({})' <=> LabelledWith({})
    BY <2>1, <2>5 DEF LabelledWith, AllLabels
  <2> QED BY <2>1, <2>4, <2>6 DEF LabelsInv
<1>4. CASE Step
  <2>1. /\ functions' = functions /\ round' = round /\ phase' = phase /\ Walks
    <3>1. Stepped
      BY <1>4, <1>t, StepIs
    <3> QED BY <3>1 DEF Stepped, StepWith
  <2> SUFFICES ASSUME round.number = 0 PROVE LabelsInv'
    BY <2>1 DEF LabelsInv
  <2>2. exploring /\ phase = "scan"
    BY <2>1 DEF Walks, Phases, LabelsInv
  <2>3. PICK blocks \in Seq(Halfwords), ends \in BOOLEAN :
          Walk(blocks, ends) /\ Range(blocks) = BlocksOf(ex.mode, ex.at)
    BY <1>4, <1>t, <2>2, StepBlocks
  <2> DEFINE back == IF Returns(This) THEN {ex.at + This.size} ELSE {}
  <2>4. /\ ex'.entry = ex.entry /\ ex'.mode = ex.mode /\ ex'.code = ex.code \cup {ex.at}
        /\ ex'.labels = ex.labels \cup back /\ ex'.blocks = ex.blocks \o blocks
    BY <2>3, <1>t DEF Walk, Exploration
  <2>5. Range(ex.blocks \o blocks) = Range(ex.blocks) \cup BlocksOf(ex.mode, ex.at)
    <3>1. ex.blocks \in Seq(Halfwords)
      BY <1>t DEF Exploration
    <3>2. Range(ex.blocks \o blocks) = Range(ex.blocks) \cup Range(blocks)
      BY <3>1, RangeConcatenation
    <3> QED BY <3>2, <2>3
  <2>6. LabelsOf(ex.mode, ex.at) = BlocksOf(ex.mode, ex.at) \cup back
    BY DEF LabelsOf, This
  <2>7. AllLabels(ex.mode, ex.code \cup {ex.at}) = AllLabels(ex.mode, ex.code) \cup LabelsOf(ex.mode, ex.at)
    BY DEF AllLabels
  <2>8. ex.labels \cup Range(ex.blocks) = {ex.entry} \cup AllLabels(ex.mode, ex.code)
    BY <2>2 DEF LabelsInv
  <2>9. ex'.labels \cup Range(ex'.blocks) = {ex'.entry} \cup AllLabels(ex'.mode, ex'.code)
    <3> HIDE DEF back
    <3> QED BY <2>4, <2>5, <2>6, <2>7, <2>8
  <2>10. \A m, a : LabelsOf(m, a)' = LabelsOf(m, a)
    BY <1>p, LabelsSame
  <2>11. (ex.labels \cup Range(ex.blocks) = {ex.entry} \cup AllLabels(ex.mode, ex.code))'
    BY <2>9, <2>10 DEF AllLabels
  <2>12. LabelledWith({})' <=> LabelledWith({})
    BY <2>1, <2>10 DEF LabelledWith, AllLabels
  <2> QED BY <2>1, <2>2, <2>11, <2>12 DEF LabelsInv
<1>5. CASE Keep \/ Accept
  <2>1. Explored /\ Insert /\ Idling /\ round' = round /\ phase' = phase
    BY <1>5 DEF Keep, Accept
  <2>2. phase # "done"
    BY <2>1 DEF Phases, Explored
  <2> QED BY <2>1, <2>2, <1>p, <1>t, InsertLabels
<1>6. CASE Reject
  <2>1. functions' = functions /\ round' = round /\ phase' = phase /\ ~exploring'
    BY <1>6 DEF Reject, Idling
  <2> QED BY <2>1, <1>p, QuietLabels
<1>7. CASE Split \/ NextRound
  <2>1. round'.number = 1 \/ round'.number = round.number + 1
    BY <1>7 DEF Split, NextRound
  <2> QED BY <2>1, <1>t DEF LabelsInv
<1>8. CASE ExploreAgain \/ SplitDone
  <2>1. phase = "split" /\ round'.number = round.number
    <3>1. round \in [number : 0..4, huge : SUBSET Halfwords, left : SUBSET Halfwords]
      BY <1>t DEF Types
    <3> QED BY <3>1, <1>8 DEF ExploreAgain, SplitDone, RoundDone
  <2> QED BY <2>1 DEF LabelsInv
<1>9. CASE LabelJoins
  <2>1. /\ phase = "label" /\ phase' = "done" /\ exploring' = exploring /\ round' = round
    BY <1>9 DEF LabelJoins
  <2>2. ~exploring
    BY <2>1 DEF Phases
  <2> SUFFICES ASSUME round.number = 0 PROVE LabelsInv'
    BY <2>1 DEF LabelsInv
  <2>3. LabelledWith({})
    BY <2>1 DEF LabelsInv
  <2>4. \A m, a : LabelsOf(m, a)' = LabelsOf(m, a)
    BY <1>p, LabelsSame
  <2>5. \E J : LabelledWith(J)'
    <3>1. ASSUME NEW J, J = joins PROVE LabelledWith(J)'
      <4> SUFFICES ASSUME NEW e \in DOMAIN functions'
                   PROVE  functions'[e].labels =
                            functions'[e].code \cap ({e} \cup AllLabels(functions'[e].mode, functions'[e].code)
                               \cup {a \in functions'[e].code : <<a, functions'[e].mode>> \in J})
        BY <2>4 DEF LabelledWith, AllLabels
      <4>1. /\ e \in DOMAIN functions
            /\ functions'[e].mode = functions[e].mode /\ functions'[e].code = functions[e].code
            /\ functions'[e].labels =
                 functions[e].labels \cup {a \in functions[e].code : <<a, functions[e].mode>> \in joins}
        BY <1>9, <1>t, LabelsStay
      <4>2. functions[e].labels = functions[e].code \cap ({e} \cup AllLabels(functions[e].mode, functions[e].code))
        BY <4>1, <2>3 DEF LabelledWith
      <4> QED BY <4>1, <4>2, <3>1
    <3> QED BY <3>1
  <2> QED BY <2>1, <2>2, <2>5 DEF LabelsInv
<1> QED BY <1>1, <1>2, <1>3, <1>4, <1>5, <1>6, <1>7, <1>8, <1>9 DEF Next, Run

-----------------------------------------------------------------------------
(* Where functions lead.                                                    *)

LEMMA InConcat ==
  ASSUME NEW S, NEW r \in Seq(S), NEW s \in Seq(S), NEW t, NEW m
  PROVE  In(r \o s, t, m) <=> In(r, t, m) \/ In(s, t, m)
<1>1. Range(r \o s) = Range(r) \cup Range(s)
  BY RangeConcatenation
<1> QED BY <1>1 DEF In

LEMMA InEmpty ==
  ASSUME NEW t, NEW m
  PROVE  ~In(<<>>, t, m)
BY DEF In, Range

\* What is noted of a step waits, where it was waits what did.
LEMMA NoteLeads ==
  ASSUME Types, NEW calls \in Seq(Leads), NEW pointers \in Seq(Leads), NEW literals, NEW new,
         Note(calls, pointers, literals, new), NEW t, NEW m
  PROVE  /\ Queued(t, m) => Queued(t, m)'
         /\ Tried(t, m) => Tried(t, m)'
         /\ In(calls, t, m) \/ In(pointers, t, m) => Queued(t, m)' \/ Tried(t, m)'
<1>1. queue \in Seq(Leads) /\ guesses \in Seq(Leads) /\ trial \in Trial
  BY TypesFacts
<1>2. trial.calls \in Seq(Leads) /\ trial.pointers \in Seq(Leads)
  BY <1>1 DEF Trial
<1>3. CASE ex.judged
  <2>1. queue' = queue /\ guesses' = guesses
    BY <1>3 DEF Note, leads
  <2>2. trial'.calls = trial.calls \o calls /\ trial'.pointers = trial.pointers \o pointers
    BY <1>1, <1>3 DEF Note, Trial
  <2>3. Tried(t, m)' <=> Tried(t, m) \/ In(calls, t, m) \/ In(pointers, t, m)
    BY <1>2, <2>2, InConcat DEF Tried
  <2> QED BY <2>1, <2>3 DEF Queued
<1>4. CASE ~ex.judged
  <2>1. queue' = queue \o calls /\ guesses' = guesses \o pointers /\ trial' = trial
    BY <1>4 DEF Note, Follow
  <2>2. Queued(t, m)' <=> Queued(t, m) \/ In(calls, t, m) \/ In(pointers, t, m)
    BY <1>1, <2>1, InConcat DEF Queued
  <2> QED BY <2>1, <2>2 DEF Tried
<1> QED BY <1>3, <1>4

\* The lead that is taken and the others.
LEMMA TakeQueued ==
  ASSUME Types, TakeFirst, NEW t, NEW m, Queued(t, m)
  PROVE  (t = First.address /\ m = First.mode) \/ Queued(t, m)'
<1>1. queue \in Seq(Leads) /\ guesses \in Seq(Leads)
  BY TypesFacts
<1>2. ASSUME NEW s \in Seq(Leads), s # <<>>, In(s, t, m)
      PROVE  (t = Head(s).address /\ m = Head(s).mode) \/ In(Tail(s), t, m)
  <2>1. s = <<Head(s)>> \o Tail(s) /\ Head(s) \in Leads /\ Tail(s) \in Seq(Leads)
    BY <1>2, HeadTailProperties
  <2>2. <<Head(s)>> \in Seq(Leads)
    BY <2>1
  <2>3. In(<<Head(s)>>, t, m) \/ In(Tail(s), t, m)
    BY <1>2, <2>1, <2>2, InConcat
  <2>4. Range(<<Head(s)>>) = {Head(s)}
    BY DEF Range
  <2> QED BY <2>3, <2>4 DEF In
<1>3. CASE queue # <<>>
  <2>1. First = Head(queue) /\ queue' = Tail(queue) /\ guesses' = guesses
    BY <1>3 DEF First, TakeFirst
  <2> QED BY <1>1, <1>2, <1>3, <2>1 DEF Queued
<1>4. CASE queue = <<>>
  <2>1. First = Head(guesses) /\ guesses' = Tail(guesses) /\ queue' = queue /\ guesses # <<>>
    BY <1>4 DEF First, TakeFirst, Waiting
  <2>2. ~In(queue, t, m)
    BY <1>4, InEmpty
  <2> QED BY <1>1, <1>2, <2>1, <2>2 DEF Queued
<1> QED BY <1>3, <1>4

\* What is settled stays so, where functions are only added.
LEMMA SettledStays ==
  ASSUME program' = program, DOMAIN functions \subseteq DOMAIN functions',
         \A e \in DOMAIN functions :
           functions'[e].mode = functions[e].mode /\ functions'[e].code = functions[e].code,
         rejected \subseteq rejected',
         \A o \in Halfwords : OldMap(o) # "Unknown" => OldMap(o)' # "Unknown"
  PROVE  /\ \A m, a : After(m, a)' = After(m, a)
         /\ \A t, m : Settled(t, m) => Settled(t, m)'
         /\ \A e \in DOMAIN functions \cap Halfwords : Begun(e) => Begun(e)'
<1>1. Halfwords' = Halfwords
  BY HalfwordsSame
<1>2. \A m, a : Span(m, a)' = Span(m, a) /\ LiteralsOf(m, a)' = LiteralsOf(m, a)
  BY DEF Span, LiteralsOf
<1>3. \A m, a : After(m, a)' = After(m, a)
  BY <1>1 DEF After, IsCase, IsAddress, InText, MayPoint
<1>4. ASSUME NEW m, NEW o, FunctionsHold(m, o) PROVE FunctionsHold(m, o)'
  BY <1>2, <1>4, Zenon DEF FunctionsHold, FunctionHolds, HoldsAt
<1>5. ASSUME NEW o, FunctionsLoad(o) PROVE FunctionsLoad(o)'
  BY <1>2, <1>5, Zenon DEF FunctionsLoad
<1>6. \A t, m : Decoded(t, m)' <=> Decoded(t, m)
  BY DEF Decoded
<1>7. ASSUME NEW t, NEW m, Settled(t, m) PROVE Settled(t, m)'
  BY <1>1, <1>4, <1>5, <1>6, <1>7 DEF Settled, InText
<1>8. ASSUME NEW e \in DOMAIN functions \cap Halfwords, Begun(e) PROVE Begun(e)'
  BY <1>1, <1>5, <1>6, <1>8 DEF Begun
<1> QED BY <1>3, <1>7, <1>8

\* A place where a function begins is settled.
LEMMA KnownSettled ==
  ASSUME Types, FunctionsFollowed, NEW t \in DOMAIN functions, NEW m
  PROVE  Settled(t, m)
<1>1. CASE functions[t].mode = m
  <2>1. Begun(t)
    BY DEF FunctionsFollowed
  <2>2. ASSUME t \in functions[t].code PROVE FunctionsHold(m, t)
    <3>1. functions[t].mode \in Modes /\ t \in DOMAIN program.code[m]
      BY <1>1, <2>2, TypesFacts
    <3>2. t \in Span(m, t)
      BY <1>1, <3>1, CodeFacts, TypesFacts
    <3> QED BY <1>1, <2>2, <3>2 DEF FunctionsHold, FunctionHolds, HoldsAt
  <2> QED BY <1>1, <2>1, <2>2 DEF Begun, Settled
<1>2. CASE functions[t].mode # m
  BY <1>2 DEF Settled
<1> QED BY <1>1, <1>2

\* What an instruction leads to is explored, waits or begins a function.
LEMMA StepAfter ==
  ASSUME Types, Step, phase = "scan", NEW to, to \in After(ex.mode, ex.at), InText(to[1])
  PROVE  \/ to[2] = ex.mode /\ to[1] \in Range(ex'.blocks)
         \/ to[2] = ex.mode /\ ex'.walking /\ ex'.at = to[1]
         \/ to[1] \in DOMAIN functions
         \/ Queued(to[1], to[2])' \/ Tried(to[1], to[2])'
<1>1. Walks /\ ex \in Exploration
  BY TypesFacts DEF Step, Plain, Call, Branch, TailCall, Jump, JumpTable, AddressTable, LoadPcLiteral, LiteralLoad
<1>2. /\ This \in Instruction /\ This = program.code[ex.mode][ex.at]
      /\ ex.at \in Nat /\ ex.mode \in Modes /\ ex.at \in DOMAIN program.code[ex.mode]
  BY <1>1, ThisFacts DEF This
<1>3. /\ This.flow \in Flows /\ This.conditional \in BOOLEAN /\ This.link \in BOOLEAN
      /\ This.width \in Nat /\ This.target \in Int
      /\ This.link => This.flow \in {"Branch", "BranchRegister"}
      /\ This.flow \in {"JumpTable", "AddressTable", "LoadPcLiteral"} => ex.mode = "Arm"
  BY <1>2 DEF Instruction, Types, Program, Modes
\* Blocks, and where the path goes on.
<1>4. PICK blocks \in Seq(Halfwords), some \in BOOLEAN :
        Walk(blocks, some) /\ Range(blocks) = BlocksOf(ex.mode, ex.at)
  BY StepBlocks
<1>5. BlocksOf(ex.mode, ex.at) \subseteq Range(ex'.blocks)
  <2>1. ex'.blocks = ex.blocks \o blocks
    BY <1>1, <1>4 DEF Walk, Exploration
  <2>2. Range(ex.blocks \o blocks) = Range(ex.blocks) \cup Range(blocks)
    BY <1>1, RangeConcatenation DEF Exploration
  <2> QED BY <2>1, <2>2, <1>4
<1>6. ASSUME NEW b, NEW ends, Walk(b, ends)
      PROVE  ex'.walking = ~ends /\ ex'.at = ex.at + This.size
  BY <1>1, <1>6 DEF Walk, Exploration
<1> DEFINE stop == {"Branch", "BranchRegister", "Return", "IndirectJump", "AddressTable", "LoadPcLiteral"}
           falls == This.flow # "JumpTable" /\ (This.flow \in stop => This.link \/ This.conditional)
<1>7. \/ falls /\ to = <<ex.at + This.size, ex.mode>>
      \/ This.flow = "Branch" /\ to = <<This.target, ex.mode>>
      \/ This.flow = "CallOtherMode" /\ to = <<This.target, Other(ex.mode)>>
      \/ This.flow = "JumpTable" /\ \E n \in {n \in 1..program.end : \A k \in 1..n : IsCase(ex.at + 2 * k)} :
                                      to = <<ex.at + 2 * n, "Arm">>
      \/ This.flow = "AddressTable" /\ to[2] \in Modes
           /\ \E n \in {n \in 0..This.width - 1 : \A k \in 0..n : IsAddress(ex.at + 4 + 2 * k)} :
                to = program.points[ex.at + 4 + 2 * n]
  BY <1>2 DEF After
<1>8. CASE falls /\ to = <<ex.at + This.size, ex.mode>>
  <2>1. \E b, ends : Walk(b, ends) /\ ends = FALSE
    <3>1. CASE Plain \/ Call \/ LiteralLoad
      BY <3>1 DEF Plain, Call, LiteralLoad
    <3>2. CASE Branch \/ LoadPcLiteral
      <4>1. This.conditional = TRUE
        BY <1>3, <1>8, <3>2 DEF Branch, LoadPcLiteral
      <4> QED BY <4>1, <3>2 DEF Branch, LoadPcLiteral
    <3>3. CASE Jump
      <4>1. (~This.conditional /\ ~This.link) = FALSE
        BY <1>3, <1>8, <3>3 DEF Jump
      <4> QED BY <4>1, <3>3 DEF Jump
    <3>4. CASE AddressTable
      <4>1. (~This.conditional) = FALSE
        BY <1>3, <1>8, <3>4 DEF AddressTable
      <4>2. \E b : Walk(b, ~This.conditional)
        BY <3>4 DEF AddressTable
      <4> QED BY <4>1, <4>2
    <3>5. ~JumpTable /\ ~TailCall
      BY <1>8 DEF JumpTable, TailCall, TailCalls
    <3> QED BY <3>1, <3>2, <3>3, <3>4, <3>5 DEF Step
  <2> QED BY <2>1, <1>6, <1>8
<1>9. ASSUME NEW t, NEW m \in Modes, to = <<t, m>>, NEW literals, NEW new, Note(CallTo(t, m), <<>>, literals, new)
      PROVE  t \in DOMAIN functions \/ Queued(t, m)' \/ Tried(t, m)'
  <2>1. CASE Unfound(t)
    <3>1. CallTo(t, m) \in Seq(Leads) /\ <<>> \in Seq(Leads)
      BY <1>1, LeadType DEF CallTo, Exploration
    <3>2. CallTo(t, m) = <<[address |-> t, mode |-> m, sure |-> ex.sure]>>
      BY <2>1 DEF CallTo, LeadTo
    <3>3. In(CallTo(t, m), t, m)
      BY <3>2 DEF In, Range
    <3> QED BY <3>1, <3>3, <1>9, NoteLeads
  <2>2. CASE ~Unfound(t)
    BY <1>9, <2>2 DEF Unfound
  <2> QED BY <2>1, <2>2
<1>10. CASE This.flow = "Branch" /\ to = <<This.target, ex.mode>>
  <2>1. CASE This.link
    <3>1. Call
      BY <1>10, <2>1 DEF Step, Plain, Branch, TailCall, Jump, JumpTable, AddressTable, LoadPcLiteral, LiteralLoad
    <3>2. Note(CallTo(This.target, ex.mode), <<>>, {}, {})
      BY <3>1, <1>10 DEF Call
    <3> QED BY <3>2, <1>9, <1>10, <1>2
  <2>2. CASE ~This.link
    <3>1. This.target \in BlocksOf(ex.mode, ex.at)
      BY <1>2, <1>10, <2>2 DEF BlocksOf, InText
    <3> QED BY <3>1, <1>5, <1>10
  <2> QED BY <2>1, <2>2
<1>11. CASE This.flow = "CallOtherMode" /\ to = <<This.target, Other(ex.mode)>>
  <2>1. Call
    BY <1>11 DEF Step, Plain, Branch, TailCall, Jump, JumpTable, AddressTable, LoadPcLiteral, LiteralLoad
  <2>2. Note(CallTo(This.target, Other(ex.mode)), <<>>, {}, {})
    BY <2>1, <1>11 DEF Call
  <2>3. Other(ex.mode) \in Modes
    BY DEF Other, Modes
  <2> QED BY <2>2, <2>3, <1>9, <1>11
<1>12. CASE This.flow = "JumpTable" /\ \E n \in {n \in 1..program.end : \A k \in 1..n : IsCase(ex.at + 2 * k)} :
                                      to = <<ex.at + 2 * n, "Arm">>
  <2>1. to[1] \in BlocksOf(ex.mode, ex.at) /\ to[2] = "Arm"
    BY <1>2, <1>12 DEF BlocksOf
  <2> QED BY <2>1, <1>3, <1>5, <1>12
<1>13. CASE This.flow = "AddressTable" /\ to[2] \in Modes
           /\ \E n \in {n \in 0..This.width - 1 : \A k \in 0..n : IsAddress(ex.at + 4 + 2 * k)} :
                to = program.points[ex.at + 4 + 2 * n]
  <2> DEFINE table == ex.at + 4
  <2>1. PICK n \in 0..This.width - 1 :
          (\A k \in 0..n : IsAddress(table + 2 * k)) /\ to = program.points[table + 2 * n]
    BY <1>13
  <2>2. CASE to[2] = "Arm"
    <3>1. to[1] \in BlocksOf(ex.mode, ex.at)
      BY <1>2, <1>13, <2>1, <2>2 DEF BlocksOf
    <3> QED BY <3>1, <2>2, <1>3, <1>5, <1>13
  <2>3. CASE to[2] = "Thumb" /\ to[1] \notin DOMAIN functions
    <3> DEFINE slots(j) == {a \in {table + 2 * k : k \in 0..j - 1} : program.points[a][2] = "Thumb"}
               S(j) == {a \in slots(j) : Unfound(program.points[a][1])}
               lead(a) == [address |-> program.points[a][1], mode |-> "Thumb", sure |-> FALSE]
               pointers(thumb) == [k \in DOMAIN thumb |-> lead(thumb[k])]
    <3>1. AddressTable
      BY <1>13 DEF Step, Plain, Call, Branch, TailCall, Jump, JumpTable, LoadPcLiteral, LiteralLoad
    <3>2. PICK j \in 0..This.width :
            /\ j = This.width \/ ~IsAddress(table + 2 * j)
            /\ \E thumb \in Sorted(S(j)) : \E literals : Note(<<>>, pointers(thumb), literals, {})
      BY <3>1 DEF AddressTable
    <3>a. PICK thumb \in Sorted(S(j)) : \E literals : Note(<<>>, pointers(thumb), literals, {})
      BY <3>2
    <3>3. PICK literals : Note(<<>>, pointers(thumb), literals, {})
      BY <3>a
    <3>4. n < j /\ n \in Nat /\ j \in Nat /\ table \in Nat
      <4>1. CASE j <= n
        <5>1. j \in 0..n /\ j # This.width
          BY <4>1, <3>2, <1>3
        <5> QED BY <5>1, <2>1, <3>2
      <4> QED BY <4>1, <1>2, <1>3
    <3>5. IsFiniteSet(S(j)) /\ S(j) \subseteq Int
      <4>1. S(j) \subseteq {table + 2 * k : k \in 0..j - 1}
        OBVIOUS
      <4>2. {table + 2 * k : k \in 0..j - 1} \subseteq Int
        BY <3>4
      <4> HIDE DEF S, table
      <4> QED BY <4>1, <4>2, <3>4, TableFinite
    <3>6. Range(thumb) = S(j) /\ \E c \in Nat : thumb \in [1..c -> S(j)]
      <4> HIDE DEF S
      <4> QED BY <3>a, <3>5, SortedRange, SortedType
    <3>7. table + 2 * n \in S(j)
      <4>1. n \in 0..j - 1
        BY <3>4
      <4>2. Unfound(program.points[table + 2 * n][1]) /\ program.points[table + 2 * n][2] = "Thumb"
        BY <2>1, <2>3 DEF Unfound
      <4> QED BY <4>1, <4>2
    <3>8. \A a \in S(j) : lead(a) \in Leads
      BY DEF Unfound, InText, Leads, Lead, Halfwords, Modes
    <3> HIDE DEF S
    <3>9. pointers(thumb) \in Seq(Leads)
      <4> HIDE DEF lead
      <4>1. PICK c \in Nat : thumb \in [1..c -> S(j)]
        BY <3>6
      <4>2. pointers(thumb) \in [1..c -> Leads]
        BY <4>1, <3>8
      <4> QED BY <4>2, SeqDef
    <3>10. In(pointers(thumb), to[1], to[2])
      <4>1. PICK k \in DOMAIN thumb : thumb[k] = table + 2 * n
        BY <3>6, <3>7 DEF Range
      <4>2. pointers(thumb)[k] = lead(table + 2 * n) /\ k \in DOMAIN pointers(thumb)
        BY <4>1
      <4>3. lead(table + 2 * n).address = to[1] /\ lead(table + 2 * n).mode = to[2]
        BY <2>1, <2>3
      <4> HIDE DEF lead, pointers
      <4> QED BY <4>2, <4>3 DEF In, Range
    <3>11. <<>> \in Seq(Leads)
      OBVIOUS
    <3> HIDE DEF pointers
    <3> QED BY <3>3, <3>9, <3>10, <3>11, NoteLeads
  <2> QED BY <2>2, <2>3, <1>13 DEF Modes
<1> HIDE DEF falls
<1> QED BY <1>7, <1>8, <1>10, <1>11, <1>12, <1>13

\* What functions lead to stays settled or waits, where functions are left alone.
LEMMA QuietFollowed ==
  ASSUME Types, FunctionsFollowed, program' = program, DOMAIN functions' = DOMAIN functions,
         \A e \in DOMAIN functions :
           functions'[e].mode = functions[e].mode /\ functions'[e].code = functions[e].code,
         rejected \subseteq rejected',
         \A o \in Halfwords : OldMap(o) # "Unknown" => OldMap(o)' # "Unknown",
         \A t, m : phase = "scan" /\ Awaited(t, m) => Settled(t, m)' \/ (phase' = "scan" /\ Awaited(t, m)')
  PROVE  FunctionsFollowed'
<1>1. /\ \A m, a : After(m, a)' = After(m, a)
      /\ \A t, m : Settled(t, m) => Settled(t, m)'
      /\ \A e \in DOMAIN functions \cap Halfwords : Begun(e) => Begun(e)'
  BY SettledStays
<1>2. DOMAIN functions \subseteq Halfwords
  BY TypesFacts
<1> SUFFICES ASSUME NEW e \in DOMAIN functions
             PROVE  /\ Begun(e)'
                    /\ \A a \in functions[e].code : \A to \in After(functions[e].mode, a) :
                         Settled(to[1], to[2])' \/ (phase' = "scan" /\ Awaited(to[1], to[2])')
  BY <1>1 DEF FunctionsFollowed
<1>3. /\ Begun(e)
      /\ \A a \in functions[e].code : \A to \in After(functions[e].mode, a) :
           Settled(to[1], to[2]) \/ (phase = "scan" /\ Awaited(to[1], to[2]))
  BY DEF FunctionsFollowed
<1> QED BY <1>1, <1>2, <1>3

\* What exploring has been at stays what it is while it goes on.
LEMMA SeenStays ==
  ASSUME program' = program, functions' = functions, exploring, exploring',
         ex'.mode = ex.mode, ex'.entry = ex.entry, ex.code \subseteq ex'.code,
         \A o \in Halfwords : map[o] # "Unknown" => map'[o] # "Unknown",
         NEW s \in Halfwords, Seen(s)
  PROVE  Seen(s)'
<1>1. \A m, a : Span(m, a)' = Span(m, a) /\ LiteralsOf(m, a)' = LiteralsOf(m, a)
  BY DEF Span, LiteralsOf
<1>2. ASSUME Loaded(s) PROVE Loaded(s)'
  BY <1>1, <1>2, Zenon DEF Loaded
<1>3. ASSUME NEW m, Holds(m, s) PROVE Holds(m, s)'
  <2>1. (\E e \in DOMAIN functions : FunctionHolds(e, m, s)) => (\E e \in DOMAIN functions : FunctionHolds(e, m, s))'
    BY <1>1, Zenon DEF FunctionHolds, HoldsAt
  <2>2. HoldsAt(m, ex.code, s) => HoldsAt(m, ex.code, s)'
    BY <1>1 DEF HoldsAt
  <2> QED BY <1>3, <2>1, <2>2 DEF Holds
<1>4. Decoded(s, ex.mode)' <=> Decoded(s, ex.mode)
  BY DEF Decoded
<1> QED BY <1>2, <1>3, <1>4 DEF Seen

\* An action that leaves what is explored alone, or that explores nothing.
LEMMA QuietInv ==
  ASSUME Types, FollowedInv, round.number = 0,
         program' = program, functions' = functions, map' = map, trial' = trial, cuts' = cuts,
         rejected \subseteq rejected', phase' = "scan" => phase = "scan",
         ~exploring, ~exploring',
         \A t, m : phase = "scan" /\ Queued(t, m) => Settled(t, m)' \/ (phase' = "scan" /\ Awaited(t, m)')
  PROVE  FollowedInv'
<1>1. Halfwords' = Halfwords
  BY HalfwordsSame
<1>2. \A o : OldMap(o)' = OldMap(o)
  BY DEF OldMap
<1>3. FunctionsFollowed'
  <2>1. \A t, m : phase = "scan" /\ Awaited(t, m) => Settled(t, m)' \/ (phase' = "scan" /\ Awaited(t, m)')
    BY DEF Awaited
  <2> QED BY <2>1, <1>2, QuietFollowed DEF FollowedInv
<1> QED BY <1>1, <1>2, <1>3 DEF FollowedInv

LEMMA TakeFollowed ==
  ASSUME Inv, FollowedInv, round.number = 0, phase # "split", Skip \/ Refuse \/ Begin
  PROVE  FollowedInv'
<1>t. Types /\ FunctionsFollowed /\ phase = "scan"
  BY DEF Inv, FollowedInv, Skip, Refuse, Begin, TakeFirst, Idle
<1>1. /\ TakeFirst /\ program' = program /\ phase' = phase /\ functions' = functions /\ map' = map /\ modes' = modes
      /\ cuts' = cuts /\ round' = round /\ rejected \subseteq rejected'
  BY DEF Skip, Refuse, Begin, marks
<1>2. ~exploring /\ First.address \in Halfwords /\ trial = NoTrial
  BY <1>1, <1>t, TakeFacts, TypesFacts
<1>3. \A t, m : Queued(t, m) => (t = First.address /\ m = First.mode) \/ Queued(t, m)'
  BY <1>1, <1>t, TakeQueued
<1>4. CASE Skip
  <2>1. trial' = trial /\ exploring' = exploring /\ Known(First)
    BY <1>4 DEF Skip
  <2>2. \A m : Settled(First.address, m)
    BY <2>1, <1>t, KnownSettled DEF Known
  <2>3. \A o \in Halfwords : OldMap(o) # "Unknown" => OldMap(o)' # "Unknown"
    BY <1>1, <2>1 DEF OldMap
  <2>4. \A t, m : t = First.address => Settled(t, m)'
    <3>1. \A t, m : Settled(t, m) => Settled(t, m)'
      BY <1>1, <2>3, SettledStays
    <3> QED BY <2>2, <3>1
  <2>5. \A t, m : Queued(t, m) => Settled(t, m)' \/ Awaited(t, m)'
    BY <1>3, <2>4 DEF Awaited
  <2> QED BY <1>1, <1>2, <1>t, <2>1, <2>5, QuietInv
<1>5. CASE Refuse
  <2>1. trial' = trial /\ exploring' = exploring /\ <<First.address, First.mode>> \in rejected'
    BY <1>5 DEF Refuse
  <2>2. \A t, m : t = First.address /\ m = First.mode => Settled(t, m)'
    BY <2>1 DEF Settled
  <2>3. \A t, m : Queued(t, m) => Settled(t, m)' \/ Awaited(t, m)'
    BY <1>3, <2>2 DEF Awaited
  <2> QED BY <1>1, <1>2, <1>t, <2>1, <2>3, QuietInv
<1>6. CASE Begin
  <2>1. /\ Explore(First.address, First.mode, First.sure, Judged(First)) /\ ~Refused(First)
    BY <1>6 DEF Begin
  <2>2. /\ exploring' = TRUE /\ trial' = NoTrial
        /\ ex' = [Nowhere EXCEPT !.entry = First.address, !.mode = First.mode, !.sure = First.sure,
                                 !.judged = Judged(First), !.blocks = <<First.address>>]
    BY <2>1 DEF Explore
  <2>3. /\ ex'.entry = First.address /\ ex'.mode = First.mode /\ ex'.judged = Judged(First)
        /\ ex'.seen = {} /\ ex'.code = {} /\ ex'.walking = FALSE /\ ex'.blocks = <<First.address>>
    BY <2>2 DEF Nowhere
  <2>4. Judged(First) => First.mode \notin modes[First.address]
    BY <2>1 DEF Refused, Held
  <2>5. ExploredInv'
    BY <1>1, <2>2, <2>3, <2>4 DEF ExploredInv, NoTrial
  <2>6. \A o : OldMap(o)' = OldMap(o)
    BY <1>1, <1>2, <2>2 DEF OldMap
  <2>7. \A t, m : Awaited(t, m) => Awaited(t, m)'
    BY <1>2, <1>3, <2>2, <2>3 DEF Awaited
  <2>8. FunctionsFollowed'
    <3>1. \A o \in Halfwords : OldMap(o) # "Unknown" => OldMap(o)' # "Unknown"
      BY <2>6
    <3> QED BY <1>1, <1>t, <2>7, <3>1, QuietFollowed
  <2>9. Halfwords' = Halfwords
    BY <1>1, HalfwordsSame
  <2> QED BY <1>1, <1>t, <2>5, <2>6, <2>8, <2>9 DEF FollowedInv
<1> QED BY <1>4, <1>5, <1>6

\* Where exploring goes on from.
LEMMA ExploringFollowed ==
  ASSUME Types, FollowedInv, round.number = 0, exploring, exploring', phase = "scan", phase' = phase, round' = round,
         program' = program, functions' = functions, rejected' = rejected, cuts' = cuts,
         ex'.mode = ex.mode, ex'.entry = ex.entry, ex'.judged = ex.judged,
         \A o \in Halfwords : map[o] # "Unknown" => map'[o] # "Unknown",
         ex.judged => \A o \in Halfwords : OldMap(o)' = OldMap(o),
         ~ex.judged => trial' = trial,
         \A t, m : Queued(t, m) => Queued(t, m)'
  PROVE  /\ FunctionsFollowed'
         /\ \A o \in Halfwords : map'[o] = "Unknown" => OldMap(o)' = "Unknown"
         /\ \A m, a : After(m, a)' = After(m, a)
         /\ \A t, m : Settled(t, m) => Settled(t, m)'
         /\ \A t, m : Awaited(t, m) => Awaited(t, m)'
         /\ ExploredInv' => FollowedInv'
<1>1. ASSUME NEW o \in Halfwords
      PROVE  (OldMap(o) # "Unknown" => OldMap(o)' # "Unknown") /\ (map'[o] = "Unknown" => OldMap(o)' = "Unknown")
  <2>1. CASE ex.judged
    BY <2>1 DEF FollowedInv
  <2>2. CASE ~ex.judged
    <3>1. trial = NoTrial /\ trial' = NoTrial
      BY <2>2 DEF FollowedInv, ExploredInv
    <3>2. OldMap(o) = map[o] /\ OldMap(o)' = map'[o]
      BY <3>1 DEF OldMap, NoTrial
    <3> QED BY <3>2
  <2> QED BY <2>1, <2>2
<1>2. /\ \A m, a : After(m, a)' = After(m, a)
      /\ \A t, m : Settled(t, m) => Settled(t, m)'
  BY <1>1, SettledStays
<1>3. \A t, m : Awaited(t, m) => Awaited(t, m)'
  BY DEF Awaited
<1>4. FunctionsFollowed'
  BY <1>1, <1>3, QuietFollowed DEF FollowedInv
<1>5. Halfwords' = Halfwords
  BY HalfwordsSame
<1>6. phase' = "scan" => \A a \in Halfwords' : cuts'[a] # {} => a \in DOMAIN functions'
  BY <1>5 DEF FollowedInv
<1> QED BY <1>1, <1>2, <1>3, <1>4, <1>5, <1>6 DEF FollowedInv

LEMMA NextBlockFollowed ==
  ASSUME Inv, FollowedInv, round.number = 0, phase = "scan", NextBlock
  PROVE  FollowedInv'
<1>1. /\ exploring /\ exploring' /\ ~ex.walking /\ ex.blocks # <<>> /\ phase' = phase /\ round' = round
      /\ program' = program /\ functions' = functions /\ rejected' = rejected /\ cuts' = cuts
      /\ map' = map /\ modes' = modes /\ trial' = trial /\ queue' = queue /\ guesses' = guesses
  BY DEF NextBlock, marks, leads
<1>2. Types /\ ex \in Exploration /\ ex.blocks \in Seq(Halfwords) /\ ExploredInv
  BY <1>1, TypesFacts DEF Inv, FollowedInv, Exploration
<1>3. /\ ex'.mode = ex.mode /\ ex'.entry = ex.entry /\ ex'.judged = ex.judged /\ ex'.code = ex.code
      /\ ex'.seen = ex.seen /\ ex'.walking = TRUE /\ ex'.at = Last(ex.blocks) /\ ex'.blocks = Front(ex.blocks)
  BY <1>2 DEF NextBlock, Exploration
<1>4. Range(ex.blocks) = Range(Front(ex.blocks)) \cup {Last(ex.blocks)}
  BY <1>1, <1>2, RangeLast
<1>5. \A o : OldMap(o)' = OldMap(o)
  BY <1>1 DEF OldMap
<1>6. \A t, m : Queued(t, m)' <=> Queued(t, m)
  BY <1>1 DEF Queued
<1>7. /\ \A m, a : After(m, a)' = After(m, a)
      /\ \A t, m : Settled(t, m) => Settled(t, m)'
      /\ \A t, m : Awaited(t, m) => Awaited(t, m)'
      /\ ExploredInv' => FollowedInv'
  BY <1>1, <1>2, <1>3, <1>5, <1>6, ExploringFollowed
<1>8. ASSUME NEW t, NEW m
      PROVE  (Ahead(t, m) => Ahead(t, m)') /\ (Tried(t, m) => Tried(t, m)')
  BY <1>1, <1>3, <1>4 DEF Ahead, Tried
<1>9. ASSUME NEW s \in ex.seen PROVE Seen(s)'
  <2>1. s \in Halfwords /\ Seen(s)
    BY <1>2 DEF Exploration, ExploredInv
  <2> QED BY <1>1, <1>3, <2>1, SeenStays
<1>10. ex.seen = {} => ex'.at = ex.entry
  <2>1. ex.seen = {} => ex.blocks = <<ex.entry>>
    BY <1>1, <1>2 DEF ExploredInv
  <2>2. Last(<<ex.entry>>) = ex.entry
    BY DEF Last
  <2> QED BY <1>3, <2>1, <2>2
<1>11. ExploredInv'
  <2>1. \A a \in ex.code : \A to \in After(ex.mode, a) :
          Settled(to[1], to[2])' \/ Awaited(to[1], to[2])' \/ Tried(to[1], to[2])' \/ Ahead(to[1], to[2])'
    BY <1>2, <1>7, <1>8 DEF ExploredInv
  <2>2. \A a \in ex'.code : \A to \in After(ex.mode, a)' :
          Settled(to[1], to[2])' \/ Awaited(to[1], to[2])' \/ Tried(to[1], to[2])' \/ Ahead(to[1], to[2])'
    BY <2>1, <1>3, <1>7
  <2>3. NoTrial' = NoTrial
    BY DEF NoTrial
  <2>4. ~ex.judged => trial' = NoTrial
    BY <1>1, <1>2 DEF ExploredInv
  <2>5. /\ ex.seen = {} => ex.code = {} /\ (ex.judged => ex.mode \notin modes[ex.entry])
        /\ ex.seen # {} => ex.entry \in ex.seen
    BY <1>2 DEF ExploredInv
  <2>6. ex'.seen = {} => ex'.code = {} /\ (ex'.judged => ex'.mode \notin modes'[ex'.entry]) /\ ex'.at = ex'.entry
    BY <1>1, <1>3, <1>10, <2>5
  <2>7. /\ ex'.seen # {} => ex'.entry \in ex'.seen
        /\ \A s \in ex'.seen : Seen(s)'
    BY <1>3, <1>9, <2>5
  <2> QED BY <1>3, <2>2, <2>3, <2>4, <2>6, <2>7 DEF ExploredInv
<1> QED BY <1>7, <1>11

\* Where a path ends, and at what.
LEMMA StopFollowed ==
  ASSUME Inv, FollowedInv, round.number = 0, phase = "scan", Stop \/ Join
  PROVE  FollowedInv'
<1>1. /\ exploring /\ exploring' /\ ex.walking /\ phase' = phase /\ round' = round
      /\ program' = program /\ functions' = functions /\ rejected' = rejected /\ cuts' = cuts
      /\ map' = map /\ modes' = modes /\ queue' = queue /\ guesses' = guesses
      /\ trial'.before = trial.before /\ trial'.calls = trial.calls /\ trial'.pointers = trial.pointers
      /\ ~ex.judged => trial' = trial
  <2>1. CASE Stop
    BY <2>1 DEF Stop, marks, leads
  <2>2. CASE Join
    <3>1. trial \in Trial
      BY TypesFacts DEF Inv
    <3> QED BY <2>2, <3>1 DEF Join, Joins, marks, leads, Trial
  <2> QED BY <2>1, <2>2
<1>2. Types /\ ex \in Exploration /\ ExploredInv /\ ex.mode \in Modes /\ ex.entry \in Halfwords
      /\ ex.entry \notin DOMAIN functions
  BY <1>1, TypesFacts DEF Inv, FollowedInv, Exploration
<1>3. /\ ex'.mode = ex.mode /\ ex'.entry = ex.entry /\ ex'.judged = ex.judged /\ ex'.code = ex.code
      /\ ex'.seen = IF InText(ex.at) THEN ex.seen \cup {ex.at} ELSE ex.seen
      /\ ex'.walking = FALSE /\ ex'.blocks = ex.blocks
  BY <1>2 DEF Stop, Join, New, Exploration
<1>5. \A o : OldMap(o)' = OldMap(o)
  BY <1>1 DEF OldMap
<1>6. \A t, m : (Queued(t, m)' <=> Queued(t, m)) /\ (Tried(t, m)' <=> Tried(t, m))
  BY <1>1 DEF Queued, Tried
<1>7. /\ \A m, a : After(m, a)' = After(m, a)
      /\ \A t, m : Settled(t, m) => Settled(t, m)'
      /\ \A t, m : Awaited(t, m) => Awaited(t, m)'
      /\ ExploredInv' => FollowedInv'
  BY <1>1, <1>2, <1>3, <1>5, <1>6, ExploringFollowed
<1>8. ASSUME NEW t, NEW m, Ahead(t, m)
      PROVE  Ahead(t, m)' \/ Settled(t, m)
  BY <1>1, <1>3, <1>8 DEF Ahead, Settled
<1>9. ex.seen = {} => ex.at = ex.entry
  BY <1>1, <1>2 DEF ExploredInv
<1>10. ex'.seen # {} /\ ex.entry \in ex'.seen
  BY <1>2, <1>3, <1>9 DEF ExploredInv, InText
<1>11. ASSUME InText(ex.at), ex.at \notin ex.seen PROVE Seen(ex.at)
  <2>1. CASE Stop
    <3>1. cuts[ex.entry] = {}
      BY <1>2 DEF FollowedInv
    <3>2. map[ex.at] = "Literal" \/ ~Decodes
      BY <2>1, <1>11, <3>1 DEF Stop, New, Blocked
    <3>3. map[ex.at] = "Literal" => Loaded(ex.at)
      BY <1>11 DEF Inv, MarksAreHeld, InText
    <3> QED BY <3>2, <3>3 DEF Seen, Decodes, Decoded
  <2>2. CASE Join
    <3>1. ex.judged /\ ex.mode \in modes[ex.at]
      BY <2>2 DEF Join, Joins
    <3>2. ex.at # ex.entry
      BY <3>1, <1>2, <1>11 DEF ExploredInv
    <3>3. Holds(ex.mode, ex.at)
      BY <3>1, <1>11 DEF Inv, MarksAreHeld, InText
    <3> QED BY <3>2, <3>3 DEF Seen
  <2> QED BY <2>1, <2>2
<1>12. ASSUME NEW s \in ex'.seen PROVE Seen(s)'
  <2>1. s \in Halfwords /\ Seen(s)
    BY <1>2, <1>3, <1>11 DEF Exploration, ExploredInv, InText
  <2> QED BY <1>1, <1>3, <2>1, SeenStays
<1>13. ExploredInv'
  <2>1. \A a \in ex.code : \A to \in After(ex.mode, a) :
          Settled(to[1], to[2])' \/ Awaited(to[1], to[2])' \/ Tried(to[1], to[2])' \/ Ahead(to[1], to[2])'
    <3> SUFFICES ASSUME NEW a \in ex.code, NEW to \in After(ex.mode, a)
                 PROVE Settled(to[1], to[2])' \/ Awaited(to[1], to[2])' \/ Tried(to[1], to[2])' \/ Ahead(to[1], to[2])'
      OBVIOUS
    <3>1. Settled(to[1], to[2]) \/ Awaited(to[1], to[2]) \/ Tried(to[1], to[2]) \/ Ahead(to[1], to[2])
      BY <1>2 DEF ExploredInv
    <3> QED BY <3>1, <1>6, <1>7, <1>8
  <2>2. \A a \in ex'.code : \A to \in After(ex.mode, a)' :
          Settled(to[1], to[2])' \/ Awaited(to[1], to[2])' \/ Tried(to[1], to[2])' \/ Ahead(to[1], to[2])'
    BY <2>1, <1>3, <1>7
  <2>3. NoTrial' = NoTrial
    BY DEF NoTrial
  <2>4. ~ex.judged => trial' = NoTrial
    BY <1>1, <1>2 DEF ExploredInv
  <2> QED BY <1>1, <1>2, <1>3, <1>10, <1>12, <2>2, <2>3, <2>4 DEF ExploredInv
<1> QED BY <1>7, <1>13

\* An instruction is followed.
LEMMA StepFollowed ==
  ASSUME Inv, FollowedInv, round.number = 0, phase = "scan", Step
  PROVE  FollowedInv'
<1>t. Types
  BY DEF Inv
<1>s. Stepped
  BY <1>t, StepIs
<1>1. PICK blocks \in Seq(Halfwords), ends \in BOOLEAN, calls \in Seq(Leads), pointers \in Seq(Leads),
           literals \in SUBSET LiteralsOf(ex.mode, ex.at), new \in SUBSET Halfwords :
             StepWith(blocks, ends, calls, pointers, literals, new)
  BY <1>s DEF Stepped
<1>2. /\ exploring /\ exploring' /\ ex.walking /\ phase' = phase /\ round' = round /\ Walks
      /\ program' = program /\ functions' = functions /\ rejected' = rejected
      /\ Walk(blocks, ends) /\ Note(calls, pointers, literals, new) /\ Mark(Span(ex.mode, ex.at), literals)
  BY <1>1 DEF StepWith, Walks
<1>3. cuts' = cuts
  BY DEF Step, Plain, Call, Branch, TailCall, TailCalls, Jump, JumpTable, AddressTable, LoadPcLiteral, LiteralLoad
<1>4. ex \in Exploration /\ ExploredInv /\ ex.at \in Halfwords
  BY <1>2, <1>t, TypesFacts, ThisFacts DEF FollowedInv
<1>5. /\ ex'.mode = ex.mode /\ ex'.entry = ex.entry /\ ex'.judged = ex.judged
      /\ ex'.code = ex.code \cup {ex.at} /\ ex'.seen = ex.seen \cup {ex.at} /\ ex'.blocks = ex.blocks \o blocks
  BY <1>2, <1>4 DEF Walk, Exploration
<1>6. Range(ex.blocks) \subseteq Range(ex'.blocks)
  <2>1. Range(ex.blocks \o blocks) = Range(ex.blocks) \cup Range(blocks)
    BY <1>4, RangeConcatenation DEF Exploration
  <2> QED BY <1>5, <2>1
<1>7. \A o \in Halfwords : map[o] # "Unknown" => map'[o] # "Unknown"
  BY <1>2 DEF Mark
<1>8. ex.judged => \A o \in Halfwords : OldMap(o)' = OldMap(o)
  BY <1>t, <1>s, StepOld
<1>9. ~ex.judged => trial' = trial
  BY <1>2 DEF Note
<1>10. \A t, m : (Queued(t, m) => Queued(t, m)') /\ (Tried(t, m) => Tried(t, m)')
  BY <1>2, <1>t, NoteLeads
<1>11. /\ \A m, a : After(m, a)' = After(m, a)
       /\ \A t, m : Settled(t, m) => Settled(t, m)'
       /\ \A t, m : Awaited(t, m) => Awaited(t, m)'
       /\ ExploredInv' => FollowedInv'
  BY <1>2, <1>3, <1>5, <1>7, <1>8, <1>9, <1>10, <1>t, ExploringFollowed
<1>12. ASSUME NEW t, NEW m, Ahead(t, m) PROVE Ahead(t, m)'
  BY <1>5, <1>6, <1>12 DEF Ahead
<1>13. ex.seen = {} => ex.at = ex.entry
  BY <1>2, <1>4 DEF ExploredInv
<1>14. ex'.seen # {} /\ ex.entry \in ex'.seen
  BY <1>4, <1>5, <1>13 DEF ExploredInv
<1>15. ASSUME NEW s \in ex'.seen PROVE Seen(s)'
  <2>1. CASE s = ex.at
    BY <2>1, <1>5 DEF Seen
  <2>2. CASE s \in ex.seen
    <3>1. s \in Halfwords /\ Seen(s)
      BY <2>2, <1>4 DEF Exploration, ExploredInv
    <3> QED BY <1>2, <1>5, <1>7, <3>1, SeenStays
  <2> QED BY <2>1, <2>2, <1>5
<1>16. ASSUME NEW a \in ex'.code, NEW to \in After(ex.mode, a)
       PROVE  Settled(to[1], to[2])' \/ Awaited(to[1], to[2])' \/ Tried(to[1], to[2])' \/ Ahead(to[1], to[2])'
  <2>1. CASE a \in ex.code
    <3>1. Settled(to[1], to[2]) \/ Awaited(to[1], to[2]) \/ Tried(to[1], to[2]) \/ Ahead(to[1], to[2])
      BY <2>1, <1>4, <1>16 DEF ExploredInv
    <3> QED BY <3>1, <1>10, <1>11, <1>12
  <2>2. CASE a = ex.at /\ ~InText(to[1])
    <3>1. Settled(to[1], to[2])
      BY <2>2 DEF Settled
    <3> QED BY <3>1, <1>11
  <2>3. CASE a = ex.at /\ InText(to[1])
    <3>1. \/ to[2] = ex.mode /\ to[1] \in Range(ex'.blocks)
          \/ to[2] = ex.mode /\ ex'.walking /\ ex'.at = to[1]
          \/ to[1] \in DOMAIN functions
          \/ Queued(to[1], to[2])' \/ Tried(to[1], to[2])'
      <4>1. to \in After(ex.mode, ex.at)
        BY <2>3, <1>16
      <4> QED BY <2>3, <4>1, <1>t, StepAfter
    <3>2. to[1] \in DOMAIN functions => Settled(to[1], to[2])
      BY <1>t, KnownSettled DEF FollowedInv
    <3> QED BY <3>1, <3>2, <1>5, <1>11 DEF Ahead, Awaited
  <2> QED BY <2>1, <2>2, <2>3, <1>5
<1>17. ExploredInv'
  <2>1. \A a \in ex'.code : \A to \in After(ex.mode, a)' :
          Settled(to[1], to[2])' \/ Awaited(to[1], to[2])' \/ Tried(to[1], to[2])' \/ Ahead(to[1], to[2])'
    BY <1>5, <1>11, <1>16
  <2>2. NoTrial' = NoTrial
    BY DEF NoTrial
  <2>3. ~ex.judged => trial' = NoTrial
    BY <1>4, <1>9 DEF ExploredInv
  <2> QED BY <1>5, <1>14, <1>15, <2>1, <2>2, <2>3 DEF ExploredInv
<1> QED BY <1>11, <1>17

\* What was explored is settled where it led, once it is a function.
LEMMA InsertFollowed ==
  ASSUME Inv, FollowedInv, round.number = 0, phase = "scan", Keep \/ Accept
  PROVE  FollowedInv'
<1>1. /\ Explored /\ Insert /\ exploring /\ ~ex.walking /\ ex.blocks = <<>> /\ exploring' = FALSE /\ trial' = NoTrial
      /\ phase' = phase /\ round' = round /\ program' = program /\ map' = map /\ rejected' = rejected
  BY DEF Keep, Accept, Explored, Idling, marks
<1>2. Types /\ ex \in Exploration /\ ExploredInv /\ ex.mode \in Modes /\ ex.entry \in Halfwords
      /\ ex.entry \notin DOMAIN functions /\ DOMAIN functions \subseteq Halfwords
      /\ ex.code \subseteq DOMAIN program.code[ex.mode]
  BY <1>1, TypesFacts DEF Inv, FollowedInv, Exploration
<1>3. /\ DOMAIN functions' = DOMAIN functions \cup {ex.entry}
      /\ functions'[ex.entry].mode = ex.mode /\ functions'[ex.entry].code = ex.code
      /\ \A e \in DOMAIN functions : functions'[e] = functions[e]
  BY <1>1, <1>2 DEF Insert
<1>4. \A o : OldMap(o)' = map[o]
  BY <1>1 DEF OldMap, NoTrial
<1>5. \A o \in Halfwords : OldMap(o) # "Unknown" => OldMap(o)' # "Unknown"
  BY <1>4 DEF FollowedInv
<1>6. /\ \A m, a : After(m, a)' = After(m, a)
      /\ \A t, m : Settled(t, m) => Settled(t, m)'
      /\ \A e \in DOMAIN functions \cap Halfwords : Begun(e) => Begun(e)'
  BY <1>1, <1>3, <1>5, SettledStays
<1>7. \A m, a : Span(m, a)' = Span(m, a) /\ LiteralsOf(m, a)' = LiteralsOf(m, a)
  BY <1>1 DEF Span, LiteralsOf
<1>8. Halfwords' = Halfwords
  BY <1>1, HalfwordsSame
<1>9. ASSUME NEW s, Loaded(s) PROVE FunctionsLoad(s)'
  BY <1>1, <1>3, <1>7, <1>9, Zenon DEF Loaded, FunctionsLoad
<1>10. ASSUME NEW m, NEW s, Holds(m, s) PROVE FunctionsHold(m, s)'
  BY <1>1, <1>3, <1>7, <1>10, Zenon DEF Holds, FunctionsHold, FunctionHolds, HoldsAt
<1>11. \A t, m : Decoded(t, m)' <=> Decoded(t, m)
  BY <1>1 DEF Decoded
\* What was seen is settled.
<1>12. ASSUME NEW s \in ex.seen, NEW m, m = ex.mode PROVE Settled(s, m)'
  <2>1. s \in Halfwords /\ Seen(s)
    BY <1>2 DEF Exploration, ExploredInv
  <2>2. CASE s \in ex.code
    <3>1. s \in Span(ex.mode, s)
      BY <1>2, <2>2, CodeFacts DEF Types
    <3>2. Holds(ex.mode, s)
      BY <1>1, <2>2, <3>1 DEF Holds, HoldsAt
    <3> QED BY <3>2, <1>10, <1>12 DEF Settled
  <2>3. CASE map[s] # "Unknown" /\ Loaded(s)
    BY <2>3, <1>4, <1>9 DEF Settled
  <2>4. CASE ~Decoded(s, ex.mode)
    BY <2>4, <1>11, <1>12 DEF Settled
  <2>5. CASE Holds(ex.mode, s)
    BY <2>5, <1>10, <1>12 DEF Settled
  <2> QED BY <2>1, <2>2, <2>3, <2>4, <2>5 DEF Seen
\* So is where it begins.
<1>13. ex.entry \in ex.seen
  <2>1. ex.blocks # <<ex.entry>>
    BY <1>1
  <2> QED BY <1>1, <1>2, <2>1 DEF ExploredInv
<1>14. ASSUME NEW e, e = ex.entry PROVE Begun(e)'
  <2>1. Seen(ex.entry)
    BY <1>2, <1>13 DEF ExploredInv
  <2> QED BY <1>3, <1>4, <1>9, <1>11, <1>14, <2>1 DEF Seen, Begun
\* What waits still does, and what the guess leads to now.
<1>15. queue \in Seq(Leads) /\ guesses \in Seq(Leads) /\ trial.calls \in Seq(Leads) /\ trial.pointers \in Seq(Leads)
  BY <1>2, TypesFacts DEF Types, TypeOK, Leads
<1>16. ASSUME NEW t, NEW m PROVE Queued(t, m) \/ Tried(t, m) => Queued(t, m)'
  <2>1. CASE Accept
    <3>1. queue' = queue \o trial.calls /\ guesses' = guesses \o trial.pointers
      BY <2>1 DEF Accept, Follow
    <3> QED BY <3>1, <1>15, InConcat DEF Queued, Tried
  <2>2. CASE Keep
    <3>1. queue' = queue /\ guesses' = guesses /\ ~ex.judged
      BY <2>2 DEF Keep, leads
    <3>2. trial.calls = <<>> /\ trial.pointers = <<>>
      BY <3>1, <1>2 DEF ExploredInv, NoTrial
    <3>3. ~Tried(t, m)
      BY <3>2, InEmpty DEF Tried
    <3> QED BY <3>1, <3>3 DEF Queued
  <2> QED BY <2>1, <2>2
<1>17. ASSUME NEW t, NEW m, Awaited(t, m) PROVE Settled(t, m)' \/ Awaited(t, m)'
  BY <1>12, <1>13, <1>16, <1>17 DEF Awaited
<1>18. FunctionsFollowed'
  <2> SUFFICES ASSUME NEW e \in DOMAIN functions'
               PROVE  /\ Begun(e)'
                      /\ \A a \in functions'[e].code : \A to \in After(functions[e].mode, a)' :
                           Settled(to[1], to[2])' \/ Awaited(to[1], to[2])'
    BY <1>1 DEF FunctionsFollowed
  <2>1. CASE e \in DOMAIN functions
    <3>1. /\ Begun(e)
          /\ \A a \in functions[e].code : \A to \in After(functions[e].mode, a) :
               Settled(to[1], to[2]) \/ Awaited(to[1], to[2])
      BY <2>1 DEF FollowedInv, FunctionsFollowed
    <3>2. Begun(e)'
      BY <1>2, <1>6, <2>1, <3>1
    <3> QED BY <1>3, <1>6, <1>17, <2>1, <3>1, <3>2
  <2>2. CASE e = ex.entry
    <3>1. ASSUME NEW a \in ex.code, NEW to \in After(ex.mode, a)
          PROVE  Settled(to[1], to[2])' \/ Awaited(to[1], to[2])'
      <4>1. Settled(to[1], to[2]) \/ Awaited(to[1], to[2]) \/ Tried(to[1], to[2]) \/ Ahead(to[1], to[2])
        BY <1>2, <3>1 DEF ExploredInv
      <4>2. Ahead(to[1], to[2]) => to[2] = ex.mode /\ to[1] \in ex.seen
        BY <1>1 DEF Ahead, Range
      <4> QED BY <4>1, <4>2, <1>6, <1>12, <1>16, <1>17 DEF Awaited
    <3>2. Begun(e)'
      BY <1>14, <2>2
    <3> QED BY <1>3, <1>6, <2>2, <3>1, <3>2
  <2> QED BY <1>3, <2>1, <2>2
<1>19. \A a \in Halfwords : cuts'[a] # {} => a \in DOMAIN functions'
  <2>1. \A a \in Halfwords : a # ex.entry => cuts'[a] = cuts[a]
    BY <1>2, TypesFacts DEF Keep, Accept
  <2>2. \A a \in Halfwords : cuts[a] # {} => a \in DOMAIN functions
    BY DEF FollowedInv
  <2> QED BY <1>3, <2>1, <2>2
<1> QED BY <1>1, <1>4, <1>8, <1>18, <1>19 DEF FollowedInv

\* A guess that comes to nothing is settled.
LEMMA RejectFollowed ==
  ASSUME Inv, FollowedInv, round.number = 0, phase = "scan", Reject
  PROVE  FollowedInv'
<1>1. /\ exploring /\ exploring' = FALSE /\ trial' = NoTrial /\ queue' = queue /\ guesses' = guesses
      /\ phase' = phase /\ round' = round /\ program' = program /\ functions' = functions /\ cuts' = cuts
      /\ rejected' = rejected \cup {<<ex.entry, ex.mode>>}
      /\ map' = [o \in Halfwords |-> IF o \in DOMAIN trial.before THEN trial.before[o].map ELSE map[o]]
  BY DEF Reject, Explored, Idling, leads
<1>2. \A o \in Halfwords : map'[o] = OldMap(o) /\ OldMap(o)' = OldMap(o)
  BY <1>1 DEF OldMap, NoTrial
<1>3. \A t, m : Awaited(t, m) => Settled(t, m)' \/ Awaited(t, m)'
  BY <1>1 DEF Awaited, Queued, Settled
<1>4. FunctionsFollowed'
  BY <1>1, <1>2, <1>3, QuietFollowed DEF Inv, FollowedInv
<1>5. Halfwords' = Halfwords
  BY <1>1, HalfwordsSame
<1> QED BY <1>1, <1>2, <1>4, <1>5 DEF FollowedInv

\* Whatever is done, nothing that functions lead to is dropped.
LEMMA FollowedNext ==
  ASSUME Inv, Phases, LabelsInv, FollowedInv, [Next]_vars
  PROVE  FollowedInv'
<1>p. program' = program
  BY ProgramSame
<1>t. Types /\ round.number \in 0..4
  BY TypesFacts DEF Inv
<1>s. round.number = 0 => phase # "split" /\ (exploring => phase = "scan")
  BY DEF Phases, LabelsInv
<1>1. CASE Split \/ NextRound
  <2>1. round'.number = 1 \/ round'.number = round.number + 1
    BY <1>1 DEF Split, NextRound
  <2> QED BY <2>1, <1>t DEF FollowedInv
<1>2. CASE ExploreAgain \/ SplitDone
  <2>1. phase = "split" /\ round'.number = round.number
    <3>1. round \in [number : 0..4, huge : SUBSET Halfwords, left : SUBSET Halfwords]
      BY <1>t DEF Types
    <3> QED BY <3>1, <1>2 DEF ExploreAgain, SplitDone, RoundDone
  <2> QED BY <2>1, <1>s DEF FollowedInv
<1>3. CASE Next /\ ~(Split \/ NextRound \/ ExploreAgain \/ SplitDone)
  <2>1. round' = round
    <3>1. Step => round' = round
      BY DEF Step, Plain, Call, Branch, TailCall, Jump, JumpTable, AddressTable, LoadPcLiteral, LiteralLoad
    <3> QED BY <3>1, <1>3 DEF Next, Run, Skip, Refuse, Begin, Keep, Accept, Reject, NextBlock, Stop, Join, Scan,
                              NothingHuge, LabelJoins
  <2> SUFFICES ASSUME round.number = 0 PROVE FollowedInv'
    BY <2>1 DEF FollowedInv
  <2>2. CASE Skip \/ Refuse \/ Begin
    BY <1>s, <2>2, TakeFollowed
  <2>3. CASE NextBlock \/ Stop \/ Join \/ Step
    <3>1. exploring
      BY <2>3 DEF NextBlock, Stop, Join, Step, Plain, Call, Branch, TailCall, Jump, JumpTable, AddressTable,
                  LoadPcLiteral, LiteralLoad, Walks
    <3> QED BY <1>s, <2>3, <3>1, NextBlockFollowed, StopFollowed, StepFollowed
  <2>4. CASE Keep \/ Accept \/ Reject
    <3>1. exploring
      BY <2>4 DEF Keep, Accept, Reject, Explored
    <3> QED BY <1>s, <2>4, <3>1, InsertFollowed, RejectFollowed
  <2>5. CASE Scan \/ NothingHuge
    <3>1. /\ functions' = functions /\ map' = map /\ trial' = trial /\ cuts' = cuts /\ rejected' = rejected
          /\ ~exploring /\ exploring' = exploring /\ queue = <<>> /\ guesses = <<>> /\ phase = "scan"
      BY <2>5 DEF Scan, NothingHuge, Scanned, Idle, Waiting, marks, leads
    <3>2. \A t, m : ~Queued(t, m)
      BY <3>1, InEmpty DEF Queued
    <3> QED BY <3>1, <3>2, <1>p, <1>t, QuietInv
  <2>6. CASE LabelJoins
    <3>1. /\ phase = "label" /\ phase' = "done" /\ exploring' = exploring /\ map' = map /\ trial' = trial
          /\ rejected' = rejected
      BY <2>6 DEF LabelJoins, marks
    <3>2. ~exploring
      BY <3>1 DEF Phases
    <3>3. /\ DOMAIN functions' = DOMAIN functions
          /\ \A e \in DOMAIN functions :
               functions'[e].mode = functions[e].mode /\ functions'[e].code = functions[e].code
      BY <2>6, <1>t, LabelsStay
    <3>4. \A o : OldMap(o)' = OldMap(o)
      BY <3>1 DEF OldMap
    <3>5. FunctionsFollowed'
      BY <3>1, <3>3, <3>4, <1>p, <1>t, QuietFollowed DEF FollowedInv
    <3>6. Halfwords' = Halfwords
      BY <1>p, HalfwordsSame
    <3> QED BY <3>1, <3>2, <3>4, <3>5, <3>6 DEF FollowedInv
  <2> QED BY <1>3, <2>2, <2>3, <2>4, <2>5, <2>6 DEF Next, Run
<1>4. CASE UNCHANGED vars
  <2>1. /\ phase' = phase /\ queue' = queue /\ guesses' = guesses /\ functions' = functions /\ map' = map
        /\ modes' = modes /\ rejected' = rejected /\ cuts' = cuts /\ exploring' = exploring /\ ex' = ex
        /\ trial' = trial /\ round' = round
    BY <1>4 DEF vars
  <2> SUFFICES ASSUME round.number = 0 PROVE FollowedInv'
    BY <2>1 DEF FollowedInv
  <2>2. /\ \A o : OldMap(o)' = OldMap(o)
        /\ \A t, m : (Queued(t, m)' <=> Queued(t, m)) /\ (Tried(t, m)' <=> Tried(t, m))
                    /\ (Awaited(t, m)' <=> Awaited(t, m)) /\ (Ahead(t, m)' <=> Ahead(t, m))
    BY <2>1 DEF OldMap, Queued, Tried, Awaited, Ahead
  <2>3. CASE exploring
    <3>1. ExploredInv /\ ex \in Exploration
      BY <2>3, <1>t, TypesFacts DEF FollowedInv
    <3>2. /\ \A m, a : After(m, a)' = After(m, a)
          /\ \A t, m : Settled(t, m) => Settled(t, m)'
          /\ ExploredInv' => FollowedInv'
      BY <1>p, <1>s, <1>t, <2>1, <2>2, <2>3, ExploringFollowed
    <3>3. ASSUME NEW s \in ex.seen PROVE Seen(s)'
      <4>1. s \in Halfwords /\ Seen(s)
        BY <3>1 DEF Exploration, ExploredInv
      <4> QED BY <1>p, <2>1, <2>3, <4>1, SeenStays
    <3>4. \A a \in ex'.code : \A to \in After(ex.mode, a)' :
            Settled(to[1], to[2])' \/ Awaited(to[1], to[2])' \/ Tried(to[1], to[2])' \/ Ahead(to[1], to[2])'
      BY <2>1, <2>2, <3>1, <3>2 DEF ExploredInv
    <3>5. NoTrial' = NoTrial
      BY DEF NoTrial
    <3>6. /\ ~ex.judged => trial = NoTrial
          /\ ex.seen = {} =>
               /\ ex.code = {}
               /\ ex.judged => ex.mode \notin modes[ex.entry]
               /\ IF ex.walking THEN ex.at = ex.entry ELSE ex.blocks = <<ex.entry>>
          /\ ex.seen # {} => ex.entry \in ex.seen
      BY <3>1 DEF ExploredInv
    <3>7. ExploredInv'
      BY <2>1, <3>3, <3>4, <3>5, <3>6 DEF ExploredInv
    <3> QED BY <3>2, <3>7
  <2>4. CASE ~exploring
    <3>1. \A t, m : phase = "scan" /\ Queued(t, m) => Settled(t, m)' \/ (phase' = "scan" /\ Awaited(t, m)')
      BY <2>1, <2>2 DEF Awaited
    <3> QED BY <1>p, <1>t, <2>1, <2>4, <3>1, QuietInv
  <2> QED BY <2>3, <2>4
<1> QED BY <1>1, <1>2, <1>3, <1>4

LEMMA WholeNext ==
  ASSUME Inv, Phases, LabelsInv, WholeInv, [Next]_vars
  PROVE  WholeInv'
<1>p. program' = program
  BY ProgramSame
<1>h. Halfwords' = Halfwords
  BY <1>p, HalfwordsSame
<1>t. Types /\ round.number \in 0..4 /\ Inv'
  BY TypesFacts, NextInv DEF Inv
<1>s. round.number = 0 => phase # "split" /\ (exploring => phase = "scan")
  BY DEF Phases, LabelsInv
<1>1. CASE Split \/ NextRound
  <2>1. round'.number = 1 \/ round'.number = round.number + 1
    BY <1>1 DEF Split, NextRound
  <2> QED BY <2>1, <1>t DEF WholeInv
<1>2. CASE ExploreAgain \/ SplitDone
  <2>1. phase = "split" /\ round'.number = round.number
    <3>1. round \in [number : 0..4, huge : SUBSET Halfwords, left : SUBSET Halfwords]
      BY <1>t DEF Types
    <3> QED BY <3>1, <1>2 DEF ExploreAgain, SplitDone, RoundDone
  <2> QED BY <2>1, <1>s DEF WholeInv
<1>3. CASE phase' = "scan"
  BY <1>3, <1>t DEF Inv, MarksAreHeld, WholeInv, TypesFacts, Types, TypeOK
<1>4. CASE NothingHuge \/ LabelJoins \/ UNCHANGED vars
  <2>1. /\ round' = round /\ modes' = modes /\ exploring' = exploring /\ ex' = ex
        /\ DOMAIN functions' = DOMAIN functions
        /\ \A e \in DOMAIN functions : functions'[e].mode = functions[e].mode /\ functions'[e].code = functions[e].code
    <3>1. CASE NothingHuge \/ UNCHANGED vars
      BY <3>1 DEF NothingHuge, vars, marks
    <3>2. CASE LabelJoins
      BY <3>2, <1>t, LabelsStay DEF LabelJoins, marks
    <3> QED BY <3>1, <3>2, <1>4
  <2>2. \A m, a : Span(m, a)' = Span(m, a)
    BY <1>p DEF Span
  <2>3. ASSUME NEW m, NEW o, Holds(m, o) PROVE Holds(m, o)'
    BY <2>1, <2>2, <2>3, Zenon DEF Holds, FunctionHolds, HoldsAt
  <2> QED BY <1>h, <2>1, <2>3 DEF WholeInv
<1>5. CASE Step /\ phase' # "scan"
  <2>1. phase' = phase /\ exploring /\ round' = round
    BY <1>5 DEF Step, Plain, Call, Branch, TailCall, Jump, JumpTable, AddressTable, LoadPcLiteral, LiteralLoad, Walks
  <2> QED BY <1>5, <1>s, <2>1 DEF WholeInv
<1>6. CASE (Run \/ NextBlock \/ Stop \/ Join \/ Scan) /\ phase' # "scan"
  <2>1. phase' = phase /\ round' = round /\ (phase \in {"scan", "split"} \/ exploring)
    BY <1>6 DEF Run, Skip, Refuse, Begin, Keep, Accept, Reject, NextBlock, Stop, Join, Scan, TakeFirst, Idle, Explored
  <2> QED BY <1>6, <1>s, <2>1 DEF WholeInv
<1> QED BY <1>1, <1>2, <1>3, <1>4, <1>5, <1>6 DEF Next

\* Functions are only added.
LEMMA FunctionsStay ==
  ASSUME Types, [Next]_vars
  PROVE  DOMAIN functions \subseteq DOMAIN functions'
<1>1. ASSUME Step PROVE functions' = functions
  BY <1>1 DEF Step, Plain, Call, Branch, TailCall, Jump, JumpTable, AddressTable, LoadPcLiteral, LiteralLoad
<1>2. ASSUME Skip \/ Refuse \/ Begin \/ Reject \/ NextBlock \/ Stop \/ Join \/ Scan \/ NothingHuge \/ Split
             \/ ExploreAgain \/ NextRound \/ SplitDone \/ UNCHANGED vars
      PROVE  functions' = functions
  BY <1>2 DEF Skip, Refuse, Begin, Reject, NextBlock, Stop, Join, Scan, NothingHuge, Split, ExploreAgain,
              NextRound, SplitDone, vars
<1>3. ASSUME Keep \/ Accept PROVE DOMAIN functions \subseteq DOMAIN functions'
  BY <1>3 DEF Keep, Accept, Insert
<1>4. ASSUME LabelJoins PROVE DOMAIN functions' = DOMAIN functions
  BY <1>4 DEF LabelJoins
<1> QED BY <1>1, <1>2, <1>3, <1>4 DEF Next, Run

\* A lead that is sure waits until it is taken.
LEMMA TakeRange ==
  ASSUME Types, TakeFirst, NEW l, l \in Range(queue)
  PROVE  l = First \/ l \in Range(queue')
<1>1. queue \in Seq(Leads) /\ queue # <<>>
  BY TypesFacts DEF Range
<1>2. queue = <<Head(queue)>> \o Tail(queue) /\ Head(queue) \in Leads /\ Tail(queue) \in Seq(Leads)
  BY <1>1, HeadTailProperties
<1>3. Range(<<Head(queue)>> \o Tail(queue)) = Range(<<Head(queue)>>) \cup Range(Tail(queue))
  <2>1. <<Head(queue)>> \in Seq(Leads)
    BY <1>2
  <2> QED BY <1>2, <2>1, RangeConcatenation
<1>4. Range(<<Head(queue)>>) = {Head(queue)}
  BY DEF Range
<1>5. First = Head(queue) /\ queue' = Tail(queue)
  BY <1>1 DEF First, TakeFirst
<1> QED BY <1>2, <1>3, <1>4, <1>5

LEMMA CallsNext ==
  ASSUME Inv, Phases, CallsInv, [Next]_vars
  PROVE  CallsInv'
<1>p. program' = program
  BY ProgramSame
<1>t. /\ Types /\ queue \in Seq(Leads) /\ trial \in Trial /\ ex \in Exploration
      /\ \A i \in DOMAIN program.calls : program.calls[i].sure
  <2>1. Types
    BY DEF Inv
  <2>2. \A i \in DOMAIN program.calls : program.calls[i].sure
    BY <2>1 DEF Types, Program
  <2> QED BY <2>1, <2>2, TypesFacts
<1> SUFFICES ASSUME NEW i \in DOMAIN program.calls, NEW l, l = program.calls[i]
             PROVE  Known(l)' \/ (exploring' /\ ~ex'.judged /\ ex'.entry = l.address)
                      \/ (phase' = "scan" /\ l \in Range(queue'))
  BY <1>p DEF CallsInv
<1>l. l.sure
  BY <1>t
<1>1. CASE Known(l)
  BY <1>1, <1>t, FunctionsStay DEF Known
<1>2. CASE exploring /\ ~ex.judged /\ ex.entry = l.address
  <2>1. CASE Keep
    BY <1>2, <2>1 DEF Keep, Insert, Known
  <2>2. CASE Step
    <3>1. PICK blocks \in Seq(Halfwords), ends \in BOOLEAN, calls \in Seq(Leads), pointers \in Seq(Leads),
               literals \in SUBSET LiteralsOf(ex.mode, ex.at), new \in SUBSET Halfwords :
                 StepWith(blocks, ends, calls, pointers, literals, new)
      BY <1>t, <2>2, StepIs DEF Stepped
    <3>2. exploring' = exploring /\ ex'.judged = ex.judged /\ ex'.entry = ex.entry
      BY <3>1, <1>t DEF StepWith, Walk, Exploration
    <3> QED BY <1>2, <3>2
  <2>3. CASE NextBlock \/ Stop \/ Join \/ UNCHANGED vars
    <3>1. exploring' = exploring /\ ex'.judged = ex.judged /\ ex'.entry = ex.entry
      BY <2>3, <1>t DEF NextBlock, Stop, Join, vars, Exploration
    <3> QED BY <1>2, <3>1
  <2>4. ~(Skip \/ Refuse \/ Begin \/ Accept \/ Reject \/ Scan \/ NothingHuge \/ Split \/ ExploreAgain \/ NextRound
          \/ SplitDone \/ LabelJoins)
    BY <1>2 DEF Skip, Refuse, Begin, TakeFirst, Accept, Reject, Scan, NothingHuge, Split, Scanned, ExploreAgain,
                NextRound, SplitDone, RoundDone, Idle, LabelJoins, Phases
  <2> QED BY <2>1, <2>2, <2>3, <2>4 DEF Next, Run
<1>3. CASE phase = "scan" /\ l \in Range(queue)
  <2>0. queue # <<>>
    BY <1>3 DEF Range
  <2>1. CASE Skip \/ Refuse \/ Begin
    <3>1. TakeFirst /\ phase' = phase
      BY <2>1 DEF Skip, Refuse, Begin
    <3>2. CASE l # First
      BY <1>3, <1>t, <3>1, <3>2, TakeRange
    <3>3. CASE l = First /\ Skip
      BY <3>3 DEF Skip, Known
    <3>4. CASE l = First /\ Begin
      <4>1. ~Judged(First) /\ Explore(First.address, First.mode, First.sure, Judged(First))
        BY <1>l, <3>4 DEF Begin, Judged
      <4>2. exploring' = TRUE /\ ex'.entry = First.address /\ ex'.judged = Judged(First)
        BY <4>1 DEF Explore, Nowhere
      <4> QED BY <3>4, <4>1, <4>2
    <3>5. CASE l = First /\ Refuse
      BY <1>l, <3>5 DEF Refuse, Refused, Judged
    <3> QED BY <2>1, <3>2, <3>3, <3>4, <3>5
  <2>2. CASE Keep \/ Reject \/ NextBlock \/ Stop \/ Join \/ UNCHANGED vars
    <3>1. queue' = queue /\ phase' = phase
      BY <2>2 DEF Keep, Reject, NextBlock, Stop, Join, vars, leads
    <3> QED BY <1>3, <3>1
  <2>3. CASE Accept
    <3>1. queue' = queue \o trial.calls /\ phase' = phase /\ trial.calls \in Seq(Leads)
      BY <1>t, <2>3 DEF Accept, Follow, Trial
    <3>2. Range(queue \o trial.calls) = Range(queue) \cup Range(trial.calls)
      BY <1>t, <3>1, RangeConcatenation
    <3> QED BY <1>3, <3>1, <3>2
  <2>4. CASE Step
    <3>1. PICK blocks \in Seq(Halfwords), ends \in BOOLEAN, calls \in Seq(Leads), pointers \in Seq(Leads),
               literals \in SUBSET LiteralsOf(ex.mode, ex.at), new \in SUBSET Halfwords :
                 StepWith(blocks, ends, calls, pointers, literals, new)
      BY <1>t, <2>4, StepIs DEF Stepped
    <3>2. phase' = phase /\ (queue' = queue \/ queue' = queue \o calls)
      BY <3>1 DEF StepWith, Note, Follow, leads
    <3>3. Range(queue \o calls) = Range(queue) \cup Range(calls)
      BY <1>t, RangeConcatenation
    <3> QED BY <1>3, <3>2, <3>3
  <2>5. ~(Scan \/ NothingHuge \/ Split \/ ExploreAgain \/ NextRound \/ SplitDone \/ LabelJoins)
    BY <1>3, <2>0 DEF Scan, NothingHuge, Split, Scanned, Waiting, ExploreAgain, NextRound, SplitDone, RoundDone, LabelJoins
  <2> QED BY <2>1, <2>2, <2>3, <2>4, <2>5 DEF Next, Run
<1> QED BY <1>1, <1>2, <1>3 DEF CallsInv

-----------------------------------------------------------------------------
\* Where a function begins it always has a label.
LEMMA EntriesNext ==
  ASSUME Inv, EntriesInv, [Next]_vars
  PROVE  EntriesInv'
<1>t. Types /\ ex \in Exploration
  BY TypesFacts DEF Inv
<1>1. CASE Skip \/ Refuse \/ Scan \/ NothingHuge \/ Split \/ NextRound \/ SplitDone \/ UNCHANGED vars
  <2>1. functions' = functions /\ exploring' = exploring /\ ex' = ex
    BY <1>1 DEF Skip, Refuse, Scan, NothingHuge, Split, NextRound, SplitDone, vars
  <2> QED BY <2>1 DEF EntriesInv
<1>2. CASE Begin \/ ExploreAgain
  <2>1. functions' = functions
    BY <1>2 DEF Begin, ExploreAgain
  <2>2. \E e, mode, sure, judged : Explore(e, mode, sure, judged)
    BY <1>2 DEF Begin, ExploreAgain
  <2>3. PICK e : ex'.entry = e /\ ex'.blocks = <<e>>
    BY <2>2 DEF Explore, Nowhere
  <2>4. e \in Range(<<e>>)
    BY DEF Range
  <2> QED BY <2>1, <2>3, <2>4 DEF EntriesInv
<1>3. CASE Stop \/ Join
  <2>1. /\ functions' = functions /\ exploring' = exploring
        /\ ex'.entry = ex.entry /\ ex'.labels = ex.labels /\ ex'.blocks = ex.blocks
    BY <1>3, <1>t DEF Stop, Join, Exploration
  <2> QED BY <2>1 DEF EntriesInv
<1>4. CASE NextBlock
  <2>1. /\ functions' = functions /\ exploring' = exploring /\ ex'.entry = ex.entry
        /\ ex'.labels = ex.labels \cup {Last(ex.blocks)} /\ ex'.blocks = Front(ex.blocks)
    BY <1>4, <1>t DEF NextBlock, Exploration
  <2>2. Range(ex.blocks) = Range(Front(ex.blocks)) \cup {Last(ex.blocks)}
    <3>1. ex.blocks \in Seq(Halfwords) /\ ex.blocks # <<>>
      BY <1>4, <1>t DEF NextBlock, Exploration
    <3> QED BY <3>1, RangeLast
  <2> QED BY <2>1, <2>2 DEF EntriesInv
<1>5. CASE Step
  <2>1. PICK blocks \in Seq(Halfwords), ends \in BOOLEAN :
          Walk(blocks, ends) /\ functions' = functions /\ exploring' = exploring
    <3>1. Stepped
      BY <1>5, <1>t, StepIs
    <3> QED BY <3>1 DEF Stepped, StepWith
  <2>2. /\ ex'.entry = ex.entry /\ ex'.blocks = ex.blocks \o blocks /\ ex.labels \subseteq ex'.labels
    BY <2>1, <1>t DEF Walk, Exploration
  <2>3. Range(ex.blocks \o blocks) = Range(ex.blocks) \cup Range(blocks)
    <3>1. ex.blocks \in Seq(Halfwords)
      BY <1>t DEF Exploration
    <3> QED BY <3>1, RangeConcatenation
  <2> QED BY <2>1, <2>2, <2>3 DEF EntriesInv
<1>6. CASE Keep \/ Accept
  <2>1. Explored /\ Insert /\ ~exploring'
    BY <1>6 DEF Keep, Accept, Idling
  <2>2. ex.entry \in ex.labels
    BY <2>1 DEF Explored, EntriesInv, Range
  <2>3. /\ DOMAIN functions' = DOMAIN functions \cup {ex.entry}
        /\ functions'[ex.entry] = [mode |-> ex.mode, code |-> ex.code, labels |-> ex.labels \cap ex.code]
        /\ \A e \in DOMAIN functions : e # ex.entry => functions'[e] = functions[e]
    BY <2>1 DEF Insert
  <2>4. ASSUME NEW e \in DOMAIN functions', e \in functions'[e].code PROVE e \in functions'[e].labels
    BY <2>2, <2>3, <2>4 DEF EntriesInv
  <2> QED BY <2>1, <2>4 DEF EntriesInv
<1>7. CASE Reject
  <2>1. functions' = functions /\ ~exploring'
    BY <1>7 DEF Reject, Idling
  <2> QED BY <2>1 DEF EntriesInv
<1>8. CASE LabelJoins
  <2>1. exploring' = exploring /\ ex' = ex /\ DOMAIN functions' = DOMAIN functions
    BY <1>8 DEF LabelJoins
  <2>2. ASSUME NEW e \in DOMAIN functions' PROVE functions'[e].code = functions[e].code /\ functions[e].labels \subseteq functions'[e].labels
    BY <1>8, <1>t, LabelsStay
  <2> QED BY <2>1, <2>2 DEF EntriesInv
<1> QED BY <1>1, <1>2, <1>3, <1>4, <1>5, <1>6, <1>7, <1>8 DEF Next, Run

LEMMA StartAll == Program(program) /\ Start => AllInv
<1> SUFFICES ASSUME Program(program), Start PROVE AllInv
  OBVIOUS
<1>1. Inv
  BY StartInv
<1>2. /\ phase = "scan" /\ DOMAIN functions = {} /\ joins = {} /\ ~exploring /\ trial = NoTrial
      /\ queue = program.calls /\ \A e \in Halfwords : cuts[e] = {} /\ modes[e] = {}
  BY DEF Start
<1>3. JoinsInv
  BY <1>2 DEF JoinsInv, JoinsAreLabels, NoTrial
<1>4. LabelsInv
  BY <1>2 DEF LabelsInv, LabelledWith
<1>5. FollowedInv
  BY <1>2 DEF FollowedInv, FunctionsFollowed, OldMap, NoTrial
<1>6. CallsInv
  BY <1>2 DEF CallsInv, Range
<1>7. WholeInv
  BY <1>2 DEF WholeInv
<1>8. EntriesInv
  BY <1>2 DEF EntriesInv
<1> QED BY <1>1, <1>2, <1>3, <1>4, <1>5, <1>6, <1>7, <1>8 DEF AllInv, Phases

LEMMA InitAll == Init => AllInv
BY StartAll, DiscoverAssumption DEF Init, DiscoverAssumption

LEMMA NextAll == AllInv /\ [Next]_vars => AllInv'
BY NextInv, PhasesNext, JoinsNext, LabelsNext, FollowedNext, CallsNext, WholeNext, EntriesNext DEF AllInv

LEMMA PathsHold == AllInv => (round.number = 0 => PathsAreFollowed)
<1> SUFFICES ASSUME AllInv, round.number = 0, phase = "done",
                    NEW e \in DOMAIN functions, NEW a \in functions[e].code, NEW to \in After(functions[e].mode, a),
                    InText(to[1])
             PROVE  Answered(to[1], to[2])
  BY DEF PathsAreFollowed
<1>1. Settled(to[1], to[2])
  BY DEF AllInv, FollowedInv, FunctionsFollowed
<1>2. ~exploring /\ trial = NoTrial
  <2>1. ~exploring
    BY DEF AllInv, AllInv, Phases
  <2> QED BY <2>1, TypesFacts DEF AllInv, AllInv, Inv
<1>3. to[1] \in Halfwords /\ map \in [Halfwords -> Bytes]
  BY TypesFacts DEF InText, AllInv, AllInv, Inv
<1>4. CASE FunctionsHold(to[2], to[1])
  BY <1>4 DEF FunctionsHold, Answered
<1>5. CASE <<to[1], to[2]>> \in rejected
  <2>1. CASE to[2] \in modes[to[1]]
    <3>1. Holds(to[2], to[1])
      BY <1>3, <2>1 DEF AllInv, WholeInv
    <3> QED BY <1>2, <3>1 DEF Holds, Answered
  <2> QED BY <1>5, <2>1 DEF Answered
<1>6. CASE OldMap(to[1]) # "Unknown" /\ FunctionsLoad(to[1])
  <2>1. OldMap(to[1]) = map[to[1]]
    BY <1>2 DEF OldMap, NoTrial
  <2>2. Loaded(to[1])
    BY <1>6 DEF FunctionsLoad, Loaded
  <2>3. map[to[1]] = "Code" \/ map[to[1]] = "Literal"
    BY <1>3, <1>6, <2>1 DEF Bytes
  <2> QED BY <2>2, <2>3 DEF IsData, Answered
<1> QED BY <1>1, <1>4, <1>5, <1>6 DEF Settled, Answered

\* The types of run's and explore's state hold whatever the program is.
THEOREM TypeCorrect == Spec => []TypeOK
<1>1. AllInv => TypeOK
  BY DEF AllInv, Inv, Types
<1> QED BY InitAll, NextAll, <1>1, PTL DEF Spec

\* Whatever the program and the thresholds, what functions hold is marked as code
\* in their mode, and until functions are split nothing else is: undoing a guess
\* that comes to nothing leaves no mark of it and takes none of another function's.
THEOREM MarksCorrect == Spec => []MarksAreHeld
<1>1. AllInv => MarksAreHeld
  BY DEF AllInv, Inv
<1> QED BY InitAll, NextAll, <1>1, PTL DEF Spec

\* Whatever a guess joins, through trials that come to nothing, functions that are
\* split and pieces that take over where to stop, is a label of each function that
\* holds it, where the code is decoded in one mode.
THEOREM JoinsCorrect == Spec => []JoinsAreLabels
<1>1. AllInv => JoinsAreLabels
  BY DEF AllInv, JoinsInv
<1> QED BY InitAll, NextAll, <1>1, PTL DEF Spec

\* In code that is not split, wherever the code of a function leads, by falling
\* through, a branch, a call or a table, through guesses that are tried, refused and
\* taken back, is in some function, unless it was found not to be code.
THEOREM PathsCorrect == Spec => [](round.number = 0 => PathsAreFollowed)
BY InitAll, NextAll, PathsHold, PTL DEF Spec
=============================================================================
