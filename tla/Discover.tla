------------------------------ MODULE Discover ------------------------------
(***************************************************************************)
(* How src/src/discover.rs finds the code in a program: the leads it       *)
(* follows, the guesses it tries and takes back, the gaps it scans, and    *)
(* the huge functions it explores again to split them.                     *)
(*                                                                         *)
(* The text is halfwords from 0, and what decode makes of each of them in  *)
(* either mode, and what code address the word at each holds, is part of   *)
(* the program.  An action is one round of a loop; in explore that is one  *)
(* instruction.  What exploring counts is left out, nothing depends on it. *)
(***************************************************************************)
EXTENDS Integers, FiniteSets, SequencesExt

CONSTANTS
  Programs,         \* the programs to find the code in
  Huge, Far,        \* HUGE and FAR
  JudgedArm, JudgedThumb, MostConditional, ArmStart, ThumbFlowWithin

Modes == {"Arm", "Thumb"}
Other(mode) == IF mode = "Arm" THEN "Thumb" ELSE "Arm"

\* "Push" is what flow other has that pushes registers.
Flows == {"Branch", "CallOtherMode", "BranchRegister", "Return", "JumpTable", "AddressTable",
          "IndirectJump", "LoadPcLiteral", "LiteralLoad", "Svc", "Undefined", "Push", "Other"}

\* The target is a literal's address too; width is a literal's size, or how many
\* addresses the compare before an address table says it has.
Instruction ==
  [flow : Flows, size : {1, 2}, conditional : BOOLEAN, link : BOOLEAN, target : Int, width : Nat]

Bytes == {"Unknown", "Code", "Literal"}

\* A lead into a text that ends at end.
Lead(end) == [address : 0..end - 1, mode : Modes, sure : BOOLEAN]

\* What a program is: code has the instructions there is enough text for,
\* points the address in the words that may hold one, and the mode its low bits
\* say, slots the words relocations name, if there are any (relocated), and
\* calls and pointers what code_pointer makes of the seeds, those in the text.
Program(p) ==
  /\ p.end \in Nat
  /\ \A m \in Modes : \A a \in DOMAIN p.code[m] :
       /\ p.code[m][a] \in Instruction
       /\ p.code[m][a].link => p.code[m][a].flow \in {"Branch", "BranchRegister"}
       /\ a \in Nat /\ a + p.code[m][a].size <= p.end
  /\ DOMAIN p.code = Modes
  /\ \A a \in DOMAIN p.code["Arm"] : a % 2 = 0 /\ p.code["Arm"][a].size = 2
  /\ \A a \in DOMAIN p.code["Thumb"] :
       p.code["Thumb"][a].flow \notin {"JumpTable", "AddressTable", "LoadPcLiteral"}
  /\ \A a \in DOMAIN p.points : p.points[a] \in Int \X (Modes \cup {"Neither"})
  /\ p.relocated \in BOOLEAN /\ p.slots \subseteq Nat
  /\ p.calls \in Seq(Lead(p.end)) /\ p.pointers \in Seq(Lead(p.end))
  /\ \A i \in 1..Len(p.calls) : p.calls[i].sure
  /\ \A i \in 1..Len(p.pointers) : ~p.pointers[i].sure

ASSUME DiscoverAssumption ==
  /\ \A p \in Programs : Program(p)
  /\ {Huge, Far, JudgedArm, JudgedThumb, MostConditional, ArmStart, ThumbFlowWithin} \subseteq Nat

VARIABLES
  program,
  phase,      \* "scan", "split", "label" and "done"
  queue, guesses,
  functions,  \* those found, by entry
  map, modes, \* what each halfword is, and the modes it was decoded in
  entries,    \* those split_huge cuts at
  rejected, guessed, joins, cuts,
  exploring,  \* whether a function is being explored
  ex,         \* explore: the lead, where it is and what it has found
  trial,      \* what a judged guess did
  round       \* of split_huge: its number, its huge functions and those left

marks == <<map, modes>>
leads == <<queue, guesses>>
vars == <<program, phase, queue, guesses, functions, map, modes, entries, rejected,
          guessed, joins, cuts, exploring, ex, trial, round>>

Halfwords == 0..program.end - 1
InText(a) == a \in Halfwords
Span(mode, a) == a..a + program.code[mode][a].size - 1

NoTrial == [before |-> <<>>, calls |-> <<>>, pointers |-> <<>>, joins |-> {}, entries |-> {}]
NoRound == [number |-> 0, huge |-> {}, left |-> {}]
Nowhere == [entry |-> 0, mode |-> "Arm", sure |-> TRUE, judged |-> FALSE, walking |-> FALSE,
            at |-> 0, blocks |-> <<>>, seen |-> {}, code |-> {}, labels |-> {}]

MayPoint(a) == program.relocated => a \in program.slots
Known(l) == l.address \in DOMAIN functions

\* A sequence of the numbers in S in their order, the only one.
InOrder(s) == \A i, j \in DOMAIN s : i < j => s[i] < s[j]
Sorted(S) == {s \in [1..Cardinality(S) -> S] : InOrder(s)}

\* follow, for several leads: pointers wait behind everything surer.
Follow(calls, pointers) ==
  /\ queue' = queue \o calls
  /\ guesses' = guesses \o pointers
-----------------------------------------------------------------------------
\* analyze begins with nothing known of the program.
Start ==
  /\ phase = "scan"
  /\ queue = program.calls /\ guesses = program.pointers
  /\ functions = <<>>
  /\ map = [o \in Halfwords |->
              IF program.relocated /\ {o, o - 1} \cap program.slots # {} THEN "Literal" ELSE "Unknown"]
  /\ modes = [o \in Halfwords |-> {}]
  /\ entries = {} /\ rejected = {} /\ guessed = {} /\ joins = {}
  /\ cuts = [a \in Halfwords |-> {}]
  /\ exploring = FALSE /\ ex = Nowhere /\ trial = NoTrial
  /\ round = NoRound

Init == program \in Programs /\ Start

\* The lead run takes next.
Idle == phase \in {"scan", "split"} /\ ~exploring /\ round.left = {}
Waiting == queue # <<>> \/ guesses # <<>>
First == IF queue # <<>> THEN Head(queue) ELSE Head(guesses)
TakeFirst ==
  /\ Idle /\ Waiting
  /\ IF queue # <<>> THEN queue' = Tail(queue) /\ UNCHANGED guesses
                     ELSE guesses' = Tail(guesses) /\ UNCHANGED queue

Held(l) == l.mode \in modes[l.address]

\* Mutant: a piece is judged as well.
JudgedPiece(l) == ~l.sure

\* A guess is judged, but not a piece of what is split.
Judged(l) == ~l.sure /\ l.address \notin entries
Refused(l) ==
  Judged(l) /\ (Held(l) \/ map[l.address] = "Literal" \/ <<l.address, l.mode>> \in rejected)

Skip ==
  /\ TakeFirst
  /\ Known(First)
  /\ UNCHANGED <<program, phase, functions, marks, entries, rejected, guessed, joins, cuts,
                 exploring, ex, trial, round>>

Refuse ==
  /\ TakeFirst
  /\ ~Known(First) /\ Refused(First)
  /\ joins' = joins \cup IF Held(First) THEN {<<First.address, First.mode>>} ELSE {}
  /\ rejected' = rejected \cup {<<First.address, First.mode>>}
  /\ UNCHANGED <<program, phase, functions, marks, entries, guessed, cuts, exploring, ex, trial, round>>

Explore(entry, mode, sure, judged) ==
  /\ exploring' = TRUE
  /\ ex' = [Nowhere EXCEPT !.entry = entry, !.mode = mode, !.sure = sure, !.judged = judged,
                           !.blocks = <<entry>>]
  /\ trial' = NoTrial

Begin ==
  /\ TakeFirst
  /\ ~Known(First) /\ ~Refused(First)
  /\ Explore(First.address, First.mode, First.sure, Judged(First))
  /\ UNCHANGED <<program, phase, functions, marks, entries, rejected, guessed, joins, cuts, round>>
-----------------------------------------------------------------------------
(* explore                                                                 *)

NextBlock ==
  /\ exploring /\ ~ex.walking /\ ex.blocks # <<>>
  /\ ex' = [ex EXCEPT !.walking = TRUE, !.at = Last(ex.blocks), !.blocks = Front(ex.blocks),
                      !.labels = @ \cup {Last(ex.blocks)}]
  /\ UNCHANGED <<program, phase, leads, functions, marks, entries, rejected, guessed, joins,
                 cuts, exploring, trial, round>>

\* Where a path goes no further: the end of the text, what this function has
\* been at, data, where it was cut, and what does not decode.
New == InText(ex.at) /\ ex.at \notin ex.seen
Blocked == map[ex.at] = "Literal" \/ ex.at \in cuts[ex.entry]
Joins == ex.judged /\ ex.mode \in modes[ex.at] /\ ex.at \notin ex.code
Decodes ==
  /\ ex.at \in DOMAIN program.code[ex.mode]
  /\ program.code[ex.mode][ex.at].flow # "Undefined"

Stop ==
  /\ exploring /\ ex.walking
  /\ New => Blocked \/ (~Joins /\ ~Decodes)
  /\ ex' = [ex EXCEPT !.walking = FALSE, !.seen = IF InText(ex.at) THEN @ \cup {ex.at} ELSE @]
  /\ UNCHANGED <<program, phase, leads, functions, marks, entries, rejected, guessed, joins,
                 cuts, exploring, trial, round>>

\* A guess that runs into what another function holds joins it.
Join ==
  /\ exploring /\ ex.walking
  /\ New /\ ~Blocked /\ Joins
  /\ ex' = [ex EXCEPT !.walking = FALSE, !.seen = @ \cup {ex.at}]
  /\ trial' = [trial EXCEPT !.joins = @ \cup {<<ex.at, ex.mode>>}]
  /\ UNCHANGED <<program, phase, leads, functions, marks, entries, rejected, guessed, joins,
                 cuts, exploring, round>>

This == program.code[ex.mode][ex.at]

\* Where an instruction leads: nowhere, or to a function that is not known yet.
Unfound(address) == InText(address) /\ address \notin DOMAIN functions
LeadTo(address, mode, sure) ==
  IF Unfound(address) THEN <<[address |-> address, mode |-> mode, sure |-> sure]>> ELSE <<>>

\* call, and code_pointer of the word at a.
CallTo(address, mode) == LeadTo(address, mode, ex.sure)
Pointer(a) ==
  IF a + 1 < program.end /\ MayPoint(a) /\ a \in DOMAIN program.points /\ program.points[a][2] \in Modes
  THEN LeadTo(program.points[a][1], program.points[a][2], FALSE) ELSE <<>>

\* Marks, where code wins over a literal, and what they were before the trial,
\* which is what undoing them in reverse order comes to.
Mark(code, literals) ==
  /\ map' = [o \in Halfwords |->
               IF o \in code THEN "Code"
               ELSE IF o \in literals /\ map[o] # "Code" THEN "Literal" ELSE map[o]]
  /\ modes' = [o \in Halfwords |-> IF o \in code THEN modes[o] \cup {ex.mode} ELSE modes[o]]

\* Mutant: undone in the order it was marked.
BeforeInOrder(touched) ==
  [o \in DOMAIN trial.before \cup (touched \cap Halfwords) |->
     IF o \in touched THEN [map |-> map[o], modes |-> modes[o]] ELSE trial.before[o]]

Before(touched) ==
  [o \in DOMAIN trial.before \cup (touched \cap Halfwords) |->
     IF o \in DOMAIN trial.before THEN trial.before[o] ELSE [map |-> map[o], modes |-> modes[o]]]

\* lead: what a guess leads to waits for the guess to turn out to be code.
Note(calls, pointers, literals, newEntries) ==
  IF ex.judged
  THEN /\ trial' = [trial EXCEPT !.before = Before(Span(ex.mode, ex.at) \cup literals),
                                 !.calls = @ \o calls, !.pointers = @ \o pointers,
                                 !.entries = @ \cup newEntries]
       /\ UNCHANGED leads
  ELSE Follow(calls, pointers) /\ UNCHANGED trial

Walks == exploring /\ ex.walking /\ New /\ ~Blocked /\ ~Joins /\ Decodes

\* Execution comes back after a call or an svc.
Returns(i) == i.link \/ i.flow \in {"CallOtherMode", "Svc"}

\* The instruction is the function's, and the path goes on unless it ends.
Walk(blocks, ends) ==
  ex' = [ex EXCEPT !.walking = ~ends, !.at = @ + This.size, !.blocks = @ \o blocks,
                   !.seen = @ \cup {ex.at}, !.code = @ \cup {ex.at},
                   !.labels = @ \cup IF Returns(This) THEN {ex.at + This.size} ELSE {}]

Plain ==
  /\ Walks /\ This.flow \in {"Svc", "Push", "Other"}
  /\ Mark(Span(ex.mode, ex.at), {})
  /\ Note(<<>>, <<>>, {}, {})
  /\ Walk(<<>>, FALSE)
  /\ UNCHANGED <<program, phase, functions, entries, rejected, guessed, joins, cuts, exploring, round>>

Call ==
  /\ Walks
  /\ This.flow = "CallOtherMode" \/ (This.flow = "Branch" /\ This.link)
  /\ Mark(Span(ex.mode, ex.at), {})
  /\ Note(CallTo(This.target, IF This.flow = "Branch" THEN ex.mode ELSE Other(ex.mode)), <<>>, {}, {})
  /\ Walk(<<>>, FALSE)
  /\ UNCHANGED <<program, phase, functions, entries, rejected, guessed, joins, cuts, exploring, round>>

\* Which branches of a huge function are tail calls.
IsFar == This.target < ex.entry \/ This.target - ex.at > Far \/ ex.at - This.target > Far
TailCalls == phase = "split" /\ This.target # ex.entry /\ (This.target \in entries \/ IsFar)

Branch ==
  /\ Walks /\ This.flow = "Branch" /\ ~This.link /\ ~TailCalls
  /\ Mark(Span(ex.mode, ex.at), {})
  /\ Note(<<>>, <<>>, {}, {})
  /\ Walk(IF InText(This.target) THEN <<This.target>> ELSE <<>>, ~This.conditional)
  /\ UNCHANGED <<program, phase, functions, entries, rejected, guessed, joins, cuts, exploring, round>>

\* A piece stops where the function it was cut from does.
TailCall ==
  /\ Walks /\ This.flow = "Branch" /\ ~This.link /\ TailCalls
  /\ Mark(Span(ex.mode, ex.at), {})
  /\ entries' = IF InText(This.target) THEN entries \cup {This.target} ELSE entries
  /\ cuts' = IF InText(This.target) THEN [cuts EXCEPT ![This.target] = @ \cup cuts[ex.entry]] ELSE cuts
  /\ Note(CallTo(This.target, ex.mode), <<>>, {}, entries' \ entries)
  /\ Walk(<<>>, ~This.conditional)
  /\ UNCHANGED <<program, phase, functions, rejected, guessed, joins, exploring, round>>

Jump ==
  /\ Walks /\ This.flow \in {"BranchRegister", "Return", "IndirectJump"}
  /\ Mark(Span(ex.mode, ex.at), {})
  /\ Note(<<>>, <<>>, {}, {})
  /\ Walk(<<>>, ~This.conditional /\ ~This.link)
  /\ UNCHANGED <<program, phase, functions, entries, rejected, guessed, joins, cuts, exploring, round>>

IsCase(a) ==
  /\ a \in DOMAIN program.code["Arm"]
  /\ LET i == program.code["Arm"][a] IN i.flow = "Branch" /\ ~i.link /\ ~i.conditional

\* branch_table: the cases are branches one after another.
JumpTable ==
  /\ Walks /\ This.flow = "JumpTable"
  /\ Mark(Span(ex.mode, ex.at), {})
  /\ Note(<<>>, <<>>, {}, {})
  /\ \E n \in 0..program.end :
       /\ \A k \in 1..n : IsCase(ex.at + 2 * k)
       /\ ~IsCase(ex.at + 2 * (n + 1))
       /\ Walk([k \in 1..n |-> ex.at + 2 * k], TRUE)
  /\ UNCHANGED <<program, phase, functions, entries, rejected, guessed, joins, cuts, exploring, round>>

IsAddress(a) ==
  /\ a + 1 < program.end
  /\ a \in DOMAIN program.points /\ InText(program.points[a][1])
  /\ MayPoint(a)

\* address_table: ARM addresses are cases, Thumb ones pointers.
AddressTable ==
  /\ Walks /\ This.flow = "AddressTable"
  /\ \E n \in 0..This.width :
       LET table == ex.at + 4
           slots(mode) == {a \in {table + 2 * k : k \in 0..n - 1} : program.points[a][2] = mode}
           literals == table..table + 2 * n - 1
       IN /\ \A k \in 0..n - 1 : IsAddress(table + 2 * k)
          /\ n = This.width \/ ~IsAddress(table + 2 * n)
          /\ Mark(Span(ex.mode, ex.at), literals)
          /\ \E arm \in Sorted(slots("Arm")) :
               Walk([k \in DOMAIN arm |-> program.points[arm[k]][1]], ~This.conditional)
          /\ \E thumb \in Sorted({a \in slots("Thumb") : Unfound(program.points[a][1])}) :
               Note(<<>>, [k \in DOMAIN thumb |-> [address |-> program.points[thumb[k]][1],
                                                 mode |-> "Thumb", sure |-> FALSE]], literals, {})
  /\ UNCHANGED <<program, phase, functions, entries, rejected, guessed, joins, cuts, exploring, round>>

LoadPcLiteral ==
  /\ Walks /\ This.flow = "LoadPcLiteral"
  /\ LET literals == This.target..This.target + 1
     IN Mark(Span(ex.mode, ex.at), literals) /\ Note(<<>>, Pointer(This.target), literals, {})
  /\ Walk(<<>>, ~This.conditional)
  /\ UNCHANGED <<program, phase, functions, entries, rejected, guessed, joins, cuts, exploring, round>>

\* A load from something decoded as code already, itself too, is left alone.
LiteralLoad ==
  /\ Walks /\ This.flow = "LiteralLoad"
  /\ LET data == InText(This.target) /\ map[This.target] # "Code"
                 /\ This.target \notin Span(ex.mode, ex.at)
         literals == IF data THEN This.target..This.target + This.width - 1 ELSE {}
     IN /\ Mark(Span(ex.mode, ex.at), literals)
        /\ Note(<<>>, IF data /\ This.width = 2 THEN Pointer(This.target) ELSE <<>>, literals, {})
  /\ Walk(<<>>, FALSE)
  /\ UNCHANGED <<program, phase, functions, entries, rejected, guessed, joins, cuts, exploring, round>>
-----------------------------------------------------------------------------
(* What run does with what was explored.                                   *)

Explored == exploring /\ ~ex.walking /\ ex.blocks = <<>>

\* The first n instructions from the entry.
FirstOf(n) ==
  {a \in ex.code : a >= ex.entry /\ Cardinality({b \in ex.code : ex.entry <= b /\ b < a}) < n}

MostlyUnconditional(code) ==
  Cardinality({a \in code : program.code["Arm"][a].conditional}) * (MostConditional + 1)
    <= Cardinality(code) * MostConditional

LooksLikeCode ==
  LET few(code, n) == Cardinality(code) < n
  IN CASE ex.mode = "Arm" ->
            \/ few(ex.code, JudgedArm)
            \/ /\ MostlyUnconditional(ex.code)
               /\ few(FirstOf(ArmStart), JudgedArm) \/ MostlyUnconditional(FirstOf(ArmStart))
       [] ex.mode = "Thumb" ->
            \/ few(ex.code, JudgedThumb)
            \/ trial.joins # {}
            \/ \E a \in FirstOf(ThumbFlowWithin) :
                 program.code["Thumb"][a].flow \notin {"Other", "LiteralLoad"}

Idling == exploring' = FALSE /\ ex' = Nowhere /\ trial' = NoTrial

\* The function that was explored, in place of the one there is if any.
Insert ==
  functions' = [a \in DOMAIN functions \cup {ex.entry} |->
    IF a = ex.entry THEN [mode |-> ex.mode, code |-> ex.code, labels |-> ex.labels \cap ex.code]
                    ELSE functions[a]]

\* What is not judged is a function, one explored again stays a guess or not.
Keep ==
  /\ Explored /\ ~ex.judged
  /\ Insert
  /\ guessed' = guessed \cup IF ex.sure THEN {} ELSE {ex.entry}
  /\ Idling
  /\ UNCHANGED <<program, phase, leads, marks, entries, rejected, joins, cuts, round>>

\* Mutant: where the guess joined other code is not remembered.
AcceptUnjoined ==
  /\ Explored /\ ex.judged /\ LooksLikeCode
  /\ Insert
  /\ guessed' = guessed \cup {ex.entry}
  /\ Follow(trial.calls, trial.pointers)
  /\ cuts' = [cuts EXCEPT ![ex.entry] = @ \cup {j[1] : j \in trial.joins}]
  /\ Idling
  /\ UNCHANGED <<program, phase, marks, entries, rejected, joins, round>>

Accept ==
  /\ Explored /\ ex.judged /\ LooksLikeCode
  /\ Insert
  /\ guessed' = guessed \cup {ex.entry}
  /\ Follow(trial.calls, trial.pointers)
  /\ cuts' = [cuts EXCEPT ![ex.entry] = @ \cup {j[1] : j \in trial.joins}]
  /\ joins' = joins \cup trial.joins
  /\ Idling
  /\ UNCHANGED <<program, phase, marks, entries, rejected, round>>

\* Mutant: it counts as a guess before it is judged.
RejectGuessed ==
  /\ Explored /\ ex.judged /\ ~LooksLikeCode
  /\ map' = [o \in Halfwords |-> IF o \in DOMAIN trial.before THEN trial.before[o].map ELSE map[o]]
  /\ modes' = [o \in Halfwords |-> IF o \in DOMAIN trial.before THEN trial.before[o].modes ELSE modes[o]]
  /\ entries' = entries \ trial.entries
  /\ rejected' = rejected \cup {<<ex.entry, ex.mode>>}
  /\ guessed' = guessed \cup {ex.entry}
  /\ Idling
  /\ UNCHANGED <<program, phase, leads, functions, joins, cuts, round>>

Reject ==
  /\ Explored /\ ex.judged /\ ~LooksLikeCode
  /\ map' = [o \in Halfwords |-> IF o \in DOMAIN trial.before THEN trial.before[o].map ELSE map[o]]
  /\ modes' = [o \in Halfwords |-> IF o \in DOMAIN trial.before THEN trial.before[o].modes ELSE modes[o]]
  /\ entries' = entries \ trial.entries
  /\ rejected' = rejected \cup {<<ex.entry, ex.mode>>}
  /\ Idling
  /\ UNCHANGED <<program, phase, leads, functions, guessed, joins, cuts, round>>
-----------------------------------------------------------------------------
(* analyze, once the leads are followed.                                   *)

Unknown(a) == map[a] = "Unknown" /\ map[a + 1] = "Unknown"

\* Mutant: starts that came to nothing are tried again.
GapStartsAgain ==
  {a \in DOMAIN program.code["Arm"] :
     /\ Unknown(a) /\ a \notin DOMAIN functions
     /\ LET i == program.code["Arm"][a]
        IN \/ i.flow = "Push" /\ ~i.conditional
           \/ ~(a > 0 /\ Unknown(a - 2)) /\ ~i.conditional /\ i.flow # "Undefined"}

GapStarts ==
  {a \in DOMAIN program.code["Arm"] :
     /\ Unknown(a) /\ a \notin DOMAIN functions /\ <<a, "Arm">> \notin rejected
     /\ LET i == program.code["Arm"][a]
        IN \/ i.flow = "Push" /\ ~i.conditional
           \/ ~(a > 0 /\ Unknown(a - 2)) /\ ~i.conditional /\ i.flow # "Undefined"}

Scan ==
  /\ phase = "scan" /\ Idle /\ ~Waiting
  /\ GapStarts # {}
  /\ \E s \in Sorted(GapStarts) :
       queue' = [i \in DOMAIN s |-> [address |-> s[i], mode |-> "Arm", sure |-> FALSE]]
  /\ UNCHANGED <<program, phase, guesses, functions, marks, entries, rejected, guessed, joins,
                 cuts, exploring, ex, trial, round>>

HugeOnes == {e \in DOMAIN functions : Cardinality(functions[e].code) > Huge}

Scanned == phase = "scan" /\ Idle /\ ~Waiting /\ GapStarts = {}

NothingHuge ==
  /\ Scanned /\ HugeOnes = {}
  /\ phase' = "label"
  /\ UNCHANGED <<program, leads, functions, marks, entries, rejected, guessed, joins, cuts,
                 exploring, ex, trial, round>>

Split ==
  /\ Scanned /\ HugeOnes # {}
  /\ phase' = "split"
  /\ entries' = DOMAIN functions \cup {j[1] : j \in joins}
  /\ round' = [number |-> 1, huge |-> HugeOnes, left |-> HugeOnes]
  /\ UNCHANGED <<program, leads, functions, marks, rejected, guessed, joins, cuts, exploring, ex, trial>>

ExploreAgain ==
  /\ phase = "split" /\ ~exploring
  /\ \E e \in round.left :
       /\ \A d \in round.left : e <= d
       /\ Explore(e, functions[e].mode, e \notin guessed, FALSE)
       /\ round' = [round EXCEPT !.left = @ \ {e}]
  /\ UNCHANGED <<program, phase, leads, functions, marks, entries, rejected, guessed, joins, cuts>>

RoundDone == phase = "split" /\ Idle /\ ~Waiting
Enough == HugeOnes \in {{}, round.huge} \/ round.number = 4

NextRound ==
  /\ RoundDone /\ ~Enough
  /\ round' = [number |-> round.number + 1, huge |-> HugeOnes, left |-> HugeOnes]
  /\ UNCHANGED <<program, phase, leads, functions, marks, entries, rejected, guessed, joins, cuts,
                 exploring, ex, trial>>

SplitDone ==
  /\ RoundDone /\ Enough
  /\ phase' = "label"
  /\ entries' = {}
  /\ UNCHANGED <<program, leads, functions, marks, rejected, guessed, joins, cuts, exploring, ex, trial, round>>

\* Mutant: one of the functions that hold the code gets the label.
LabelJoinsLast ==
  /\ phase = "label"
  /\ phase' = "done"
  /\ functions' = [e \in DOMAIN functions |->
       [functions[e] EXCEPT !.labels = @ \cup
          {a \in functions[e].code :
             <<a, functions[e].mode>> \in joins /\ \A d \in DOMAIN functions : a \in functions[d].code => d <= e}]]
  /\ joins' = {}
  /\ UNCHANGED <<program, leads, marks, entries, rejected, guessed, cuts, exploring, ex, trial, round>>

LabelJoins ==
  /\ phase = "label"
  /\ phase' = "done"
  /\ functions' = [e \in DOMAIN functions |->
       [functions[e] EXCEPT !.labels = @ \cup {a \in functions[e].code : <<a, functions[e].mode>> \in joins}]]
  /\ joins' = {}
  /\ UNCHANGED <<program, leads, marks, entries, rejected, guessed, cuts, exploring, ex, trial, round>>

Run == Skip \/ Refuse \/ Begin \/ Keep \/ Accept \/ Reject
Step == Plain \/ Call \/ Branch \/ TailCall \/ Jump \/ JumpTable \/ AddressTable \/ LoadPcLiteral \/ LiteralLoad

Next ==
  \/ Run \/ Step \/ NextBlock \/ Stop \/ Join
  \/ Scan \/ NothingHuge \/ Split \/ ExploreAgain \/ NextRound \/ SplitDone \/ LabelJoins

Spec == Init /\ [][Next]_vars /\ WF_vars(Next)
-----------------------------------------------------------------------------
Exploration ==
  [entry : Nat, mode : Modes, sure : BOOLEAN, judged : BOOLEAN, walking : BOOLEAN, at : Nat,
   blocks : Seq(Halfwords), seen : SUBSET Halfwords, code : SUBSET Halfwords, labels : SUBSET Nat]

TypeOK ==
  /\ phase \in {"scan", "split", "label", "done"}
  /\ queue \in Seq(Lead(program.end)) /\ guesses \in Seq(Lead(program.end))
  /\ DOMAIN functions \subseteq Halfwords
  /\ \A e \in DOMAIN functions :
       /\ functions[e] \in [mode : Modes, code : SUBSET Halfwords, labels : SUBSET Nat]
       /\ functions[e].labels \subseteq functions[e].code
       /\ functions[e].code \subseteq DOMAIN program.code[functions[e].mode]
  /\ map \in [Halfwords -> Bytes] /\ modes \in [Halfwords -> SUBSET Modes]
  /\ entries \subseteq Halfwords /\ guessed \subseteq DOMAIN functions
  /\ rejected \subseteq Halfwords \X Modes /\ joins \subseteq Halfwords \X Modes
  /\ cuts \in [Halfwords -> SUBSET Halfwords]
  /\ exploring \in BOOLEAN
  /\ ex \in Exploration /\ ex.code \subseteq DOMAIN program.code[ex.mode]
  /\ exploring => ex.entry \in Halfwords /\ (phase = "scan" => ex.entry \notin DOMAIN functions)
  /\ DOMAIN trial.before \subseteq Halfwords
  /\ trial.calls \in Seq(Lead(program.end)) /\ trial.pointers \in Seq(Lead(program.end))
  /\ trial.joins \subseteq Halfwords \X Modes /\ trial.entries \subseteq entries
  /\ round.number \in 0..4 /\ round.left \subseteq round.huge /\ round.huge \subseteq DOMAIN functions

\* The halfwords functions and what is being explored hold in a mode.
HoldsAt(mode, code, o) == \E a \in code : o \in Span(mode, a)
FunctionHolds(e, m, o) == functions[e].mode = m /\ HoldsAt(m, functions[e].code, o)
Holds(m, o) ==
  \/ \E e \in DOMAIN functions : FunctionHolds(e, m, o)
  \/ exploring /\ ex.mode = m /\ HoldsAt(m, ex.code, o)

\* The data those instructions load from the text.
LiteralsOf(m, a) ==
  LET i == program.code[m][a]
  IN CASE i.flow = "LiteralLoad" -> i.target..i.target + i.width - 1
       [] i.flow = "LoadPcLiteral" -> i.target..i.target + 1
       [] i.flow = "AddressTable" -> a + 4..a + 3 + 2 * i.width
       [] OTHER -> {}
Loaded(o) ==
  \/ program.relocated /\ {o, o - 1} \cap program.slots # {}
  \/ \E e \in DOMAIN functions : \E a \in functions[e].code : o \in LiteralsOf(functions[e].mode, a)
  \/ exploring /\ \E a \in ex.code : o \in LiteralsOf(ex.mode, a)

\* What a function holds is marked as code in its mode, and until functions are
\* split nothing else is, nor is a literal no function loads: a guess that came
\* to nothing leaves no mark, whatever it ran over, and takes none of another's.
MarksAreHeld ==
  \A o \in Halfwords :
    /\ map[o] = "Code" <=> modes[o] # {}
    /\ \A m \in Modes : Holds(m, o) => m \in modes[o]
    /\ phase = "scan" => \A m \in modes[o] : Holds(m, o)
    /\ phase = "scan" /\ map[o] = "Literal" => Loaded(o)

\* The test a_huge_guess_splits_without_losing_code: "a huge function a guess led
\* to splits into pieces that keep all of its code".
NothingLost ==
  phase = "done" => \A o \in Halfwords : \A m \in modes[o] : Holds(m, o)

\* Where execution can go from the instruction at a, in which mode.
After(m, a) ==
  LET i == program.code[m][a]
      ends == i.flow \in {"Branch", "BranchRegister", "Return", "IndirectJump", "AddressTable", "LoadPcLiteral"}
      next == IF i.flow # "JumpTable" /\ (ends => i.link \/ i.conditional) THEN {<<a + i.size, m>>} ELSE {}
      cases == {<<a + 2 * n, "Arm">> : n \in {n \in 1..program.end : \A k \in 1..n : IsCase(a + 2 * k)}}
      table == {program.points[a + 4 + 2 * n] :
                  n \in {n \in 0..i.width - 1 : \A k \in 0..n : IsAddress(a + 4 + 2 * k)}}
  IN next \cup CASE i.flow = "Branch" -> {<<i.target, m>>}
                 [] i.flow = "CallOtherMode" -> {<<i.target, Other(m)>>}
                 [] i.flow = "JumpTable" -> cases
                 [] i.flow = "AddressTable" -> {t \in table : t[2] \in Modes}
                 [] OTHER -> {}

\* What is data, though code in the other mode may have run over it since.
IsData(t) == map[t] = "Literal" \/ (map[t] = "Code" /\ Loaded(t))
Decoded(t, m) == t \in DOMAIN program.code[m] /\ program.code[m][t].flow # "Undefined"

\* What can become of a place execution can go to: a function holds it, it was
\* refused as a guess, it is data, or it does not decode; or the function there
\* is in the other mode, which there is one of for an address.
Answered(t, m) ==
  \/ \E e \in DOMAIN functions : FunctionHolds(e, m, t)
  \/ <<t, m>> \in rejected /\ m \notin modes[t]
  \/ IsData(t) \/ ~Decoded(t, m)
  \/ t \in DOMAIN functions /\ functions[t].mode # m

\* No path is dropped: wherever the code of a function leads, by falling through,
\* a branch, a call or a table, through trials, joins, pieces and tail calls, ends
\* up in some function, unless it was found not to be code.  Split code may lose
\* what a guess was cut at.
PathsAreFollowed ==
  phase = "done" =>
    \A e \in DOMAIN functions : \A a \in functions[e].code :
      \A to \in After(functions[e].mode, a) :
        InText(to[1]) =>
          Answered(to[1], to[2]) \/ (round.number > 0 /\ \E d \in Halfwords : to[1] \in cuts[d])

\* Where a guess stops since other functions hold the code, the host can go on in
\* each function that does, where that code is only ever decoded in one mode: what
\* a piece takes over may be of code in the other.
JoinsAreLabels ==
  phase = "done" =>
    \A e \in DOMAIN functions : \A a \in cuts[e] : \A d \in DOMAIN functions :
      modes[a] = {functions[d].mode} /\ a \in functions[d].code => a \in functions[d].labels
=============================================================================
