------------------------------ MODULE Emitted ------------------------------
(***************************************************************************)
(* The C the recompiler writes for a function, write_body of               *)
(* src/src/codegen/mod.rs with the lowering of arm.rs, thumb.rs and        *)
(* vfp.rs, as far as it says when a guest register is read, written and    *)
(* looked at from elsewhere.                                               *)
(*                                                                         *)
(* A text is a sequence of lines, a line the tokens in it that matter, in  *)
(* order, each with the register or the label it is about.  What is        *)
(* computed, and fields of the context other than the registers, flags and *)
(* VFP registers, are left out.  "Guard" is if, switch, case or else's if, *)
(* "Then" the end of a condition and what it is about,                     *)
(* "Sync" CALL, INTERPRET, SVC and vfp_vector, "Return" RETURN and         *)
(* "ReturnTo" the RETURN_TOs, "GotoDispatch" goto dispatch with its        *)
(* semicolon, "Block" BLOCK.                                               *)
(*                                                                         *)
(* Where the source has r15 for an operand, it writes its value, and so    *)
(* 15 stands for an operand that is no register at all, too.               *)
(***************************************************************************)
EXTENDS Integers, SequencesExt

\* The registers are r0 to r15, the flags, s0 to s31 and fpscr.
N == 16
Z == 17
C == 18
V == 19
S(n) == 20 + n
Fpscr == 52

\* The targets of a branch that are no label: a function's, and any other.
Function == -1
Elsewhere == -2

\* What conditions are about: anything, the state the function runs in, which
\* every label has, or for a case its label; and dispatch's place.
Anything == -3
OwnState == -5
Dispatch == -4

Token(t, of) == [t |-> t, of |-> of]
Word(t) == Token(t, 0)
Each(t, registers) ==
  LET named == SelectSeq(registers, LAMBDA r : r # 15)
  IN [i \in 1..Len(named) |-> Token(t, named[i])]
Statement(tokens) == Append(tokens, Word("Semi"))
Braces(tokens) == <<Word("Open")>> \o tokens \o <<Word("Close")>>

\* A C variable, or a store, of what the registers hold.
Take(registers) == Statement(Each("Read", registers))

\* Register r set to something made of the registers.
Put(r, registers) == Statement(<<Token("Assign", r)>> \o Each("Read", registers))
PutAll(rs) == FlattenSeq([i \in 1..Len(rs) |-> Put(rs[i], <<>>)])

\* The start of an if whose condition reads the registers.
If(registers) == <<Word("Guard")>> \o Each("Read", registers) \o <<Token("Then", Anything)>>

Begin(tokens) == <<Word("Open")>> \o tokens
End(tokens) == tokens \o <<Word("Close")>>

\* An instruction: its C, whether execution goes on after it, its target if it
\* is a branch, and the flags its condition reads, none if it has none.
Instruction(text, continues) == [text |-> text, continues |-> continues, branch |-> 0, flags |-> <<>>]
Continues(text) == Instruction(text, TRUE)
Ends(text) == Instruction(text, FALSE)
Branch(target) == [Ends(<<>>) EXCEPT !.branch = target]
When(flags, i) == [i EXCEPT !.flags = flags, !.continues = TRUE]

-----------------------------------------------------------------------------
(* ARM *)

Interpret == Continues(<<Statement(<<Word("Sync")>>)>>)
Svc == Continues(<<Statement(<<Word("Sync")>>)>>)

ReadStatus(rd) == Continues(<<Put(rd, <<N, Z, C, V>>)>>)
WriteStatus(rm) ==
  Continues(<<Begin(<<>>), Take(<<rm>>), PutAll(<<N, Z, C>>), Put(V, <<>>), End(<<>>)>>)

\* The carry is read for the flags, by rrx and by shifts by a register.
Shifter(rm, rs, carry) == <<Take(<<rm, rs>>), Take(IF carry THEN <<C>> ELSE <<>>)>>

\* What rd is to be Elsewhere for a comparison.
DataProcessing(rn, rm, rs, carry, flags, rd) ==
  LET computes == <<Begin(<<>>)>> \o Shifter(rm, rs, carry) \o <<Take(<<rn>>), PutAll(flags)>>
      moves == rn = 15 /\ rs = 15
      jumps == IF moves /\ rm = 14 THEN Put(15, <<>>) \o Statement(<<Word("Return")>>)
                                   ELSE Take(<<>>) \o <<Word("GotoDispatch")>>
  IN IF rd = 15 THEN Ends(computes \o <<jumps, End(<<>>)>>)
     ELSE Continues(computes \o <<IF rd = Elsewhere THEN <<>> ELSE Put(rd, <<>>), End(<<>>)>>)

\* Leaving for the address that was loaded.
LeaveTo(returns) == <<End(Statement(<<Word(IF returns THEN "ReturnTo" ELSE "Jump")>>))>>

\* What the offset reads.  To pc a pop returns, which a change of r13 by an
\* immediate is here.
SingleTransfer(load, rn, offset, rd, writeback) ==
  LET address == <<Begin(Take(<<rn>> \o offset))>>
      back(when) == IF writeback /\ when THEN <<Put(rn, <<>>)>> ELSE <<>>
  IN IF ~load THEN Continues(address \o <<Take(<<rd>>)>> \o back(TRUE) \o <<End(<<>>)>>)
     ELSE IF rd = 15 THEN Ends(address \o <<Take(<<>>)>> \o back(TRUE) \o LeaveTo(rn = 13 /\ writeback /\ offset = <<>>))
     ELSE Continues(address \o <<Take(<<>>)>> \o back(rn # rd) \o <<End(Put(rd, <<>>))>>)

ExtraTransfer(load, rn, rm, rds, writeback) ==
  LET back == IF writeback THEN Put(rn, <<>>) ELSE <<>>
  IN Continues(<<Begin(Take(<<rn, rm>>)),
                 End(IF load THEN Take(<<>>) \o back \o PutAll(rds) ELSE Take(rds) \o back)>>)

\* More than one word goes through one check of its page, or the usual path.
Words(load, registers) ==
  LET moves == [i \in 1..Len(registers) |->
                  IF load /\ registers[i] # 15 THEN Put(registers[i], <<>>) ELSE Take(<<registers[i]>>)]
  IN IF Len(registers) = 1 THEN moves
     ELSE <<Begin(Take(<<>>)), If(<<>>) \o Begin(<<>>)>> \o moves
          \o <<End(<<>>) \o <<Word("Else"), Word("Open")>>>> \o moves \o <<End(End(<<>>))>>

\* A base that is stored but not the lowest register is its new value.
BlockTransfer(load, rn, registers, writeback) ==
  LET address == <<Begin(Take(<<rn>>))>>
      back(when) == IF writeback /\ when THEN <<Put(rn, <<>>)>> ELSE <<>>
      stored == [i \in 1..Len(registers) |->
                   IF writeback /\ i > 1 /\ registers[i] = rn THEN 15 ELSE registers[i]]
      loads == address \o back(rn \notin ToSet(registers)) \o <<Take(<<>>)>> \o Words(TRUE, registers)
  IN IF ~load THEN Continues(address \o Words(FALSE, stored) \o back(TRUE) \o <<End(Take(<<>>))>>)
     ELSE IF 15 \in ToSet(registers) THEN Ends(loads \o LeaveTo(rn = 13))
     ELSE Continues(loads \o <<End(Take(<<>>))>>)

SwapMemory(rn, rm, rd) == Continues(<<Braces(Take(<<rn, rm>>) \o Put(rd, <<>>))>>)

\* rd says whether the store was done.
Exclusive(load, rn, moved, rd) ==
  Continues(<<Braces(Take(<<rn>>) \o
    (IF load THEN PutAll(moved)
     ELSE If(<<>>) \o Braces(Take(moved) \o Put(rd, <<>>)) \o <<Word("Else")>> \o Put(rd, <<>>)))>>)

Multiply(rs, rd, flags) == Continues(<<Braces(Take(rs) \o Put(rd, <<>>) \o PutAll(flags))>>)

\* smlalxy too.
MultiplyLong(rs, lo, hi, flags) == Continues(<<Braces(Take(rs) \o PutAll(<<lo, hi>> \o flags))>>)
HalfwordMultiply(rs, rd) == Continues(<<Put(rd, rs)>>)
Saturating(rm, rn, rd) == Continues(<<Put(rd, <<rm, rn, rn>>)>>)
Clz(rm, rd) == Continues(<<Braces(Take(<<rm>>) \o Statement(<<Token("Assign", rd), Word("Quest")>>))>>)
Media(rs, rd) == Continues(<<Put(rd, rs)>>)
DualMultiply(rs, rd, ra, long) ==
  Continues(<<IF long THEN Braces(Take(<<rd, ra>> \o rs) \o PutAll(<<ra, rd>>)) ELSE Put(rd, Append(rs, ra))>>)

\* The thread's storage is the one part of cp15 that is read, and barriers,
\* hints and clrex touch no register.
Coprocessor(rd) == Continues(<<Put(rd, <<>>)>>)
Nothing == Continues(<<>>)

\* A call through a register, a return and a jump.
BranchExchange(link, rm) ==
  IF link THEN Continues(<<Braces(Take(<<rm>>) \o Put(14, <<>>) \o Put(15, <<>>)),
                           Statement(<<Word("Sync")>>), Statement(<<Word("Returned")>>)>>)
  ELSE Ends(<<Statement(<<Word(IF rm = 14 THEN "ReturnTo" ELSE "Jump")>> \o Each("Read", <<rm>>))>>)

Call == Continues(<<PutAll(<<14, 15>>), Statement(<<Word("Sync")>>), Statement(<<Word("Returned")>>)>>)

-----------------------------------------------------------------------------
(* VFP *)

Get(double, r) == IF double THEN <<S(2 * r), S(2 * r + 1)>> ELSE <<S(r)>>
PutVfp(double, d, registers) ==
  Statement(<<Token("Read", Fpscr)>> \o Each("Assign", Get(double, d)) \o Each("Read", registers))

\* A destination past the first bank may be a short vector's.
Scalar(double, d, body) ==
  Continues(<<IF d < (IF double THEN 4 ELSE 8) THEN Braces(body)
              ELSE If(<<Fpscr>>) \o Statement(<<Word("Sync")>>) \o <<Word("Else")>> \o Braces(body)>>)

Arithmetic(double, d, n, m) ==
  Scalar(double, d, Take(Get(double, n) \o Get(double, m) \o Get(double, d)) \o PutVfp(double, d, <<>>))

\* A move, with or without a change of sign, and a square root.
Extension(double, d, m, root) ==
  Scalar(double, d,
    CASE root /\ double -> Take(Get(TRUE, m)) \o PutVfp(TRUE, d, <<>>)
      [] root -> PutVfp(FALSE, d, Get(FALSE, m))
      [] double -> Take(Get(TRUE, m)) \o PutAll(Get(TRUE, d))
      [] OTHER -> Put(S(d), Get(FALSE, m)))

Compare(double, d, m) ==
  Continues(<<Statement(<<Token("Modify", Fpscr)>> \o Each("Read", Get(double, d) \o Get(double, m)))>>)

\* From an integer or another size, and to an integer.
Convert(double, d, registers) == Continues(<<PutVfp(double, d, registers)>>)
ConvertToInteger(double, d, m) == Continues(<<Put(S(d), Get(double, m))>>)

\* fpscr goes to the flags when there is no register to go to.
RegisterTransfer(from, to) ==
  Continues(<<IF to = 15 THEN Braces(Take(<<from>>) \o PutAll(<<N, Z, C, V>>)) ELSE Put(to, <<from>>)>>)
MovePair(from, to) == Continues(<<Put(to[1], <<from[1]>>) \o Put(to[2], <<from[2]>>)>>)

LoadStore(load, rn, registers, writeback) ==
  Continues(<<Begin(Take(<<rn>>))>> \o Words(load, registers)
            \o (IF writeback THEN <<Put(rn, <<>>)>> ELSE <<>>) \o <<End(Take(<<>>))>>)

-----------------------------------------------------------------------------
(* Thumb *)

ShiftImmediate(rm, rd, carry) ==
  Continues(<<Braces(Take(<<rm>>) \o PutAll(IF carry THEN <<C, rd, N, Z>> ELSE <<rd, N, Z>>))>>)
AddSubtract(rn, rm, rd) == Continues(<<Braces(Take(<<rn, rm>>) \o PutAll(<<rd, N, Z, C, V>>))>>)
Immediate(rd, moves, compares) ==
  Continues(<<IF moves THEN PutAll(<<rd, N, Z>>)
              ELSE Braces(Take(<<rd>>) \o PutAll((IF compares THEN <<>> ELSE <<rd>>) \o <<N, Z, C, V>>))>>)

\* cmp of high registers too.
Alu(rd, rs, carry, puts) ==
  Continues(<<Braces(Take(<<rd, rs>>) \o Take(IF carry THEN <<C>> ELSE <<>>) \o PutAll(puts))>>)

\* To pc it returns with lr and jumps with any other.
HighRegister(rd, rs, adds) ==
  IF rd # 15 THEN Continues(<<Put(rd, IF adds THEN <<rd, rs>> ELSE <<rs>>)>>)
  ELSE Ends(<<IF rs = 14 /\ ~adds THEN Put(15, <<14>>) \o Statement(<<Word("Return")>>)
              ELSE Take(<<rs>>) \o <<Word("GotoDispatch")>>>>)

RegisterOffset(load, rb, ro, rd) == Continues(<<IF load THEN Put(rd, <<rb, ro>>) ELSE Take(<<rb, ro, rd>>)>>)
ImmediateOffset(load, rb, rd) == Continues(<<IF load THEN Put(rd, <<rb>>) ELSE Take(<<rb, rd>>)>>)
Literal(rd) == Continues(<<Put(rd, <<>>)>>)
StackTransfer(load, rd) == Continues(<<IF load THEN Put(rd, <<13>>) ELSE Take(<<13, rd>>)>>)
HalfwordTransfer(load, rb, rd) == Continues(<<IF load THEN Put(rd, <<rb>>) ELSE Take(<<rb, rd>>)>>)
AddressFrom(base, rd) == Continues(<<Put(rd, <<base>>)>>)
Miscellaneous(rd, rm) == Continues(<<Put(rd, <<rm>>)>>)

PushPop(pop, registers, extra) ==
  LET address == <<Begin(Take(<<13>>))>>
      adjusted == <<Statement(<<Token("Modify", 13)>>)>>
  IN IF ~pop THEN Continues(address \o Words(FALSE, registers \o (IF extra THEN <<14>> ELSE <<>>))
                            \o <<End(Put(13, <<>>) \o Take(<<>>))>>)
     ELSE IF extra THEN Ends(address \o <<Take(<<>>)>> \o Words(TRUE, Append(registers, 15))
                             \o adjusted \o LeaveTo(TRUE))
     ELSE Continues(address \o Words(TRUE, registers) \o adjusted \o <<End(Take(<<>>))>>)

\* With no registers it only changes its base.
ThumbBlockTransfer(load, rb, registers) ==
  IF registers = <<>> THEN Continues(<<Statement(<<Token("Modify", rb)>>)>>)
  ELSE Continues(<<Begin(Take(<<rb>>))>> \o Words(load, registers)
                 \o (IF load /\ rb \in ToSet(registers) THEN <<>> ELSE <<Put(rb, <<>>)>>) \o <<End(Take(<<>>))>>)

-----------------------------------------------------------------------------
(* A function.  Its instructions are at 1, 2 and so on, and 1 is its entry. *)

Jump(labels, target) ==
  CASE target \in labels -> <<Statement(<<Token("Goto", target)>>)>>
    [] target = Function -> <<Put(15, <<>>) \o Statement(<<Word("Sync")>>) \o Statement(<<Word("Return")>>)>>
    [] OTHER -> <<Take(<<>>) \o <<Word("GotoDispatch")>>>>

Lower(labels, i) ==
  LET body == IF i.branch = 0 THEN i.text ELSE Jump(labels, i.branch)
  IN IF i.flags = <<>> THEN body ELSE <<If(i.flags) \o Begin(<<>>)>> \o body \o <<End(<<>>)>>

\* The way in, dispatch with a case for each label, and the host's code.
\* STALE_CHECK is left out: nothing has changed where it is.
WayIn(labels) ==
  LET sorted == SetToSortSeq(labels, <)
      goto(l) == <<Word("Guard"), Token("Then", l)>> \o Statement(<<Token("Goto", l)>>)
  IN <<Statement(<<Token("Read", 15)>>), goto(1), <<Token("Label", Dispatch)>>,
       <<Word("Guard"), Token("Then", OwnState), Word("Guard"), Word("Open")>>>>
     \o [i \in 1..Len(sorted) |-> goto(sorted[i])]
     \o <<End(<<>>), Put(15, <<>>), Statement(<<Word("Sync")>>), Statement(<<Word("Return")>>)>>

WriteBody(labels, instructions) ==
  LET at(a) ==
        (IF a \in labels THEN <<<<Token("Label", a)>>, Statement(<<Token("Block", a)>>)>> ELSE <<>>)
        \o Lower(labels, instructions[a])
      past == IF instructions[Len(instructions)].continues
              THEN <<Take(<<>>) \o <<Word("GotoDispatch")>>>> ELSE <<>>
  IN WayIn(labels) \o FlattenSeq([a \in 1..Len(instructions) |-> at(a)]) \o past
=============================================================================
