------------------------------ MODULE MCLocals ------------------------------
(* Functions of two instructions and a return: each instruction there is,  *)
(* before and after some others, with labels at the entry and everywhere.  *)
EXTENDS Locals

Each1 == <<
  Interpret, ReadStatus(0), WriteStatus(1),
  DataProcessing(0, 1, 15, FALSE, <<>>, 0), DataProcessing(0, 15, 15, TRUE, <<N, Z, C>>, 1),
  DataProcessing(0, 1, 2, TRUE, <<N, Z, C, V>>, Elsewhere),
  DataProcessing(15, 1, 15, FALSE, <<>>, 15), DataProcessing(15, 14, 15, FALSE, <<>>, 15),
  SingleTransfer(TRUE, 0, <<1>>, 2, TRUE), SingleTransfer(TRUE, 13, <<>>, 15, TRUE),
  SingleTransfer(TRUE, 0, <<1, C>>, 15, FALSE), SingleTransfer(FALSE, 0, <<>>, 1, TRUE),
  ExtraTransfer(TRUE, 0, 1, <<2, 3>>, TRUE), ExtraTransfer(FALSE, 0, 15, <<2, 3>>, TRUE),
  BlockTransfer(TRUE, 0, <<1, 2>>, TRUE), BlockTransfer(TRUE, 13, <<0, 15>>, TRUE),
  BlockTransfer(TRUE, 0, <<0, 15>>, TRUE), BlockTransfer(FALSE, 13, <<1, 13>>, TRUE),
  SwapMemory(0, 1, 1), Exclusive(TRUE, 0, <<1, 2>>, 0), Exclusive(FALSE, 0, <<1>>, 2),
  Multiply(<<0, 1>>, 0, <<N, Z>>), MultiplyLong(<<0, 1, 2, 3>>, 2, 3, <<>>),
  HalfwordMultiply(<<0, 1, 2>>, 2), Saturating(0, 1, 0), Clz(0, 1), Media(<<0, 1>>, 0),
  DualMultiply(<<0, 1>>, 2, 3, TRUE), DualMultiply(<<0, 1>>, 0, 2, FALSE),
  BranchExchange(TRUE, 0), BranchExchange(FALSE, 0), Branch(Function), Branch(Elsewhere),
  Arithmetic(FALSE, 8, 0, 1), Arithmetic(TRUE, 1, 0, 1), Extension(TRUE, 4, 0, FALSE),
  Extension(FALSE, 0, 8, TRUE), Extension(TRUE, 0, 1, TRUE), Extension(FALSE, 0, 1, FALSE),
  Compare(TRUE, 0, 1), Convert(TRUE, 0, <<S(2)>>), ConvertToInteger(FALSE, 0, 1),
  RegisterTransfer(0, Fpscr), RegisterTransfer(Fpscr, 15), RegisterTransfer(S(0), 0),
  MovePair(<<0, 1>>, <<S(0), S(1)>>), LoadStore(TRUE, 0, <<S(0)>>, FALSE),
  LoadStore(FALSE, 0, <<S(0), S(1)>>, TRUE),
  ShiftImmediate(0, 1, TRUE), AddSubtract(0, 1, 2), Immediate(0, TRUE, FALSE), Immediate(0, FALSE, TRUE),
  Alu(0, 1, TRUE, <<0, N, Z, C>>), HighRegister(0, 1, TRUE), HighRegister(15, 0, FALSE),
  HighRegister(15, 14, FALSE), RegisterOffset(TRUE, 0, 1, 0), ImmediateOffset(FALSE, 0, 1),
  Miscellaneous(0, 0), PushPop(FALSE, <<0>>, TRUE), PushPop(TRUE, <<0>>, TRUE),
  PushPop(TRUE, <<0, 1>>, FALSE), ThumbBlockTransfer(TRUE, 0, <<0, 1>>), ThumbBlockTransfer(FALSE, 0, <<1, 2>>),
  ThumbBlockTransfer(FALSE, 0, <<>>), Coprocessor(0), Nothing, Literal(0), StackTransfer(TRUE, 0),
  StackTransfer(FALSE, 1), HalfwordTransfer(TRUE, 0, 1), HalfwordTransfer(FALSE, 1, 0), AddressFrom(13, 0),
  AddressFrom(15, 1)
>>

Others == << Call, When(<<Z>>, Branch(1)), Svc, When(<<N, V>>, Call), DataProcessing(0, 1, 15, FALSE, <<N, Z>>, 0),
             When(<<Z>>, DataProcessing(15, 15, 15, FALSE, <<>>, 0)) >>

\* Pairs that change from one instruction to the next.
Other(n) == Others[(n % Len(Others)) + 1]
Farther(n) == Each1[((7 * n) % Len(Each1)) + 1]

Of(labels, a, b) == [labels |-> labels, instructions |-> <<a, b, BranchExchange(FALSE, 14)>>]

MCFunctions ==
  UNION {{Of({1}, Each1[n], Other(n)), Of({1, 2, 3}, Each1[n], Other(n + 1)), Of({1, 2}, Other(n + 2), Each1[n]),
          Of({1, 3}, Each1[n], When(<<C>>, Farther(n))), Of({1, 2, 3}, When(<<Z>>, Each1[n]), Other(n + 1))} :
         n \in 1..Len(Each1)}
=============================================================================
