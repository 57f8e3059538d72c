----------------------------- MODULE MCDiscover -----------------------------
\* Programs of ARM words, some with Thumb where blx leads.  Addresses below are
\* of words, in the programs of halfwords.
EXTENDS Discover

I(flow) == [flow |-> flow, size |-> 2, conditional |-> FALSE, link |-> FALSE, target |-> 0, width |-> 0]
If(i) == [i EXCEPT !.conditional = TRUE]
Goes(t) == [I("Branch") EXCEPT !.target = 2 * t]
Calls(t) == [Goes(t) EXCEPT !.link = TRUE]
Blx(t) == If([I("CallOtherMode") EXCEPT !.target = 2 * t])
Loads(t) == [I("LiteralLoad") EXCEPT !.target = 2 * t, !.width = 2]
Data == I("Undefined")
Short(i) == [i EXCEPT !.size = 1]

\* A program of words, the Thumb halfwords, what words point at, and the leads
\* there are up front.
Seed(t, mode, pointer) == [address |-> 2 * t, mode |-> mode, sure |-> ~pointer]
Made(words, thumb, points, seeds) ==
  [end |-> 2 * Len(words),
   code |-> [Arm |-> [a \in {2 * n : n \in 0..Len(words) - 1} |-> words[a \div 2 + 1]], Thumb |-> thumb],
   points |-> points, relocated |-> FALSE, slots |-> {},
   calls |-> SelectSeq(seeds, LAMBDA l : l.sure), pointers |-> SelectSeq(seeds, LAMBDA l : ~l.sure)]
Entry == Seed(0, "Arm", FALSE)

\* Four words of any of these, the third of which something may point at.
Word(n) == {Data, I("Other"), If(I("Other")), I("Return"), I("Push")}
           \cup {Goes(t) : t \in {1, 2} \ {n}} \cup {If(Goes(2)), Calls(3), If(Loads(3))}
Small ==
  {Made(w, <<>>, [a \in {6} |-> <<4, "Arm">>], <<Entry, Seed(1, "Arm", TRUE), Seed(2, "Arm", TRUE)>>) :
     w \in Word(0) \X Word(1) \X Word(2) \X Word(3)}

\* Seven words that branch to and fro, which make functions to split.
Long ==
  {Made([n \in 1..7 |-> <<I("Other"), Goes((n + 2) % 7), If(Goes((n + 4) % 7))>>[f[n]]], <<>>, <<>>, <<Entry>>) :
     f \in {f \in [1..7 -> 1..3] : f[1] = 1}}

\* The programs of the tests of discover.rs with a table of branches, a table of
\* addresses and one with a slot, code in Thumb, and a huge guess.
O == I("Other")
Ret == I("Return")
Switch == Made(<<O, If(I("JumpTable")), Goes(6), Goes(7), Goes(8), Data, Ret, Ret, Ret>>, <<>>, <<>>, <<Entry>>)
Table(p, s) ==
  [Made(<<O, If([I("AddressTable") EXCEPT !.width = 2]), Ret, Data, Data, Ret, Ret>>, <<>>,
        [a \in {6, 8} |-> IF a = 6 THEN <<10, "Arm">> ELSE p], <<Entry>>)
   EXCEPT !.relocated = s # {}, !.slots = s]
Veneer == Made(<<Calls(3), Ret, Data, [I("LoadPcLiteral") EXCEPT !.target = 8], Data, Ret>>, <<>>,
               [a \in {8} |-> <<10, "Arm">>], <<Entry>>)
HugeGuess ==
  Made(<<Ret, O, O, O, O, Goes(8), Data, Data, O, O, O, O, Goes(13), O, O, Ret>>, <<>>, <<>>,
       <<Entry, Seed(1, "Arm", TRUE)>>)

\* Four Thumb halfwords of any of these after a word, bl taking two of them.
ThumbCode ==
  LET any == {Short(O), Short(Ret), Short([I("Branch") EXCEPT !.target = 3]),
              Short(If([I("Branch") EXCEPT !.target = 5])), Short([Loads(2) EXCEPT !.width = 1]),
              [I("Branch") EXCEPT !.link = TRUE, !.target = 4]}
  IN {c \in [2..5 -> any \cup {Short(Data)}] :
        c[5].size = 1 /\ \A a \in 2..4 : c[a].size = 2 => c[a + 1] = Short(Data)}
Thumbs ==
  {Made(<<i, Data, Data>>, c, <<>>, <<Entry>> \o s) :
     i \in {Blx(1), Ret}, c \in ThumbCode, s \in {<<[Seed(1, "Thumb", TRUE) EXCEPT !.address = 3], Seed(1, "Thumb", TRUE)>>}}

\* Words over data that a path in Thumb came to first, and a piece that takes a cut
\* over to code in Thumb.
Over ==
  Made(<<[I("LiteralLoad") EXCEPT !.target = 9, !.width = 1], [Blx(0) EXCEPT !.target = 9], Calls(4), Ret, Ret>>,
       [a \in {9} |-> Short(Ret)], <<>>, <<Entry>>)
Cross ==
  Made(<<Blx(3), Calls(4), Ret, Data, Ret, If(Goes(4)), O, O, O, Goes(3)>>,
       [a \in 6..8 |-> IF a = 8 THEN Short(Ret) ELSE Short(O)], <<>>, <<Entry, Seed(5, "Arm", TRUE)>>)

\* A pointer to a huge function, whose last branch goes to one that is called.
HugeJoin ==
  Made(<<Calls(7), Ret, O, O, O, O, Goes(7), O, O, O, O, Ret>>, <<>>, <<>>,
       <<Entry, Seed(2, "Arm", TRUE)>>)

MCHugeJoin == {HugeJoin}
=============================================================================
