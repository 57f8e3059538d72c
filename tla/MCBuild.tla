------------------------------ MODULE MCBuild ------------------------------
\* Titles for TLC.  Addresses are in bytes here, four for a word.
EXTENDS MCDiscover, Build

\* A title of nothing but an executable, the code and words of a program.
Raw(v) == 2 * v[1] + (CASE v[2] = "Arm" -> 0 [] v[2] = "Thumb" -> 1 [] OTHER -> 2)
TitleOf(p) ==
  [executable |-> [end |-> p.end, code |-> p.code, entry |-> 0, natives |-> <<>>,
                   words |-> [a \in DOMAIN p.points |-> Raw(p.points[a])],
                   data |-> [i \in DOMAIN p.pointers |-> Raw(<<p.pointers[i].address, p.pointers[i].mode>>)]],
   modules |-> <<>>, crs |-> <<>>, files |-> <<>>, hints |-> {}]
Alone(words) == TitleOf(Made(words, <<>>, <<>>, <<Entry>>))

\* A module, its text a program's, 8 bytes into the file, with data behind it; or
\* only data.
Absolute(s, offset, addend) == [target |-> <<s, offset>>, absolute |-> TRUE, segment |-> 1, addend |-> addend]
Module(name, p) ==
  [name |-> name,
   segments |-> <<[offset |-> 8, size |-> 2 * p.end, code |-> TRUE], [offset |-> 8 + 2 * p.end, size |-> 4, code |-> FALSE]>>,
   code |-> p.code, words |-> [a \in DOMAIN p.points |-> 8 + Raw(p.points[a])],
   exports |-> <<<<1, 0>>>>, relocations |-> <<>>, imports |-> <<>>, anonymous |-> <<>>]
DataOnly(m) == [m EXCEPT !.segments = <<[offset |-> 8, size |-> 0, code |-> TRUE]>>]
InModule(p) ==
  [Alone(<<Ret>>) EXCEPT !.modules =
     <<[Module("m", p) EXCEPT !.relocations =
          [i \in 1..Cardinality(p.slots) |-> Absolute(1, 4 * i + 8, 18 + 2 * i)]]>>]

\* Four words of these, something that may be called behind them.
Three(n) == [1..n -> {O, Ret, Data}]
Replaceable == {Alone(<<Calls(2), Ret>> \o w) : w \in [1..2 -> {O, Ret, Data, Calls(3), Goes(3)}]}
By(m, a, name) == [module |-> m, address |-> a, name |-> name]
Files ==
  {<<<<By("", 8, "a")>>>>, <<<<By("", 8, "a"), By("", 12, "b")>>>>,
   <<<<By("", 8, "a")>>, <<By("", 8, "b")>>>>, <<<<By("", 8, "a"), By("", 8, "b")>>>>,
   <<<<By("", 9, "a")>>>>, <<<<By("n", 0, "a")>>>>}
Division(kind, a, t) == [kind |-> kind, address |-> a, size |-> 4, leads |-> t]
Divisions == {<<>>, <<Division("Idivmod", 8, {}), Division("Uidivmod", 12, {8})>>, <<Division("Uidivmod", 8, {12})>>}
Overridden ==
  {[t EXCEPT !.files = f, !.executable.natives = d] : t \in Replaceable, f \in Files, d \in Divisions}

\* A guess, and a gap behind data that leads to it, with hints in either.
Hinting ==
  {[TitleOf(Made(<<Ret>> \o w \o <<i>>, <<>>, <<>>, <<Entry, Seed(1, "Arm", TRUE)>>)) EXCEPT !.hints = h] :
     w \in [1..4 -> {O, If(O), Ret, Data}], i \in {Ret, Data}, h \in {{20}, {16, 20}, {8, 20}}}

\* The executable's own module, exporting what is at an address in it.
Static(end, address) ==
  [DataOnly(Module("|static|", Made(<<>>, <<>>, <<>>, <<>>))) EXCEPT
     !.segments = <<[offset |-> 0, size |-> end, code |-> TRUE]>>, !.exports = <<<<1, address>>>>]

\* An export inside another function, and a pointer behind it.
Inside ==
  {[TitleOf(Made(<<i>> \o w \o <<Ret>>, <<>>, <<>>, <<Entry, Seed(2, "Arm", TRUE)>>)) EXCEPT !.crs = <<Static(16, 4)>>] :
     i \in {O, If(Goes(1))}, w \in [1..2 -> {O, If(O), Data, Ret, Calls(3), If(Goes(2))}]}

\* An executable that imports what a module has, and the module from it.
Linked ==
  {[Alone(<<Ret>> \o w) EXCEPT
      !.crs = <<[Static(12, 0) EXCEPT !.anonymous = <<[module |-> "m", tag |-> i]>>, !.exports = <<>>]>>,
      !.modules =
        <<[Module("m", Made(v, <<>>, <<>>, <<Entry>>)) EXCEPT
             !.exports = <<>>, !.anonymous = <<[module |-> "|static|", tag |-> <<1, 8>>]>>,
             !.relocations = r]>>,
      !.files = <<<<By("m", o, "a")>>>>] :
     w \in Three(2), v \in Three(2), i \in {<<1, 0>>, <<1, 4>>, <<2, 0>>, <<1, 8>>}, o \in {4},
     r \in {<<>>, <<Absolute(1, 0, 4)>>, <<Absolute(2, 0, 4)>>}}

\* Exports of data that a word is over, of where a huge function is swallowed, and of
\* one that is left with no code; and overrides of the two modes of one place.
Exporting(t, v) == [t EXCEPT !.crs = <<Static(2 * t.executable.end, v)>>]
Odd ==
  {Exporting(TitleOf([Over EXCEPT !.code["Arm"][2] = O]), 19),
   Exporting(Alone(<<Calls(1), If(Goes(3)), O, O, Ret>>), 4), Exporting(TitleOf(HugeJoin), 28),
   [TitleOf(Made(<<Blx(3), Ret, Data, Data, Ret>>,
                 [a \in 6..8 |-> IF a = 6 THEN Short(Goes(4)) ELSE Short(Ret)], <<>>, <<Entry>>))
    EXCEPT !.files = <<<<By("", 17, "a")>>, <<By("", 16, "b")>>>>]}

Relocated == {InModule(Table(<<12, "Neither">>, {6, 8})), InModule(Table(<<12, "Arm">>, {6}))}
Lone == Small \cup Long \cup Thumbs \cup {Switch, Veneer, HugeGuess, HugeJoin, Over, Cross, Table(<<12, "Arm">>, {}), Table(<<12, "Thumb">>, {})}
MCTitles == {TitleOf(p) : p \in Lone} \cup Relocated \cup Overridden \cup Hinting \cup Inside \cup Linked \cup Odd

\* A function that begins where a huge one comes back from a call, and another in
\* both, which an export leads to.
Swallowed ==
  [Alone(<<Calls(1), If(Goes(3)), O, O, Ret>>) EXCEPT !.crs = <<Static(20, 12)>>]
MCSwallowed == {Swallowed}
=============================================================================
