------------------------------- MODULE Build -------------------------------
(***************************************************************************)
(* How src/src/build.rs makes the tables of a library from a title: the    *)
(* overrides and natives that replace functions, discovery in each unit,   *)
(* the hints of where the last library had no code, for which the          *)
(* executable is analyzed once more, and which C function of               *)
(* src/src/codegen/mod.rs a call and the host end up in.                   *)
(*                                                                         *)
(* A title comes with the files of functions written by hand and the       *)
(* hints there are for it.  An override's module is "" when it names none, *)
(* and its address counts from the text of what it names.                  *)
(* Labels after interpreted instructions are left out, Recomp has those.   *)
(***************************************************************************)
EXTENDS Discover, Title

CONSTANTS
  Titles,
  OwnFunction   \* OWN_FUNCTION

VARIABLES
  title,
  units,    \* the programs of it, and what leads into each, its seeds
  stage,    \* "load", "analyze", "hints", "again", "generate", "written" and "failed"
  found     \* the Analysis of each unit: its functions and what each halfword is

buildVars == <<title, units, stage, found>>

\* Those of a sequence that are in a set, in their order.
Within(s, S) ==
  LET upTo[i \in 0..Len(s)] ==
        IF i = 0 THEN <<>>
        ELSE IF s[i] \in S THEN Append(upTo[i - 1], s[i]) ELSE upTo[i - 1]
  IN upTo[Len(s)]
-----------------------------------------------------------------------------
(* What is read before anything is analyzed.                               *)

\* The unsigned division is a way into the signed one, and counts when its
\* branches lead into one that is there too.
Natives(t) ==
  LET all == t.executable.natives
      signed == {all[i] : i \in {i \in DOMAIN all : all[i].kind = "Idivmod"}}
  IN Within(all, {n \in Range(all) :
       n.kind = "Uidivmod" =>
         \A to \in n.leads : \E s \in signed : s.address <= to /\ to < s.address + s.size})

ByHand(t) == FlattenSeq(t.files)
ByHandAt(t, address) == \E o \in Range(ByHand(t)) : o.module = "" /\ o.address = address

\* One written by hand goes before a native.
Replaced(t) ==
  LET taken == Within(Natives(t), {n \in Range(Natives(t)) : ~ByHandAt(t, n.address)})
  IN ByHand(t) \o [i \in DOMAIN taken |-> [module |-> "", address |-> taken[i].address, name |-> "native"]]

TwiceInFile ==
  \E f \in DOMAIN title.files : \E i, j \in DOMAIN title.files[f] :
    /\ i < j
    /\ title.files[f][i].module = title.files[f][j].module
    /\ title.files[f][i].address = title.files[f][j].address

\* The units an override's seed goes to and the first of them is the one.
NameOf(o) == IF o.module = "" THEN "executable" ELSE o.module
UnitOf(us, o) == SelectInSeq(us, LAMBDA u : u.name = NameOf(o))
NoSuchModule ==
  \E o \in Range(Replaced(title)) : UnitOf(units, o) = 0
-----------------------------------------------------------------------------
(* Discovery in a unit.                                                    *)

\* The mode an address' low bits say.
Code(v) == <<v \div 2, IF v % 2 = 1 THEN "Thumb" ELSE IF v % 4 = 0 THEN "Arm" ELSE "Neither">>

\* code_pointer, for a seed.
LeadOf(s) == [address |-> Code(s.address)[1], mode |-> Code(s.address)[2], sure |-> ~s.pointer]

ProgramWith(unit, calls, pointers) ==
  [end |-> unit.end, code |-> unit.code,
   points |-> [a \in DOMAIN unit.words |-> Code(unit.words[a])],
   relocated |-> unit.relocated, slots |-> unit.slots, calls |-> calls, pointers |-> pointers]

\* What is analyzed of a unit: those of its seeds count that are in the text.
ProgramOf(unit) ==
  LET all == [i \in DOMAIN unit.seeds |-> LeadOf(unit.seeds[i])]
      inText(sure) == [address : 0..unit.end - 1, mode : Modes, sure : {sure}]
  IN ProgramWith(unit, Within(all, inText(TRUE)), Within(all, inText(FALSE)))

\* A unit has a program, whatever leads into it.
Unit(u) ==
  /\ DOMAIN u = {"name", "end", "code", "words", "relocated", "slots", "seeds"}
  /\ Program(ProgramWith(u, <<>>, <<>>))
  /\ u.seeds \in Seq([address : Int, pointer : BOOLEAN])

ASSUME BuildAssumption ==
  /\ OwnFunction \in Nat
  /\ \A t \in Titles :
       /\ Units(t) \in Seq(Range(Units(t))) /\ Units(t) # <<>>
       /\ \A u \in Range(Units(t)) : Unit(u)
       /\ ByHand(t) \in Seq([module : STRING, address : Int, name : STRING])
       /\ t.executable.natives \in Seq([kind : STRING, address : Int, size : Int, leads : SUBSET Int])
       /\ t.hints \subseteq Int /\ IsFiniteSet(t.hints)

\* Mutant: what overrides replace is generated only where it is found anyway.
Unseeded(t, us) == us

\* Every override goes before all that led into its unit.
Seeded(t, us) ==
  [n \in DOMAIN us |->
     LET its == Within(Replaced(t), {o \in Range(Replaced(t)) : UnitOf(us, o) = n})
     IN [us[n] EXCEPT !.seeds = Sure(Reverse([i \in DOMAIN its |-> its[i].address])) \o @]]

\* analyze begins with nothing known.
Analyze(p) ==
  /\ program' = p
  /\ phase' = "scan"
  /\ queue' = p.calls /\ guesses' = p.pointers
  /\ functions' = <<>>
  /\ map' = [o \in 0..p.end - 1 |->
               IF p.relocated /\ {o, o - 1} \cap p.slots # {} THEN "Literal" ELSE "Unknown"]
  /\ modes' = [o \in 0..p.end - 1 |-> {}]
  /\ entries' = {} /\ rejected' = {} /\ guessed' = {} /\ joins' = {}
  /\ cuts' = [a \in 0..p.end - 1 |-> {}]
  /\ exploring' = FALSE /\ ex' = Nowhere /\ trial' = NoTrial
  /\ round' = NoRound

Nothing == [end |-> 0, code |-> [m \in Modes |-> <<>>], points |-> <<>>, relocated |-> FALSE,
            slots |-> {}, calls |-> <<>>, pointers |-> <<>>]

BuildInit ==
  /\ title \in Titles /\ units = Units(title)
  /\ stage = "load" /\ found = <<>>
  /\ program = Nothing /\ phase = "done"
  /\ queue = <<>> /\ guesses = <<>> /\ functions = <<>> /\ map = <<>> /\ modes = <<>>
  /\ entries = {} /\ rejected = {} /\ guessed = {} /\ joins = {} /\ cuts = <<>>
  /\ exploring = FALSE /\ ex = Nowhere /\ trial = NoTrial /\ round = NoRound

Fail ==
  /\ stage = "load"
  /\ TwiceInFile \/ NoSuchModule
  /\ stage' = "failed"
  /\ UNCHANGED <<vars, title, units, found>>

Load ==
  /\ stage = "load"
  /\ ~TwiceInFile /\ ~NoSuchModule
  /\ stage' = "analyze"
  /\ units' = Seeded(title, units)
  /\ \E p \in {ProgramOf(units'[1])} : Analyze(p)
  /\ UNCHANGED <<title, found>>

Discovering == stage \in {"analyze", "again"} /\ Next /\ UNCHANGED buildVars

NextUnit ==
  /\ stage = "analyze" /\ phase = "done"
  /\ found' = Append(found, [functions |-> functions, map |-> map])
  /\ IF Len(found) + 1 < Len(units)
     THEN (\E p \in {ProgramOf(units[Len(found) + 2])} : Analyze(p)) /\ UNCHANGED stage
     ELSE stage' = "hints" /\ UNCHANGED vars
  /\ UNCHANGED <<title, units>>
-----------------------------------------------------------------------------
(* apply_hints                                                             *)

\* The mode of an instruction there, whatever its low bits.
ModeOf(v) == IF v % 2 = 1 THEN "Thumb" ELSE "Arm"

Owned(v) ==
  LET fs == found[1].functions
  IN \E e \in DOMAIN fs : fs[e].mode = ModeOf(v) /\ v \div 2 \in fs[e].code

Hinted == {v \in title.hints : v \div 2 \in 0..title.executable.end - 1}
NewFunctions == {v \in Hinted : ~Owned(v)}

NoHints ==
  /\ stage = "hints" /\ NewFunctions = {}
  /\ stage' = "generate"
  /\ UNCHANGED <<vars, title, units, found>>

AnalyzeAgain ==
  /\ stage = "hints" /\ NewFunctions # {}
  /\ stage' = "again"
  /\ \E outside \in Sorted(NewFunctions) : units' = [units EXCEPT ![1].seeds = @ \o Sure(outside)]
  /\ \E p \in {ProgramOf(units'[1])} : Analyze(p)
  /\ UNCHANGED <<title, found>>

TakeAgain ==
  /\ stage = "again" /\ phase = "done"
  /\ stage' = "generate"
  /\ found' = [found EXCEPT ![1] = [functions |-> functions, map |-> map]]
  /\ UNCHANGED <<vars, title, units>>
-----------------------------------------------------------------------------
(* codegen::generate                                                       *)

\* The functions of a unit that become C.
Recompiled(fs) == {e \in DOMAIN fs : e \in fs[e].labels}

\* rank: a function only moves into a bigger one.
Outranks(fs, d, e) ==
  LET size(f) == Cardinality(fs[f].code)
  IN size(d) > size(e) \/ (size(d) = size(e) /\ d < e)

\* Mutant: it need not have a label there.
OwnersByCode(fs, e) ==
  {d \in Recompiled(fs) :
     fs[d].mode = fs[e].mode /\ Outranks(fs, d, e) /\ fs[e].code \subseteq fs[d].code}

\* Those that hold the code of the function at e and have a label where it starts.
Owners(fs, e) ==
  {d \in Recompiled(fs) :
     /\ e \in fs[d].labels /\ fs[d].mode = fs[e].mode
     /\ Outranks(fs, d, e)
     /\ fs[e].code \subseteq fs[d].code}

Parent(fs, e) == CHOOSE d \in Owners(fs, e) : \A o \in Owners(fs, e) : o = d \/ Outranks(fs, d, o)

\* containers, where the small ones get a function of their own as well.
Homes(fs) ==
  LET top[e \in Recompiled(fs)] == IF Owners(fs, e) = {} THEN e ELSE top[Parent(fs, e)]
  IN [e \in Recompiled(fs) |-> IF Cardinality(fs[e].code) > OwnFunction THEN top[e] ELSE e]

Written(fs) == {e \in Recompiled(fs) : Homes(fs)[e] = e}

Key(a, mode) == IF mode = "Thumb" THEN 2 * a + 1 ELSE 2 * a

\* A C function, by its entry or by the number of the override it is.
Generated(e) == [kind |-> "generated", at |-> e]
Override(i) == [kind |-> "override", at |-> i]

\* The overrides of the unit, the executable's name no module.
InUnit(n) == {i \in DOMAIN Replaced(title) : Replaced(title)[i].module = IF n = 1 THEN "" ELSE units[n].name}
At(n, k) == {i \in InUnit(n) : Replaced(title)[i].address = k}
Latest(S) == CHOOSE i \in S : \A j \in S : j <= i

GeneratedNames(fs) ==
  [k \in {Key(e, fs[e].mode) : e \in Recompiled(fs)} |-> Generated(Homes(fs)[k \div 2])]

\* Where calls go, an override last of all.
Names(n, fs) ==
  LET names == GeneratedNames(fs)
  IN [k \in DOMAIN names \cup {Replaced(title)[i].address : i \in InUnit(n)} |->
        IF At(n, k) # {} THEN Override(Latest(At(n, k))) ELSE names[k]]

\* What an override calls as the original, what went by the name before it.
Originals(n, fs) ==
  LET names == GeneratedNames(fs)
      before(i) == {j \in At(n, Replaced(title)[i].address) : j < i}
  IN [i \in {i \in InUnit(n) : before(i) # {} \/ Replaced(title)[i].address \in DOMAIN names} |->
        IF before(i) # {} THEN Override(Latest(before(i))) ELSE names[Replaced(title)[i].address]]

\* Where the host goes for a label, to the function that starts there before
\* another that has it.
Entries(n, fs) ==
  LET keys(e) == {Key(l, fs[e].mode) : l \in fs[e].labels}
      with(k) == {e \in Written(fs) : k \in keys(e)}
      first(S) == CHOOSE e \in S : \A d \in S : e <= d
  IN [k \in (UNION {keys(e) : e \in Written(fs)}) \cup {Replaced(title)[i].address : i \in InUnit(n)} |->
        IF At(n, k) # {} THEN Override(Latest(At(n, k)))
        ELSE Generated(IF k \div 2 \in with(k) THEN k \div 2 ELSE first(with(k)))]

\* The overrides there is a note about, for want of code to replace.
Noted(fs, i) ==
  ~\E e \in DOMAIN fs :
     fs[e].mode = ModeOf(Replaced(title)[i].address) /\ Replaced(title)[i].address \div 2 \in fs[e].labels

Generate ==
  /\ stage = "generate"
  /\ stage' = "written"
  /\ UNCHANGED <<vars, title, units, found>>

BuildNext ==
  Fail \/ Load \/ Discovering \/ NextUnit \/ NoHints \/ AnalyzeAgain \/ TakeAgain \/ Generate

BuildSpec == BuildInit /\ [][BuildNext]_<<vars, buildVars>> /\ WF_<<vars, buildVars>>(BuildNext)
-----------------------------------------------------------------------------
\* Whatever is sure to lead into a unit, its entry, exports, relocations and
\* overrides, what other units import from it and the hints that are outside of
\* functions, starts a function there, and in code that is not split the host finds
\* code for it, unless it is data or does not decode, or the function is in the
\* other mode.
LeadsAreEntries ==
  /\ stage = "written" =>
       \A n \in DOMAIN found :
         LET p == ProgramOf(units[n])
         IN \A i \in DOMAIN p.calls : p.calls[i].address \in DOMAIN found[n].functions
  /\ phase = "done" /\ round.number = 0 =>
       \A i \in DOMAIN program.calls :
         LET l == program.calls[i]
         IN \/ \E d \in Written(functions) : functions[d].mode = l.mode /\ l.address \in functions[d].labels
            \/ IsData(l.address) \/ ~Decoded(l.address, l.mode)
            \/ Known(l) /\ functions[l.address].mode # l.mode

\* Where a function another holds is run by that, it has all the labels of it, so
\* that a call and the host can come in wherever they could in the function, in
\* code that is not split.
Enterable(fs) == \A e \in Recompiled(fs) : fs[e].labels \subseteq fs[Homes(fs)[e]].labels
HomesHaveLabels == phase = "done" /\ round.number = 0 => Enterable(functions)

\* The comment at the top of codegen/mod.rs: "every function becomes a C function
\* that can be entered at any of its labels".
LabelsAreEntries ==
  stage = "written" =>
    \A n \in DOMAIN found :
      LET fs == found[n].functions
      IN \A e \in Recompiled(fs) : \A l \in fs[e].labels :
           Key(l, fs[e].mode) \in DOMAIN Entries(n, fs)

\* What is called as the original leads to generated code, through other overrides
\* of the same address if there are any.
Chain(n, fs, i) ==
  LET o == Originals(n, fs)
      end[j \in DOMAIN o] ==
        IF o[j].kind = "override" /\ o[j].at \in DOMAIN o THEN end[o[j].at] ELSE o[j]
  IN i \in DOMAIN o /\ end[i].kind = "generated"

\* An override there is no note about has generated code for its original, unless
\* the function there has none or is in the other mode, and where one is written by
\* hand, calls and the host run what is, never a native.
OverridesRun ==
  stage = "written" =>
    \A n \in DOMAIN found : \A i \in InUnit(n) :
      LET fs == found[n].functions
          o == Replaced(title)[i]
          t == o.address \div 2
      IN /\ UnitOf(units, o) = n =>
              \/ Noted(fs, i) \/ Chain(n, fs, i)
              \/ t \in DOMAIN fs /\ (fs[t].mode # ModeOf(o.address) \/ t \notin fs[t].code)
         /\ i <= Len(ByHand(title)) =>
              \A tab \in {Names(n, fs), Entries(n, fs)} :
                LET run == tab[o.address] IN run.kind = "override" /\ run.at <= Len(ByHand(title))

\* Every unit is analyzed and written, and those overrides that name no unit fail.
Ends == <>(stage \in {"written", "failed"})
=============================================================================
