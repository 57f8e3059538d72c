------------------------------- MODULE Title -------------------------------
(***************************************************************************)
(* What a title is made of and the programs src/src/lib.rs makes of it:    *)
(* the executable, the CRO modules in its RomFS (src/src/cro.rs) and the   *)
(* CRS that describes the executable, each with what leads into its code.  *)
(*                                                                         *)
(* Addresses are bytes, odd for Thumb, and an executable's count from its  *)
(* text.  Code is what decode makes of the text once the relocations are   *)
(* written.  What may be missing is a set of one member or none.           *)
(***************************************************************************)
EXTENDS Integers, SequencesExt

\* A tag is a segment and an offset in it.
Resolve(m, tag) ==
  {m.segments[tag[1]].offset + tag[2] :
     s \in {s \in {tag[1]} \cap DOMAIN m.segments : tag[2] < m.segments[s].size}}

IsCode(m, segment) == segment \in DOMAIN m.segments /\ m.segments[segment].code

\* code_exports and code_address: a tag counts when it is in code.
CodeAddress(m, tag) == IF IsCode(m, tag[1]) THEN Resolve(m, tag) ELSE {}
CodeAddresses(m, tags) ==
  FlattenSeq([i \in DOMAIN tags |-> SetToSeq(CodeAddress(m, tags[i]))])

\* What the modules and the executable take from module m without a name.
Imported(title, m) ==
  LET others == title.modules \o title.crs
      taken(other) == SelectSeq(other.anonymous, LAMBDA i : i.module = m.name)
  IN FlattenSeq([o \in DOMAIN others |->
       CodeAddresses(m, [i \in DOMAIN taken(others[o]) |-> taken(others[o])[i].tag])])

\* The one segment of a module that is its text, the first with code in it.
Texts(m) == {s \in DOMAIN m.segments : m.segments[s].code /\ m.segments[s].size > 0}
Text(m) == m.segments[CHOOSE s \in Texts(m) : \A other \in Texts(m) : s <= other]

\* Where a relocation or an import puts an address into the text.
Slot(m, r) ==
  {t \in Resolve(m, r.target) :
     r.absolute /\ t >= Text(m).offset /\ t + 4 <= Text(m).offset + Text(m).size}

Pointing(m) == SelectSeq(m.relocations, LAMBDA r : IsCode(m, r.segment))
PointsTo(m, r) == m.segments[r.segment].offset + r.addend

\* A seed is somewhere that may be code, a pointer only when it is a guess.
Sure(addresses) == [i \in DOMAIN addresses |-> [address |-> addresses[i], pointer |-> FALSE]]

\* Module::program, its text from 0.
ModuleUnit(title, m) ==
  LET start == Text(m).offset
      all == m.relocations \o m.imports
      pointing == Pointing(m)
      written(a) == {i \in DOMAIN pointing : start + 2 * a \in Slot(m, pointing[i])}
      seeds == CodeAddresses(m, m.exports) \o Imported(title, m)
                 \o [i \in DOMAIN pointing |-> PointsTo(m, pointing[i])]
      slots == {(t - start) \div 2 : t \in UNION {Slot(m, all[i]) : i \in DOMAIN all}}
      held == {(t - start) \div 2 : t \in UNION {Slot(m, pointing[i]) : i \in DOMAIN pointing}}
  IN [name |-> m.name, end |-> Text(m).size \div 2, code |-> m.code,
      words |-> [a \in held \cup DOMAIN m.words |->
                   IF a \in held
                   THEN PointsTo(m, pointing[CHOOSE i \in written(a) : \A j \in written(a) : j <= i]) - start
                   ELSE m.words[a] - start],
      relocated |-> TRUE, slots |-> slots,
      seeds |-> Sure([i \in DOMAIN seeds |-> seeds[i] - start])]

\* Image::into_program: any word of the data that lands in the code is a pointer.
Executable(title) ==
  LET exe == title.executable
      of(m) == CodeAddresses(m, m.exports) \o Imported(title, m)
      leads == <<exe.entry>> \o FlattenSeq([i \in DOMAIN title.crs |-> of(title.crs[i])])
      lands == SelectSeq(exe.data, LAMBDA v : v >= 0 /\ v < 2 * exe.end)
  IN [name |-> "executable", end |-> exe.end, code |-> exe.code, words |-> exe.words,
      relocated |-> FALSE, slots |-> {},
      seeds |-> Sure(leads) \o [i \in DOMAIN lands |-> [address |-> lands[i], pointer |-> TRUE]]]

\* programs: the executable first, and the modules that have code.
Units(title) ==
  LET modules == SelectSeq(title.modules, LAMBDA m : Texts(m) # {})
  IN <<Executable(title)>> \o [i \in DOMAIN modules |-> ModuleUnit(title, modules[i])]
=============================================================================
