---------------------------- MODULE Instructions ----------------------------
(***************************************************************************)
(* The guest's code and what its instructions do, as far as control goes:  *)
(* what src/src/codegen/arm.rs and thumb.rs tell apart when they lower an  *)
(* instruction, and what the host's interpreter does when it runs one.     *)
(*                                                                         *)
(* An instruction is known by its key, its address with bit 0 set for      *)
(* Thumb, as the entry table and Host::lookup know it.  Registers other    *)
(* than r15 and r14, memory other than the code and the return addresses   *)
(* pushed on the stack, and the flags are left out: whether a condition    *)
(* holds is either, and where a register leads is any of the targets the   *)
(* instruction has.                                                        *)
(***************************************************************************)
EXTENDS Integers, SequencesExt

CONSTANTS
  Made,       \* the code the library was made from: key -> instruction
  Modded,     \* what memory holds instead once a mod is in
  Home,       \* RETURN: where the outermost function returns to, no code there
  Starts,     \* the keys the host starts the guest at
  StackSize   \* bound: the return addresses the stack remembers

Keys == DOMAIN Made

\* What an instruction may do: go on, set r14 to another return address (link),
\* branch, to an address or through a register (bx), call, likewise, return,
\* return without a look at the state bit (mov pc, lr), save r14, return to what was
\* saved, ask the kernel, and what only the interpreter knows (und).
Operations ==
  {"plain", "link", "b", "bx", "bl", "blx", "return", "movpc", "push", "pop",
   "svc", "und"}

\* to: where it may lead besides the next one.  cond: whether it may be
\* skipped.
Instruction ==
  [op : Operations, to : SUBSET (Keys \cup {Home}), cond : BOOLEAN]

Mode(k) == k % 2
Address(k) == k - Mode(k)
Width(k) == IF Mode(k) = 1 THEN 2 ELSE 4
After(k) == k + Width(k)

\* Where mov pc, lr at k leads with l in r14: on in the state it is in.
Kept(k, l) == IF Mode(k) = 1 THEN Address(l) + 1 ELSE l - (l % 4)

ASSUME InstructionsAssumption ==
  /\ Keys \subseteq Nat
  /\ \A k \in Keys : Mode(k) = 0 => k % 4 = 0
  /\ Made \in [Keys -> Instruction]
  /\ Modded \in [Keys -> Instruction]
  /\ \A k \in Keys : Made[k].op = "b" => \A t \in Made[k].to : Mode(t) = Mode(k)
  /\ Home \in Nat \ Keys
  /\ Starts \subseteq Keys
  /\ StackSize \in Nat \ {0}

\* What push and pop do to the return addresses on the stack.
Saved(s, l) == Append(IF Len(s) = StackSize THEN Tail(s) ELSE s, l)
Popped(s) == IF s = <<>> THEN Home ELSE Last(s)
Rest(s) == IF s = <<>> THEN s ELSE Front(s)

\* What may become of the guest when it runs instruction i at k with l in
\* r14 and s on its stack.
Outcomes(i, k, l, s) ==
  LET Goes(p, r, t, a) == [pc |-> p, lr |-> r, stack |-> t, asked |-> a]
      At(p) == Goes(p, l, s, FALSE)
      Does ==
        CASE i.op = "plain" -> {At(After(k))}
          [] i.op = "link" -> {Goes(After(k), t, s, FALSE) : t \in i.to}
          [] i.op \in {"b", "bx"} -> {At(t) : t \in i.to}
          [] i.op \in {"bl", "blx"} -> {Goes(t, After(k), s, FALSE) : t \in i.to}
          [] i.op = "return" -> {At(l)}
          [] i.op = "movpc" -> {At(Kept(k, l))}
          [] i.op = "push" -> {Goes(After(k), l, Saved(s, l), FALSE)}
          [] i.op = "pop" -> {Goes(Popped(s), l, Rest(s), FALSE)}
          [] i.op = "svc" -> {Goes(After(k), l, s, TRUE)}
          [] i.op = "und" -> {At(t) : t \in i.to \cup {After(k)}}
  IN Does \cup (IF i.cond THEN {At(After(k))} ELSE {})
=============================================================================
