------------------------------- MODULE Guest -------------------------------
(***************************************************************************)
(* What a host and the recompiled code promise together, docs/interface.md *)
(* "Exits": the guest runs exactly as it would have, one instruction after *)
(* another, as the interpreter of src/src/verify.rs runs it.  An svc is    *)
(* served once, before the instruction after it.                           *)
(***************************************************************************)
EXTENDS Instructions

VARIABLES
  pc,       \* r15 and the Thumb bit: the key of the next instruction
  lr,       \* r14
  stack,    \* the return addresses the guest pushed
  asked,    \* an svc waits to be served
  modded    \* whether memory holds the code of a mod

guestVars == <<pc, lr, stack, asked>>
vars == <<guestVars, modded>>

Memory(k) == IF modded THEN Modded[k] ELSE Made[k]

Init ==
  /\ pc \in Starts
  /\ lr = Home
  /\ stack = <<>>
  /\ asked = FALSE
  /\ modded = FALSE

\* One instruction.
Run ==
  /\ ~asked
  /\ pc \in Keys
  /\ \E o \in Outcomes(Memory(pc), pc, lr, stack) :
       /\ pc' = o.pc
       /\ lr' = o.lr
       /\ stack' = o.stack
       /\ asked' = o.asked
  /\ UNCHANGED modded

\* The kernel serves an svc.
Serve ==
  /\ asked
  /\ asked' = FALSE
  /\ UNCHANGED <<pc, lr, stack, modded>>

\* The outermost function has returned and the host calls another.
Restart ==
  /\ ~asked
  /\ pc = Home
  /\ pc' \in Starts
  /\ lr' = Home
  /\ stack' = <<>>
  /\ UNCHANGED <<asked, modded>>

\* The code in memory changes: a mod, another version, a module loaded.
Reload ==
  /\ modded' = ~modded
  /\ UNCHANGED guestVars

Next == Run \/ Serve \/ Restart \/ Reload

Spec == Init /\ [][Next]_vars
=============================================================================
