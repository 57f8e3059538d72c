----------------------------- MODULE Handwritten -----------------------------
(***************************************************************************)
(* Recomp with a history of what an override written by hand around its    *)
(* original does, docs/overrides.md "Calling the original": something of   *)
(* its own, CALL(RECOMP_ORIGINAL(..)), and something of its own again.     *)
(***************************************************************************)
EXTENDS Recomp

VARIABLE begun   \* the part before CALL ran since the guest came to the address

\* The part before CALL and the call itself.
Before == Original

HistoryInit == Init /\ begun = FALSE

HistoryNext == Next /\ begun' = (Pc' = Pc /\ (begun \/ Before))

HistorySpec ==
  HistoryInit /\ [][HistoryNext]_<<vars, begun>> /\ WF_vars(Step)

\* docs/overrides.md, "Resuming": only entering at the address goes to the
\* override.  So the part before the original runs once each time the guest
\* comes to the address.
BeginsOnce == [][Before => ~begun]_<<vars, begun>>
=============================================================================
