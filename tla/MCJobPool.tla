----------------------------- MODULE MCJobPool -----------------------------
(***************************************************************************)
(* Three jobs for three sources, under a budget that holds two of them,    *)
(* one of them or not even the biggest, or under none.                     *)
(***************************************************************************)
EXTENDS JobPool, TLC

CONSTANTS j1, j2, j3

MCJobs == {j1, j2, j3}
MCSources == 1..3
\* One that takes most of the budget and two that fit beside each other,
\* listed in an order the sort changes; and one whose file could not be read.
MCNeeds == {<<1, 3, 1>>, <<3, 0, 3>>}
MCSpare == {2, 4}
=============================================================================
