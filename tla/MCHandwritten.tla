---------------------------- MODULE MCHandwritten ----------------------------
(***************************************************************************)
(* For TLC, the smallest program with an override around its original: p   *)
(* calls q, which has an svc in its middle.                                *)
(***************************************************************************)
EXTENDS Handwritten

Do(op) == [op |-> op, to |-> {}, cond |-> FALSE]
To(op, targets) == [Do(op) EXCEPT !.to = targets]

MCMade ==
  0 :> Do("push") @@ 4 :> To("bl", {16}) @@ 8 :> Do("pop") @@
  16 :> Do("plain") @@ 20 :> Do("svc") @@ 24 :> Do("return")

MCHome == 1000
MCStarts == {0}

MCEntry == [f \in {"p", "q"} |-> IF f = "p" THEN 0 ELSE 16]
MCBody == [f \in {"p", "q"} |-> IF f = "p" THEN {0, 4, 8} ELSE {16, 20, 24}]
MCContainer == <<>>
MCReplaces == "wrapper" :> 16
MCCost == <<>>
=============================================================================
