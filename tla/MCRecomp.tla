------------------------------ MODULE MCRecomp ------------------------------
(***************************************************************************)
(* Small programs for TLC: ARM and Thumb code that calls in both           *)
(* directions, recursion deeper than the limit, tail calls, jumps into the *)
(* middle of another function, code nobody found, and svcs.                *)
(***************************************************************************)
EXTENDS Recomp

Do(op) == [op |-> op, to |-> {}, cond |-> FALSE]
To(op, targets) == [Do(op) EXCEPT !.to = targets]
If(i) == [i EXCEPT !.cond = TRUE]

\* a: an ARM function.  t: a Thumb one, which may return to a in Thumb state,
\* where 9 is its own instruction; a function written by hand runs around it, as
\* docs/overrides.md does.  b: an ARM one whose end, 52, is a function of its own as
\* well, which a ends in.  d: the division a native does.  e: an ARM one whose end
\* is the function r too.  u: a Thumb one.  A mod changes b and u.  92 on: code no
\* function holds.
MCMade ==
  0 :> Do("push") @@ 4 :> To("bl", {33}) @@ 8 :> If(To("b", {52})) @@
  12 :> If(To("blx", {44, 33, 80, 92, 101})) @@ 16 :> Do("svc") @@ 20 :> Do("pop") @@
  33 :> To("und", {41}) @@ 35 :> If(To("b", {39})) @@ 37 :> To("bx", {0, 16, 84}) @@
  39 :> To("link", {8, 9}) @@ 41 :> Do("return") @@
  44 :> Do("push") @@ 48 :> To("bl", {64}) @@ 52 :> If(To("b", {16})) @@
  56 :> Do("pop") @@
  64 :> Do("plain") @@ 68 :> Do("return") @@
  80 :> Do("plain") @@ 84 :> Do("plain") @@ 88 :> Do("movpc") @@
  101 :> If(To("b", {105})) @@ 103 :> Do("plain") @@ 105 :> Do("return") @@
  92 :> Do("plain") @@ 96 :> Do("return") @@
  9 :> To("bx", {20})
MCModded == [MCMade EXCEPT ![52] = Do("plain"), ![103] = Do("svc"), ![92] = Do("svc")]

MCHome == 1000
MCStarts == {0, 33}

MCEntry == [f \in {"a", "t", "b", "d", "e", "r", "u"} |->
  CASE f = "a" -> 0 [] f = "t" -> 33 [] f = "b" -> 44 [] f = "d" -> 64
    [] f = "e" -> 80 [] f = "r" -> 84 [] f = "u" -> 101]
MCBody == [f \in {"a", "t", "b", "d", "e", "r", "u"} |->
  CASE f = "a" -> {0, 4, 8, 12, 16, 20} [] f = "t" -> {33, 35, 37, 39, 41}
    [] f = "b" -> {44, 48, 52, 56} [] f = "d" -> {64, 68}
    [] f = "e" -> {80, 84, 88} [] f = "r" -> {84, 88}
    [] f = "u" -> {101, 103, 105}]
MCContainer == 52 :> "b"
MCReplaces == "native" :> 64 @@ "wrapper" :> 33
MCCost == "native" :> 2
=============================================================================
