----------------------------- MODULE MCOrigins -----------------------------
\* Two functions, each any instructions of one or two halfwords at four
\* halfwords, overlapping ones as well; and three functions, each any at two
\* halfwords, or two instructions that do not overlap at four.
EXTENDS Origins

CodeAt(n) ==
  LET Sizes == UNION {[S -> {1, 2}] : S \in SUBSET (0..n - 1)}
      InOrder(f) == LET a == SetToSortSeq(DOMAIN f, <)
                    IN [i \in 1..Len(a) |-> <<a[i], a[i] + f[a[i]]>>]
  IN {InOrder(f) : f \in Sizes}

MCUnits ==
  {<<f, g>> : f, g \in CodeAt(4)} \cup {<<f, g, h>> : f, g, h \in CodeAt(2)}
  \cup {<<f, g, h>> : f, g, h \in {c \in CodeAt(4) : Len(c) = 2 /\ c[1][2] <= c[2][1]}}
=============================================================================
