----------------------------- MODULE MCLibrary -----------------------------
\* An executable of two functions, one of which is in two parts around the
\* other and shares its end, with an override; a module of two functions and
\* one of a single one, loaded at either of two places, the second of which
\* ends where addresses do.
EXTENDS Library, TLC

MCModules == {1, 2}
MCFunctions == [u \in 0..2 |-> 1..<<2, 2, 1>>[u + 1]]
MCStart == [u \in 0..2 |-> [f \in MCFunctions[u] |-> f - 1]]
\* Function 1 of the executable is 0 and 3, function 2 is 1 to 3.
MCPieces == [u \in 0..2 |->
  << <<<<0, 1>>, <<1, 3>>, <<3, 4>>>>,
     <<<<0, 1>>, <<1, 3>>>>,
     <<<<0, 2>>>> >>[u + 1]]
Of(first, end) == [first |-> first, end |-> end]
MCRuns == [u \in 0..2 |->
  << << <<Of(0, 1), Of(2, 3)>>, <<Of(1, 3)>> >>,
     << <<Of(0, 2)>>, <<Of(1, 2)>> >>,
     << <<Of(0, 1)>> >> >>[u + 1]]
MCCode == [u \in 0..2 |-> << <<{0, 3}, {1, 2, 3}>>, <<{0, 1, 2}, {1, 2}>>, <<{0, 1}>> >>[u + 1]]
MCEntries == [u \in 0..2 |->
  << 0 :> NO_ORIGIN @@ 1 :> 2 @@ 2 :> 2 @@ 3 :> 1, 0 :> 1 @@ 1 :> 2, 0 :> 1 >>[u + 1]]
MCSize == [u \in 0..2 |-> <<4, 3, 2>>[u + 1]]
MCMade == [u \in 0..2 |-> [a \in Addresses |-> <<a % 2, 1, (a + 1) % 2>>[u + 1]]]
MCPatchable == [u \in 0..2 |-> <<{1, 3}, {2}, {1}>>[u + 1]]
=============================================================================
