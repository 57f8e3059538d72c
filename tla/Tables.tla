------------------------------- MODULE Tables -------------------------------
(***************************************************************************)
(* The tables a library has of its units, the executable and its modules:  *)
(* what generate and write_origins of src/src/codegen/mod.rs write.        *)
(*                                                                         *)
(* Addresses in a unit are offsets from where it is loaded, 0 for the      *)
(* executable.                                                             *)
(***************************************************************************)
EXTENDS Integers, FiniteSets, SequencesExt

CONSTANTS
  Executable,  \* the executable's unit
  Modules,     \* the units of the modules
  Functions,   \* unit -> its functions
  Start,       \* unit -> function -> where it starts
  Code,        \* unit -> function -> the addresses it was made from
  Pieces,      \* unit -> the pieces its code is cut into
  Runs,        \* unit -> function -> its runs of pieces
  Entries,     \* unit -> entry -> its owner, NO_ORIGIN for an override
  NO_ORIGIN,
  Size,        \* unit -> where its code ends
  Top,         \* 2^32, where addresses wrap
  Values,      \* what there can be at an address
  Made         \* unit -> address -> what was there when the library was made

Units == {Executable} \cup Modules
Addresses == 0..Top - 1

\* A run as write_origins and Library count it, from 0, holds pieces
\* first + 1 to end.
InPiece(u, i) == Pieces[u][i][1]..Pieces[u][i][2] - 1
InRuns(u, f) ==
  UNION {InPiece(u, i) : i \in UNION {r.first + 1..r.end : r \in ToSet(Runs[u][f])}}

ASSUME TablesAssumption ==
  /\ Top \in Nat \ {0}
  /\ Executable \notin Modules
  /\ \A u \in Units :
       /\ Code[u] \in [Functions[u] -> SUBSET (0..Size[u] - 1)]
       /\ Start[u] \in [Functions[u] -> Addresses]
       /\ \A f, g \in Functions[u] : Start[u][f] = Start[u][g] => f = g
       /\ Size[u] \in Addresses
       /\ DOMAIN Entries[u] \subseteq 0..Size[u] - 1
       /\ \A a \in DOMAIN Entries[u] : Entries[u][a] \in Functions[u] \cup {NO_ORIGIN}
       /\ NO_ORIGIN \notin Functions[u]
       /\ Made[u] \in [Addresses -> Values]

\* What OriginsProofs shows of write_origins.
ASSUME OriginsAssumption ==
  \A u \in Units :
    /\ Pieces[u] \in Seq(Nat \X Nat)
    /\ \A f \in Functions[u] :
         /\ Runs[u][f] \in Seq([first : 0..Len(Pieces[u]), end : 0..Len(Pieces[u])])
         /\ Code[u][f] = InRuns(u, f)
=============================================================================
