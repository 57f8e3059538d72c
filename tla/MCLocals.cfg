\* One common way out, so that some share the other.
CONSTANTS
  Functions <- MCFunctions
  Exits = 1
SPECIFICATION Spec
INVARIANT TypeOK
INVARIANT ReadsAreRight
INVARIANT ContextIsWhole
PROPERTY KeepEnds
