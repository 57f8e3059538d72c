\* The functions have at most four instructions, and a unit at most three
\* functions.  write_origins ends, so there is no step after that.
CONSTANT Units <- MCUnits
SPECIFICATION Spec
INVARIANT PiecesInOrder
INVARIANT RunsAreFunctions
INVARIANT PiecesAreCode
CHECK_DEADLOCK FALSE
