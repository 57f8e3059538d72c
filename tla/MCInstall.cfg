\* Two of Windows' aside names, and more hosts than that that hold old
\* libraries.
CONSTANTS
  Builds = {b1, b2, b3, b4}
  Hosts = {h1, h2, h3}
  Files = {f1, f2, f3, f4, f5}
  Last = 1
  Windows = TRUE
  AtOnce = FALSE
  NONE = none
SYMMETRY Symmetric
SPECIFICATION Spec
INVARIANT FoundIsWhole
INVARIANT NeverWithout
PROPERTY HostKeeps
CHECK_DEADLOCK FALSE
