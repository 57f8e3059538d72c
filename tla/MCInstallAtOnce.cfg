\* Two builds that install at once and a host.
CONSTANTS
  Builds = {b1, b2}
  Hosts = {h1}
  Files = {f1, f2, f3}
  Last = 0
  Windows = FALSE
  AtOnce = TRUE
  NONE = none
SPECIFICATION Spec
PROPERTY HostKeeps
CHECK_DEADLOCK FALSE
