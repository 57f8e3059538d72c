SPECIFICATION Spec
CONSTANTS
  Made <- MCMade
  Modded <- MCModded
  Home <- MCHome
  Starts <- MCStarts
  StackSize = 2
  Functions = {"a", "t", "b", "d", "e", "r", "u"}
  Entry <- MCEntry
  Body <- MCBody
  Container <- MCContainer
  Overrides = {"native", "wrapper"}
  Replaces <- MCReplaces
  Natives = {"native"}
  Cost <- MCCost
  NoCode = "nothing"
  DepthLimit = 2
  Budgets = {1, 9}
  Markable = {"a", "b", "u"}
INVARIANTS
  TypeOK
  DepthIsCalls
  StackIsBounded
  InOwnState
  RanIsCharged
  ComesBackIn
PROPERTIES
  Implements
  StaleRunsNoMore
  Progress
