\* One title, for a label that only the host has no way into.
CONSTANTS
  Programs = {}
  Titles <- MCSwallowed
  OwnFunction = 1
  Huge = 4
  Far = 4
  JudgedArm = 2
  JudgedThumb = 2
  MostConditional = 1
  ArmStart = 2
  ThumbFlowWithin = 2
SPECIFICATION BuildSpec
INVARIANT LabelsAreEntries
CHECK_DEADLOCK FALSE
