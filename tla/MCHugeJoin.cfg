\* Thresholds as in MCBuild.cfg, for one program.
CONSTANTS
  Programs <- MCHugeJoin
  Huge = 4
  Far = 4
  JudgedArm = 2
  JudgedThumb = 2
  MostConditional = 1
  ArmStart = 2
  ThumbFlowWithin = 2
SPECIFICATION Spec
INVARIANT NothingLost
CHECK_DEADLOCK FALSE
