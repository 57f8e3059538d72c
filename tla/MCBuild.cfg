\* Functions of more than Huge instructions are split, judged guesses have two
\* instructions or more, and those of more than OwnFunction are run by others.
CONSTANTS
  Programs = {}
  Titles <- MCTitles
  OwnFunction = 1
  Huge = 4
  Far = 4
  JudgedArm = 2
  JudgedThumb = 2
  MostConditional = 1
  ArmStart = 2
  ThumbFlowWithin = 2
SPECIFICATION BuildSpec
INVARIANT TypeOK
INVARIANT MarksAreHeld
INVARIANT PathsAreFollowed
INVARIANT JoinsAreLabels
INVARIANT LeadsAreEntries
INVARIANT HomesHaveLabels
INVARIANT OverridesRun
CHECK_DEADLOCK FALSE
PROPERTY Ends
