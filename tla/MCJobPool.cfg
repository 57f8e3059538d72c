CONSTANTS
  j1 = j1
  j2 = j2
  j3 = j3
  Unknown = Unknown
  NoSource = NoSource
  Jobs <- MCJobs
  Sources <- MCSources
  Needs <- MCNeeds
  Spare <- MCSpare
SPECIFICATION Spec
INVARIANTS
  TypeOK
  EachSourceOnce
  Ledger
  MemoryBound
  SleeperHasWaker
  ToldIsDone
  OutcomeIsRight
PROPERTIES
  CancelStopsEachJob
  Returns
