CONSTANTS
  Tasks <- MCTasks
  Ops <- MCOps
  Caps <- MCCaps
  MaxFaults = 2

SPECIFICATION AccelSpec

INVARIANTS
  AnswerIsMine
  VerdictTrue
PROPERTIES
  OperationEnds
  LinkRecovers
