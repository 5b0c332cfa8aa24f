CONSTANTS
  Attempts = {1, 2, 3}
  NoAttempt = 0
  MaxCrashes = 1
  MaxFaults = 1
SPECIFICATION FairAgentSpec
CONSTRAINT DrawnInOrder
CHECK_DEADLOCK FALSE
INVARIANTS
  AgentTypeOK
  RunnerHoldsLease
  RetryIsCurrent
  PromptWritesOnce
PROPERTIES
  ContractSpec
  AttemptsEnd
