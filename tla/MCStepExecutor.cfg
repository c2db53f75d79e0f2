SPECIFICATION FairSpec
CONSTANTS
  Setups <- MCSetups
  Accounts <- MCAccounts
  ActiveAccount <- MCActiveAccount
  Answers <- MCAnswers
  None = None
  MaxAccounts = 2
  MaxRetries = 2
  MaxNow = 3
  MaxSteps = 2
INVARIANTS
  TypeOK
  PinnedStepStays
  SuspensionJustified
  AttemptNamesCaller
PROPERTIES
  BlockedAccountRests
  StepReturns
CHECK_DEADLOCK FALSE
