SPECIFICATION FairSpec
CONSTANTS
  MaxAttempts = 3
  None = None
INVARIANTS
  TypeOK
  NoAttemptForgotten
  CalledOnce
  OneIsSafe
PROPERTIES
  AttemptsEnd
CHECK_DEADLOCK FALSE
