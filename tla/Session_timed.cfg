\* Two lines, a deadline that can end either session.
CONSTANTS
  NSteps = 3
  Delay <- MCDelay
  Repeat <- MCRepeat
  Var = {"token", "id", "sum"}
  Capture <- MCCapture
  Must <- MCMust
  Func <- MCFunc
  StopTime = 24
  MaxLines = 2
  MaxLatency = 3
  CallTime = 3
  MaxSlip = 1
  MaxWait = 1
SPECIFICATION Spec
INVARIANTS
  TypeOK
  CommandTimeIsElapsed
  DeadlineKept
  OwnValues
  MustCaptured
  StackBounded
  SessionWithinEstimate
PROPERTIES
  RepeatsUseBudget
  StepsThrough
