\* Two clients, two lines; the input may stall, the goroutines may not.
CONSTANTS
  NClients = 2
  NSteps = 1
  TcpSteps = {1}
  MustCapture = {}
  RepeatSteps = {}
  Timed = FALSE
  MaxLines = 2
  MaxRequests = 0
  Delims = {0}
SPECIFICATION FairSpec
PROPERTIES
  EveryLineServed
  ExitsAfterInput
  SignalEnds
