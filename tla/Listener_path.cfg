\* One request with its input in the path.
CONSTANTS
  NClients = 1
  NSteps = 1
  TcpSteps = {}
  MustCapture = {}
  RepeatSteps = {}
  Timed = FALSE
  MaxLines = 1
  MaxRequests = 0
  NPosts = 1
SPECIFICATION Spec
INVARIANT PathIsFed
