\* Two untimed clients with one request each.
CONSTANTS
  NClients = 2
  NSteps = 1
  TcpSteps = {}
  MustCapture = {}
  RepeatSteps = {}
  Timed = FALSE
  MaxLines = 2
  MaxRequests = 0
  Delims = {1}
SPECIFICATION Spec
INVARIANT ZeroMeansAllFound
