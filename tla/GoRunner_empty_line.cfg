\* Input lines have two fields.
CONSTANTS
  NClients = 1
  NSteps = 1
  TcpSteps = {}
  MustCapture = {}
  RepeatSteps = {}
  Timed = FALSE
  MaxLines = 2
  MaxRequests = 0
  Delims = {1}
SPECIFICATION Spec
INVARIANT EmptyLineQuits
