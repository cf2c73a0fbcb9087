\* Two requests share a client; accepting may fail at any moment.
CONSTANTS
  NClients = 1
  NSteps = 1
  TcpSteps = {1}
  MustCapture = {}
  RepeatSteps = {}
  Timed = FALSE
  MaxLines = 3
  MaxRequests = 0
  NPosts = 2
SPECIFICATION FairSpec
INVARIANTS
  TypeOK
  NoRowLost
  AcknowledgedServed
PROPERTIES
  KeepsPromise
  RowSettles
