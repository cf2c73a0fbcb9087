\* Two clients race over two lines; a one-step session, the deadline and a
\* signal may cut in anywhere.
CONSTANTS
  NClients = 2
  NSteps = 1
  TcpSteps = {}
  MustCapture = {1}
  RepeatSteps = {}
  Timed = TRUE
  MaxLines = 2
  MaxRequests = 0
  Delims = {1}
SPECIFICATION Spec
INVARIANTS
  TypeOK
  OrderlyExitIsComplete
  OrderlyStatusExact
  OneClientPerLine
  WgCountsClients
PROPERTY KeepsPromise
