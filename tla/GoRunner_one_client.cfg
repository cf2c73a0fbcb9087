\* One client, two lines, an HTTP step that captures and repeats and a TCP
\* step, a deadline.
CONSTANTS
  NClients = 1
  NSteps = 2
  TcpSteps = {2}
  MustCapture = {1}
  RepeatSteps = {1}
  Timed = TRUE
  MaxLines = 2
  MaxRequests = 2
  Delims = {0}
SPECIFICATION FairSpec
INVARIANTS
  CountsAddUp
  AtMostOneLate
  ZeroMeansAllFound
PROPERTIES
  StepsThrough
  EveryLineServed
