\* A body that is a macro of the environment, {$TIME}.
CONSTANTS
  Name <- MCName
  Unset = Unset
  Config <- MCEnvTime
  Clients = 3
  RampUp <- MCRampUp
  Junk = Junk
  MaxQueue = 5
  CallTime = 2
  Env <- MCEnv
  TimeName = {"UNIXTIME", "TIME", "TIMEX"}
  BadTime = {"TIMEX"}
  Line <- MCPlainLine
  Captured = {}
  Answer = {}
  HexLimit = 1
  DigestLen = 2
  MaxInt = 10
  BlockSize = 2
  KeySize = 2
  BufSize = 5
  Radix = 4
SPECIFICATION RequestsSpec
INVARIANT EnvIsSent
