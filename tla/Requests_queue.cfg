\* Every ini file of MCRequests; three clients and an automatic ramp-up.
CONSTANTS
  Name <- MCName
  Unset = Unset
  Config <- MCRequestsConfig
  Clients = 3
  RampUp <- MCRampUp
  Junk = Junk
  MaxQueue = 5
  CallTime = 2
  Env <- MCEnv
  TimeName = {"UNIXTIME", "TIME", "TIMEX"}
  BadTime = {"TIMEX"}
  Line <- MCLine
  Captured <- MCCaptured
  Answer <- MCAnswer
  HexLimit = 1
  DigestLen = 2
  MaxInt = 10
  BlockSize = 2
  KeySize = 2
  BufSize = 5
  Radix = 4
SPECIFICATION FairRequestsSpec
INVARIANTS
  TypeOK
  ReadyIsRunnable
  ChainVisitsOnce
  RampUpFits
  RequestsTypeOK
  SentAsMeant
  SoundNeverDies
  RangeEncrypted
  ReplyWhole
PROPERTY StartupEnds
