SPECIFICATION FairSpec
CONSTANTS
  p1 = p1
  p2 = p2
  Ports = {p1, p2}
  Configured = {p1, p2}
  Values <- MCValues
  Readings <- MCReadings
  LOW = 0
  HIGH = 65535
  Err = Err
  NoValue = NoValue
  NoPort = NoPort
  Alias = Alias
  Default <- MCDefaults
  Requests <- MCRequests
  MaxRequests = 3
  MaxFaults = 1
INVARIANTS
  TypeOK
  CleanMeansWrittenInOrder
PROPERTIES
  UpdatesAreWritten
CHECK_DEADLOCK FALSE
