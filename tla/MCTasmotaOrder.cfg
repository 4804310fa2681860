SPECIFICATION Spec
CONSTANTS
  p1 = p1
  p2 = p2
  Ports = {p1, p2}
  Configured = {p1}
  Values <- MCValues
  Readings <- MCReadings
  LOW = 0
  HIGH = 65535
  Err = Err
  NoValue = NoValue
  NoPort = NoPort
  Alias = Alias
  Default <- MCDefaults
  Requests <- MCOneRequests
  MaxRequests = 3
  MaxFaults = 0
INVARIANTS
  CleanMeansWritten
CHECK_DEADLOCK FALSE
