SPECIFICATION FairSpec
CONSTANTS
  p1 = p1
  p2 = p2
  Ports = {p1, p2}
  Configured = {p1}
  Values <- MCValues
  Readings <- MCValues
  Err = Err
  NoValue = NoValue
  NoPort = NoPort
  Alias = Alias
  Default <- MCDefaults
  Requests <- MCPartialRequests
  MaxRequests = 0
  MaxFaults = 0
PROPERTIES
  FlushedWhenSet
