SPECIFICATION FairSpec
CONSTANTS
  p1 = p1
  p2 = p2
  Ports = {p1, p2}
  Configured = {p1, p2}
  Values <- MCValues
  Readings <- MCValues
  Err = Err
  NoValue = NoValue
  NoPort = NoPort
  Alias = Alias
  Default <- MCDefaults
  Requests <- MCRequests
  MaxRequests = 2
  MaxFaults = 1
INVARIANTS
  TypeOK
  CleanMeansWritten
  ReportedMeansWritten
  SubscriberUpToDate
  AcknowledgedIsAwake
PROPERTIES
  ImplementsOutputDevice
  AcknowledgedIsWritten
