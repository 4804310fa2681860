SPECIFICATION FairSpec
CONSTANTS
  p1 = p1
  p2 = p2
  Ports = {p1, p2}
  Configured = {p1}
  Values <- MCValues
  Readings <- MCValues
  Err = Err
  NoValue = NoValue
  NoPort = NoPort
  Alias = Alias
  Default <- MCDefaults
  Requests <- MCRequests
  MaxRequests = 2
  MaxFaults = 2
  Levels <- MCLevels
  Level <- MCLevel
  SleepAfter = TRUE
INVARIANTS
  TypeOK
  CleanMeansWritten
  SubscriberKnowsErrors
PROPERTIES
  WritesWhileAwake
  ImplementsOutputDevice
  ChangesAreShown
