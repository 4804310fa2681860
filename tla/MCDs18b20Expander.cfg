SPECIFICATION FairSpec
CONSTANTS
  p1 = p1
  p2 = p2
  a = a
  b = b
  c = c
  d = d
  Ports = {p1, p2}
  Readings <- MCReadings
  Err = Err
  NoValue = NoValue
  Junk = Junk
  Buses = 4
  Silent = {a, b}
  Wired <- MCWired
  SensorOf <- MCSensorOf
  Retries = 2
  MaxFaults = 2
  MaxQueue = 1
INVARIANTS
  TypeOK
  RightSensor
  Decoding
PROPERTIES
  RoundsAreTold
  ReadoutsRecover
