SPECIFICATION FairUniverseSpec
CONSTANTS
  p1 = p1
  a = a
  b = b
  light = light
  fan = fan
  fog = fog
  Ports = {p1}
  OtherPorts = {light, fan, fog}
  Readings = {a, b}
  Err = Err
  NoValue = NoValue
  NoAlias = NoAlias
  NotSynchronized = NotSynchronized
  Names <- MCNames
  Lower <- MCLower
  PortAlias <- MCPortAlias
  Configurations <- MCConfigurations
  MaxReadings = 4
  MaxFaults = 1
INVARIANTS
  InOrderOnce
  ParkedMeansRecorded
  AddressesAgree
  GetIsNotBehind
PROPERTIES
  ReportsArrive
CHECK_DEADLOCK FALSE
