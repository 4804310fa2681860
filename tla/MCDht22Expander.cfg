SPECIFICATION FairSpec
CONSTANTS
  s1 = s1
  Sensors = {s1}
  Ports <- MCPorts
  Readings = {"new", "used", "junk"}
  Err = Err
  NoValue = NoValue
  Never = Never
  Cycles = {Never, 1, 2, 3}
  Interval = 2
  PowerOff = 3
  Settle = 2
  Late = {0, 1}
  CounterWidth = 8
  MaxFaults = 2
  MaxQueue = 1
INVARIANTS
  TypeOK
  FreshReports
  SensorsSettled
  CycledInTime
PROPERTY
  ReadoutsGoOn
