SPECIFICATION FairSpec
CONSTANTS
  Devices = {"bme280", "dht22", "ds18", "gpio"}
  Ports <- MCPorts
  Configured = {"temperature", "pressure", "pin"}
  Readings = {0, 1, 3}
  Err = Err
  NoValue = NoValue
  Never = Never
  Jump = 2
  Resets = {Never, 2}
  MaxFaults = 3
  MaxQueue = 1
  Measurements <- MCMeasurements
  Timeout = Timeout
  Checksum = Checksum
  Suspicious = Suspicious
INVARIANTS
  TypeOK
  ResetInTime
  MissedPulse
PROPERTIES
  JumpsAreConfirmed
  ReadingsRecover
