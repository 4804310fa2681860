SPECIFICATION Spec
CONSTANTS
  p1 = p1
  p2 = p2
  Register1 <- MCRegister1
  Register2 <- MCRegister2
  ChecksumError = ChecksumError
  On = On
  Off = Off
  Ports = {p1, p2}
  Configured = {p1}
  Readings = {On, Off}
  Err = Err
  NoValue = NoValue
  Tolerance = 2
  Second = 2
  Delays = {1, 3}
  MaxTime = 9
INVARIANTS
  ClicksHaveDowns
CHECK_DEADLOCK FALSE
