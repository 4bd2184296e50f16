SPECIFICATION Spec
CONSTANTS
  Addr = {1, 2}
  Sensors = {1}
  Ops = {"find"}
  BoundDevices = 1
  MaxCalls = 2
PROPERTIES
  SensorStaysRemembered
