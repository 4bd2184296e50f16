SPECIFICATION Spec
CONSTANTS
  Addr = {1, 2}
  Sensors = {1}
  Ops = {"find", "basic", "bind", "subscribe", "report", "temp"}
  BoundDevices = 2
  MaxCalls = 2
INVARIANTS
  TypeOK
  ReplyProvenance
  ReplyComplete
  BindReqOwnership
  SensorProvenance
PROPERTIES
  EveryCallReturns
