SPECIFICATION Spec
CONSTANTS
  MaxAttempts = 2
  MaxPolls = 2
  LastReads = 2
  MaxSignals = 2
INVARIANTS
  TypeOK
  SocketsBalanced
  HandlerShutsItsSocket
  InterruptUnblocksFirstRun
PROPERTIES
  ClientEnds
