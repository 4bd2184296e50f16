SPECIFICATION Spec
CONSTANTS
  MaxFailures = 2
  MaxNetworks = 2
  RingSize = 2
  ChunkSize = 1
  QueueSize = 2
  MaxArrivals = 5
  MaxLineEvents = 2
  MaxReboots = 1
INVARIANTS
  StrandedOnlyByReset
PROPERTIES
  ComesOnline
  ReformsOnlyAfterFailedSteering
