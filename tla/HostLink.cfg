SPECIFICATION Spec
INVARIANTS
  TypeOK
  NoUseAfterFree
  NoFrameDropped
  EverythingReleased
  DeadLinkIsNotUp
PROPERTIES
  StopReturns
