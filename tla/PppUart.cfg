SPECIFICATION Spec
CONSTANTS
  MaxFaults = 2
  MaxPeerDowns = 2
  MaxEvents = 6
INVARIANTS
  TypeOK
  RestartsFromDead
  SomeoneRecovers
  LinkBitHonest
PROPERTIES
  LinkRecovers
CHECK_DEADLOCK FALSE
