SPECIFICATION Spec
CONSTANTS
  Conns = {c1, c2}
  NoConn = NoConn
  Slices = 2
  AnnceQLen = 1
  MaxRequests = 1
  MaxAnnce = 1
  MaxLosses = 1
PROPERTIES
  NextClientServed
  LossFreesServer
  AnnceReachesWaiter
