SPECIFICATION Spec
CONSTANTS
  Conns = {c1, c2}
  NoConn = NoConn
  Slices = 3
  AnnceQLen = 2
  MaxRequests = 2
  MaxAnnce = 3
  MaxLosses = 0
SYMMETRY Symmetry
INVARIANTS
  TypeOK
  OneClientAtATime
  AnswersInOrder
  AnnceAccounting
  AtMostOneSliceWasted
