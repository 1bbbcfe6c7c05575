CONSTANTS
  b1 = b1
  b2 = b2
  Balls = {b1, b2}
  NoBall = NoBall
  Width = 2
  Height = 4
  NSticky = 1
  NHoles = 1
SPECIFICATION Spec
INVARIANTS
  TypeOK
  CellsMatchBalls
  NoBallOnHole
  StillOnlyOnSticky
  RowsHeldByMoves
  DecisionStable
  NextOnBoard
PROPERTIES
  ChangesOnlyUnderLock
  ImplementsAtomic
