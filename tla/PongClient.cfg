SPECIFICATION Spec
CONSTANTS
  MaxMoves = 4
  Asserts = FALSE
  Codes = {0, 200, 404, 503}
  Lengths <- DefLengths
  Boards <- DefBoards
  Resets <- DefResets
  Moves <- DefMoves
INVARIANTS ResponseRight MovesInOrder
PROPERTIES GameGoesOn
CHECK_DEADLOCK FALSE
