SPECIFICATION Spec
CONSTANTS
  MaxMoves = 2
  Asserts = FALSE
  Codes = {0, 200, 503}
  Lengths <- DefLengths
  Boards <- DefBoards
  Resets <- DefResets
  Moves <- DefMoves
INVARIANTS CutOffUnknown
CHECK_DEADLOCK FALSE
