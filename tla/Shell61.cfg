SPECIFICATION Spec
CONSTANTS
  Pids = {1, 2, 3, 4, 5}
  Existing <- DefExisting
  NoDir <- DefNoDir
INVARIANTS ParseRight ChainsRight PipeEndsRight TerminalRight
PROPERTIES EverythingEnds
CHECK_DEADLOCK FALSE
