SPECIFICATION Spec
CONSTANTS  Threads = {"worker", "main"}  Sizes <- MCSizes  MaxBuffers = 2
INVARIANTS SlabsFit
CHECK_DEADLOCK FALSE
