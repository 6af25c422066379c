SPECIFICATION Spec
CONSTANTS  Threads = {"worker", "main"}  Sizes <- MCSizesShort  MaxBuffers = 2
INVARIANTS SlabsFit
CHECK_DEADLOCK FALSE
