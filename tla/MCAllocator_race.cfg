SPECIFICATION Spec
CONSTANTS  Threads = {"worker", "main"}  Sizes <- MCSizesTwo  MaxBuffers = 2
INVARIANTS OneOwner
CHECK_DEADLOCK FALSE
