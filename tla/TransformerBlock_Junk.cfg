CONSTANTS
  NUM_HEADS = 2
  Junk = Junk

SPECIFICATION Spec

\* compute returns after feedForward1.
CHECK_DEADLOCK FALSE

INVARIANT EngineOutputPreZeroed
