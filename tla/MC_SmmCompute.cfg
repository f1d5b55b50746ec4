CONSTANTS
  KERNEL_DIM = 2
  W_DATA = 1
  Zero = Zero
  Shapes <- MCShapes

SPECIFICATION Spec

\* The call returns once every tile is done: the final state has no successor.
CHECK_DEADLOCK FALSE

INVARIANT TypeOK
INVARIANT DrainExact
PROPERTY TGSpec
