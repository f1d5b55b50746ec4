CONSTANTS
  KERNEL_DIM = 2
  W_DATA = 1
  Zero = Zero
  Shapes <- PassShapes
  CORE_NUM = 2
  TEAM = 2
  BLOCK_ROWS = 1
  L1_IN = 4
  L1_OUT = 2
  L2_ROWS = 4
  L2_SIZE = 8

SPECIFICATION Spec

\* The call returns once every thread has left the region.
CHECK_DEADLOCK FALSE

INVARIANT TypeOK
INVARIANT OutputOwnership
PROPERTY TGSpec
