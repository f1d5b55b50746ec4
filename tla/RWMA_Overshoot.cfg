CONSTANTS
  KERNEL_DIM = 2
  W_DATA = 1
  Zero = Zero
  L1_IN = 4
  L1_OUT = 2
  L2_SIZE = 4
  Shapes <- OvershootShapes
  CORE_NUM = 1
  TEAM = 1
  BLOCK_ROWS = 4
  L2_ROWS = 8

SPECIFICATION Spec
CHECK_DEADLOCK FALSE

INVARIANT TileLaneContract
