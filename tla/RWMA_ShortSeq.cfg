CONSTANTS
  KERNEL_DIM = 2
  W_DATA = 1
  Zero = Zero
  L1_IN = 4
  L1_OUT = 2
  L2_SIZE = 4
  Shapes <- ShortSeqShapes
  CORE_NUM = 2
  TEAM = 2
  BLOCK_ROWS = 2
  L2_ROWS = 2

SPECIFICATION Spec
CHECK_DEADLOCK FALSE

INVARIANT CompleteOnReturn
