CONSTANTS
  KERNEL_DIM = 2
  W_DATA = 1
  Zero = Zero
  Shapes <- PassShapes
  CORE_NUM = 2

SPECIFICATION Spec

\* The call returns once every thread has left the region.
CHECK_DEADLOCK FALSE

INVARIANT TypeOK
INVARIANT OutputOwnership
PROPERTY TGSpec
