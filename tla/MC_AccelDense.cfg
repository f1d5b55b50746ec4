CONSTANTS
  W_DATA = 4
  seq_len = 16
  input_size_ = 16
  output_size_ = 16
  Cases <- PassCases
  ReversedLayout = TRUE
  BLOCK_ROWS = 2
  COLS_BLOCK = 4
  L2_ROWS = 8
  L2_SIZE = 8
  VL = 8

SPECIFICATION Spec

\* Each call returns after the last iteration of its loops.
CHECK_DEADLOCK FALSE

INVARIANT TypeOK
INVARIANT TiledAccumulatesExactly
INVARIANT TiledComplete
INVARIANT SimdRWMAComplete
INVARIANT SimdBWMAComplete
INVARIANT ConvComplete
