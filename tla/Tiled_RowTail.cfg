CONSTANTS
  W_DATA = 4
  seq_len = 3
  input_size_ = 4
  output_size_ = 4
  Cases <- TailCases
  ReversedLayout = TRUE
  BLOCK_ROWS = 2
  COLS_BLOCK = 4
  L2_ROWS = 4
  L2_SIZE = 4

SPECIFICATION Spec

\* The call returns after the last iteration of the nest.
CHECK_DEADLOCK FALSE

INVARIANT CompleteOnReturn
