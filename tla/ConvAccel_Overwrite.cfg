CONSTANTS
  W_DATA = 4
  seq_len = 2
  input_size_ = 8
  output_size_ = 8
  Cases <- AccumCases
  ReversedLayout = TRUE

SPECIFICATION Spec

\* The call returns after the last lane of the last row.
CHECK_DEADLOCK FALSE

INVARIANT CompleteOnReturn
