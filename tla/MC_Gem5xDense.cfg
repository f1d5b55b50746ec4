CONSTANTS
  W_DATA = 4
  seq_len = 1
  input_size_ = 32
  output_size_ = 16
  Cases <- MCCases
  ReversedLayout = FALSE
  ROW_BLOCKS = 16
  COL_BLOCKS = 16
  InitWords <- MCInitWords
  Partials <- MCPartials
  NUM_HEADS = 2
  Junk = Junk

SPECIFICATION Spec

\* The behaviour ends once the call has returned and every result word is merged and the block has returned.
CHECK_DEADLOCK FALSE

INVARIANT TypeOK
INVARIANT AccumulatesExactly
INVARIANT CompleteOnReturn
INVARIANT MergeMatchesReference
INVARIANT LayerGetsItsKernel
