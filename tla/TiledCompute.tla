---------------------------- MODULE TiledCompute ----------------------------
(***************************************************************************)
(* tiledCompute of src/accelerator/smm_gem.cc: the cache-tiled dense       *)
(* engine.  Block sizes are derived from fixed budgets (the literals 128,  *)
(* 32, 512 and 256, here the constants BLOCK_ROWS, COLS_BLOCK, L2_ROWS and *)
(* L2_SIZE) clamped to the matrix sizes; an eight-deep nest then visits    *)
(* every (row, input-column block, output-column block) and adds the       *)
(* block's COLS_IN_BLOCK-term dot product into each output byte in int8,   *)
(* reading reduction row k from weight byte row k + 3 - 2 * (k % W_DATA).  *)
(* One step is one iteration of the j loop.                                *)
(***************************************************************************)
EXTENDS DenseData

CONSTANTS BLOCK_ROWS, COLS_BLOCK, L2_ROWS, L2_SIZE

VARIABLES
  case,     \* the input, weight and initial output matrices
  it,       \* <<blk_row_idx, blk_col_idx, w_blk_col_idx, l2_row_idx,
            \*   l2_col_idx, l2_w_idx, i, j>>, <<>> on return
  outb,     \* output buffer bytes
  merged    \* history: output byte -> input-column blocks merged into it

vars == <<case, it, outb, merged>>

MinOf(a, b) == IF a < b THEN a ELSE b

ROWS_IN_BLOCK == MinOf(BLOCK_ROWS, seq_len)
COLS_IN_BLOCK == MinOf(COLS_BLOCK, input_size_)
ratio         == COLS_BLOCK \div COLS_IN_BLOCK
W_COL_BLOCKS  == MinOf(COLS_BLOCK * ratio, output_size_)
ROWS_IN_L2    == MinOf(L2_ROWS \div ROWS_IN_BLOCK, seq_len \div ROWS_IN_BLOCK)
COLS_IN_L2    == MinOf(L2_SIZE \div COLS_IN_BLOCK, input_size_ \div COLS_IN_BLOCK)
W_COL_IN_L2   == MinOf(L2_SIZE \div W_COL_BLOCKS, output_size_ \div W_COL_BLOCKS)

\* Mutant: the l2_col_idx loop one block short.
HiShort ==
  << (seq_len \div ROWS_IN_BLOCK) \div ROWS_IN_L2,
     (input_size_ \div COLS_IN_BLOCK) \div COLS_IN_L2,
     (output_size_ \div W_COL_BLOCKS) \div W_COL_IN_L2,
     ROWS_IN_L2, COLS_IN_L2 - 1, W_COL_IN_L2, ROWS_IN_BLOCK, W_COL_BLOCKS >>

\* The bounds of the eight loops.
Hi ==
  << (seq_len \div ROWS_IN_BLOCK) \div ROWS_IN_L2,
     (input_size_ \div COLS_IN_BLOCK) \div COLS_IN_L2,
     (output_size_ \div W_COL_BLOCKS) \div W_COL_IN_L2,
     ROWS_IN_L2, COLS_IN_L2, W_COL_IN_L2, ROWS_IN_BLOCK, W_COL_BLOCKS >>

\* The input row, input-column block and output-column block of iteration x.
Row(x)   == (x[1] * ROWS_IN_L2 + x[4]) * ROWS_IN_BLOCK + x[7]
KBlk(x)  == x[2] * COLS_IN_L2 + x[5]
WBlk(x)  == x[3] * W_COL_IN_L2 + x[6]

\* Byte offsets of input_ptr, output_ptr and weight_ptr.
InOff(x)  == W_DATA * ((Row(x) * input_size_) \div W_DATA + (KBlk(x) * COLS_IN_BLOCK) \div W_DATA)
OutOff(x) == W_DATA * ((Row(x) * output_size_) \div W_DATA + (WBlk(x) * W_COL_BLOCKS) \div W_DATA)
WOff(x)   == W_DATA * ((KBlk(x) * COLS_IN_BLOCK * output_size_) \div W_DATA
                       + (WBlk(x) * W_COL_BLOCKS) \div W_DATA)

\* The weight byte row read for reduction row k of the block.
RowOf(k) == Rev(k)

\* int sum over k < COLS_IN_BLOCK of *(input_ptr + k) * *(weight_ptr + RowOf(k) * output_size_ + j).
BlockSum(cs, x) ==
  MapThenSumSet(LAMBDA k : InBuf(cs)[InOff(x) + k] * WBuf(cs)[WOff(x) + RowOf(k) * output_size_ + x[8]],
                0 .. COLS_IN_BLOCK - 1)

\* Mutant: the int sum stored without the (int8_t) conversion.
AccumStoreRaw(old, sum) == old + sum

\* Mutant: the output byte overwritten instead of accumulated.
OverwriteStore(old, sum) == ToInt8(sum)

\* *(output_ptr + j) = (int8_t) ((*(output_ptr + j)) + sum).
AccumStore(old, sum) == ToInt8(old + sum)

Init ==
  /\ case \in Cases
  /\ it = Start(Hi)
  /\ outb = OutBuf(case)
  /\ merged = [a \in DOMAIN outb |-> {}]

(* One iteration of the j loop. *)
ComputeCol ==
  LET a == OutOff(it) + it[8]
  IN /\ it # <<>>
     /\ outb' = [outb EXCEPT ![a] = AccumStore(@, BlockSum(case, it))]
     /\ merged' = [merged EXCEPT ![a] = @ \cup {KBlk(it)}]
     /\ it' = Step(it, Hi, 8)
     /\ UNCHANGED case

Next == ComputeCol

Spec == Init /\ [][Next]_vars

-----------------------------------------------------------------------------
TypeOK ==
  /\ case \in Cases
  /\ outb \in [0 .. seq_len * output_size_ - 1 -> Int8]
  /\ merged \in [0 .. seq_len * output_size_ - 1 -> SUBSET Nat]

(***************************************************************************)
(* Every output byte holds, in int8, its initial value plus exactly the    *)
(* partial dot products of the input-column blocks merged into it so far:  *)
(* the offsets put each block's sum at its own byte, once.                 *)
(***************************************************************************)
AccumulatesExactly ==
  \A a \in DOMAIN outb :
    LET r == a \div output_size_  c == a % output_size_
    IN outb[a] = ToInt8(case.o[<<r, c>>]
                        + MapThenSumSet(LAMBDA b : Dot(case, r, c, b * COLS_IN_BLOCK .. b * COLS_IN_BLOCK + COLS_IN_BLOCK - 1),
                                        merged[a]))

(* On return the output is the reference GEMM (spec 4.5, 8). *)
CompleteOnReturn == it = <<>> => outb = Reference(case)

=============================================================================
