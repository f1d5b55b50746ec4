-------------------------- MODULE ConventionalGem5x --------------------------
(***************************************************************************)
(* conventionalCompute of src/gem5x_codes/smm_gem.cpp: the dense engine of *)
(* the gem5x build.  For every ROW_BLOCKS x COL_BLOCKS block of the        *)
(* weights and every input row, each of the COL_BLOCKS output bytes of the *)
(* block gets the ROW_BLOCKS-term dot product added in int8.  One step is  *)
(* one iteration of the col loop; the dot product loop is a sum.           *)
(***************************************************************************)
EXTENDS DenseData

CONSTANTS ROW_BLOCKS, COL_BLOCKS   \* the literals 16 and 16

ASSUME ROW_BLOCKS % W_DATA = 0 /\ COL_BLOCKS % W_DATA = 0

VARIABLES
  case,     \* the input, weight and initial output matrices
  it,       \* <<blk_row_idx, blk_col_idx, in_idx, col>>, <<>> on return
  outb,     \* output buffer bytes
  merged    \* history: output byte -> the blk_row_idx merged into it

vars == <<case, it, outb, merged>>

\* Mutant: the blk_row_idx loop one block short.
HiShort == <<input_size_ \div ROW_BLOCKS - 1, output_size_ \div COL_BLOCKS, seq_len, COL_BLOCKS>>

\* The bounds of the four loops.
Hi == <<input_size_ \div ROW_BLOCKS, output_size_ \div COL_BLOCKS, seq_len, COL_BLOCKS>>

\* Byte offsets of input_ptr, output_ptr and weight_ptr at iteration x.
InOff(x)  == W_DATA * ((x[3] * input_size_) \div W_DATA + (x[1] * ROW_BLOCKS) \div W_DATA)
OutOff(x) == W_DATA * ((x[3] * output_size_) \div W_DATA + (x[2] * COL_BLOCKS) \div W_DATA)
WOff(x)   == W_DATA * ((x[1] * ROW_BLOCKS * output_size_) \div W_DATA + (x[2] * COL_BLOCKS) \div W_DATA)

\* int sum over i < ROW_BLOCKS of *(input_ptr + i) * *(weight_ptr + i * output_size_ + col).
BlockSum(cs, x) ==
  MapThenSumSet(LAMBDA i : InBuf(cs)[InOff(x) + i] * WBuf(cs)[WOff(x) + i * output_size_ + x[4]],
                0 .. ROW_BLOCKS - 1)

\* Mutant: the int sum stored without the (int8_t) conversion.
AccumStoreRaw(old, sum) == old + sum

\* Mutant: the output byte overwritten instead of accumulated.
OverwriteStore(old, sum) == ToInt8(sum)

\* *(output_ptr + col) = (int8_t) ((*(output_ptr + col)) + sum).
AccumStore(old, sum) == ToInt8(old + sum)

Init ==
  /\ case \in Cases
  /\ it = Start(Hi)
  /\ outb = OutBuf(case)
  /\ merged = [a \in DOMAIN outb |-> {}]

(* One iteration of the col loop. *)
ComputeCol ==
  LET a == OutOff(it) + it[4]
  IN /\ it # <<>>
     /\ outb' = [outb EXCEPT ![a] = AccumStore(@, BlockSum(case, it))]
     /\ merged' = [merged EXCEPT ![a] = @ \cup {it[1]}]
     /\ it' = Step(it, Hi, 4)
     /\ UNCHANGED case

Next == ComputeCol

Spec == Init /\ [][Next]_vars

-----------------------------------------------------------------------------
TypeOK ==
  /\ case \in Cases
  /\ outb \in [0 .. seq_len * output_size_ - 1 -> Int8]
  /\ merged \in [0 .. seq_len * output_size_ - 1 -> SUBSET (0 .. input_size_ \div ROW_BLOCKS - 1)]

(***************************************************************************)
(* Every output byte holds, in int8, its initial value plus exactly the    *)
(* partial dot products of the row blocks merged into it so far: no block  *)
(* is lost, doubled or merged at another byte, whatever the order.         *)
(***************************************************************************)
AccumulatesExactly ==
  \A a \in DOMAIN outb :
    LET r == a \div output_size_  c == a % output_size_
    IN outb[a] = ToInt8(case.o[<<r, c>>]
                        + MapThenSumSet(LAMBDA b : Dot(case, r, c, b * ROW_BLOCKS .. b * ROW_BLOCKS + ROW_BLOCKS - 1),
                                        merged[a]))

(* On return the output is the reference GEMM (spec 4.5, 8). *)
CompleteOnReturn == it = <<>> => outb = Reference(case)

=============================================================================
