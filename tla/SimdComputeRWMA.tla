--------------------------- MODULE SimdComputeRWMA ---------------------------
(***************************************************************************)
(* simdComputeRWMA of src/accelerator/smm_gem.cc: the NEON dense engine on *)
(* row-major buffers.  Blocks are VL x VL bytes (VL = 16 in the code: the  *)
(* lanes of an int8x16_t and the literals ROWS_IN_BLOCK, COLS_IN_BLOCK and *)
(* W_COL_BLOCKS).  For each (input-column block, output-column block) the  *)
(* VL weight rows are loaded into the registers B once; every row block    *)
(* then computes C[k] += B[i] * A[k][lane i] in int8 lanes and adds C into *)
(* the output in place.  A register is modelled by its VL int8 lanes.      *)
(***************************************************************************)
EXTENDS DenseData

CONSTANTS VL    \* lanes of a vector register and side of a block (16)

ASSUME VL % W_DATA = 0 /\ VL > 0

VARIABLES
  case,     \* the input, weight and initial output matrices
  pc,       \* "loadB" | "row" | "done"
  wc,       \* <<l2_w_idx, l2_col_idx>>
  row,      \* l2_row_idx
  Breg,     \* B[0..VL-1]: the weight registers, lane by lane
  outb      \* output buffer bytes

vars == <<case, pc, wc, row, Breg, outb>>

Lanes == 0 .. VL - 1

ROWS_IN_L2  == seq_len \div VL
COLS_IN_L2  == input_size_ \div VL
W_COL_IN_L2 == output_size_ \div VL

\* Byte offsets of the weight, output and input blocks.
B_idx(x)    == x[2] * VL + x[1] * VL * output_size_
C_idx(x, r) == (r * VL) * output_size_ + x[2] * VL
\* Mutant: the input block offset without its row-block term.
A_idxRow0(x, r) == x[1] * VL
A_idx(x, r) == (r * VL) * input_size_ + x[1] * VL

\* vgetq_lane_s8(A[k], 4*(i/4) + 3 - (i%4)): the input lane paired with B[i].
Lane(i) == 4 * (i \div 4) + 3 - (i % 4)

(* C[k], lane j, after the vmlaq_s8 loop: the int8 (wrapping) sum over i  *)
(* of B[i][j] * A[k][Lane(i)], with A[k] read at byte a + k * stride.     *)
MlaLane(cs, Bm, a, stride, k, j) ==
  ToInt8(MapThenSumSet(LAMBDA i : Bm[i][j] * InBuf(cs)[a + k * stride + Lane(i)], Lanes))

\* The loops over (l2_w_idx, l2_col_idx) move on, or the call returns.
NextWC ==
  LET n == Step(wc, <<COLS_IN_L2, W_COL_IN_L2>>, 2)
  IN /\ wc' = n
     /\ pc' = IF n = <<>> THEN "done" ELSE "loadB"

Init ==
  /\ case \in Cases
  /\ wc = Start(<<COLS_IN_L2, W_COL_IN_L2>>)
  /\ pc = IF wc = <<>> THEN "done" ELSE "loadB"
  /\ row = 0
  \* B is declared uninitialised; it is always loaded before it is read.
  /\ Breg = [i \in Lanes |-> [j \in Lanes |-> 0]]
  /\ outb = OutBuf(case)

(* B[i] = vld1q_s8(weight8_t + B_idx + i * output_size_), i < VL; then    *)
(* the l2_row_idx loop starts, or is empty.                                *)
LoadB ==
  /\ pc = "loadB"
  /\ Breg' = [i \in Lanes |-> [j \in Lanes |-> WBuf(case)[B_idx(wc) + i * output_size_ + j]]]
  /\ row' = 0
  /\ IF ROWS_IN_L2 > 0 THEN pc' = "row" /\ UNCHANGED wc ELSE NextWC
  /\ UNCHANGED <<case, outb>>

(* One l2_row_idx iteration: C zeroed, A loaded, the multiply-accumulate   *)
(* loops, and vst1q_s8(out + i * output_size_, vaddq_s8(curr, C[i])).      *)
RowBlock ==
  LET c0 == C_idx(wc, row)
      Acc(k, j) == MlaLane(case, Breg, A_idx(wc, row), input_size_, k, j)
  IN /\ pc = "row"
     /\ outb' = [a \in DOMAIN outb |->
                   LET k == (a - c0) \div output_size_  j == (a - c0) % output_size_
                   IN IF a >= c0 /\ k < VL /\ j < VL
                        THEN ToInt8(outb[a] + Acc(k, j)) ELSE outb[a]]
     /\ IF row + 1 < ROWS_IN_L2
          THEN row' = row + 1 /\ UNCHANGED <<pc, wc>>
          ELSE UNCHANGED row /\ NextWC
     /\ UNCHANGED <<case, Breg>>

Next == LoadB \/ RowBlock

Spec == Init /\ [][Next]_vars

-----------------------------------------------------------------------------
TypeOK ==
  /\ case \in Cases
  /\ pc \in {"loadB", "row", "done"}
  /\ row \in 0 .. ROWS_IN_L2
  /\ Breg \in [Lanes -> [Lanes -> Int8]]
  /\ outb \in [0 .. seq_len * output_size_ - 1 -> Int8]

(***************************************************************************)
(* On return the output is the reference GEMM (spec 4.5, 8): the weight    *)
(* registers loaded once per (input block, output block) serve every row   *)
(* block, and the lane permutation pairs input column Rev(i) with weight   *)
(* byte row i, which the reversed layout stores as logical row Rev(i).     *)
(***************************************************************************)
CompleteOnReturn == pc = "done" => outb = Reference(case)

=============================================================================
