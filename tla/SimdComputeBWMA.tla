--------------------------- MODULE SimdComputeBWMA ---------------------------
(***************************************************************************)
(* simdComputeBWMA of src/accelerator/smm_gem.cc: the NEON dense engine on *)
(* block-wise buffers.  An input (output) block is VL columns of all       *)
(* seq_len rows, VL bytes per row; the weight blocks, VL x VL bytes each,  *)
(* lie contiguously in the order (output block, input block), each row     *)
(* reversed in groups of four like the row-major weights.  The engine      *)
(* walks the weights with one pointer over the whole call, and the input   *)
(* and output blocks with pointers set per (l2_col_idx, l2_w_idx) and      *)
(* advanced across the row blocks.                                         *)
(***************************************************************************)
EXTENDS DenseData

CONSTANTS VL    \* lanes of a vector register and side of a block (16)

ASSUME VL % W_DATA = 0 /\ VL > 0

VARIABLES
  case,     \* the input, weight and initial output matrices
  pc,       \* "loadB" | "row" | "done"
  cw,       \* <<l2_col_idx, l2_w_idx>>
  row,      \* l2_row_idx
  wptr,     \* byte offset of weight8_t
  inPtr,    \* byte offset of input8_t
  outPtr,   \* byte offset of output8_t
  Breg,     \* B[0..VL-1]: the weight registers, lane by lane
  outb      \* output buffer bytes, block-wise

vars == <<case, pc, cw, row, wptr, inPtr, outPtr, Breg, outb>>

Lanes == 0 .. VL - 1

ROWS_IN_L2  == seq_len \div VL
COLS_IN_L2  == input_size_ \div VL
W_COL_IN_L2 == output_size_ \div VL

(* The block-wise buffers of a case: byte a of a buffer of width n lies in *)
(* block a \div (VL * seq_len); weight block q is output block q \div      *)
(* COLS_IN_L2, input block q % COLS_IN_L2.                                 *)
BlockWise(m, n) ==
  [a \in 0 .. seq_len * n - 1 |->
     LET r == a % (VL * seq_len)
     IN m[<<r \div VL, (a \div (VL * seq_len)) * VL + (r % VL)>>]]
WBufB(cs) ==
  [a \in 0 .. input_size_ * output_size_ - 1 |->
     LET q == a \div (VL * VL)  r == a % (VL * VL)
         k == (q % COLS_IN_L2) * VL + (r \div VL)
     IN cs.w[<<IF ReversedLayout THEN Rev(k) ELSE k, (q \div COLS_IN_L2) * VL + (r % VL)>>]]

\* Mutant: the input block offset without the seq_len factor.
InBaseShort(x) == x[2] * VL

\* A_idx = l2_w_idx * COLS_IN_BLOCK * seq_len.
InBase(x)  == x[2] * VL * seq_len

\* C_idx = l2_col_idx * COLS_IN_BLOCK * seq_len.
OutBase(x) == x[1] * VL * seq_len

\* vgetq_lane_s8(A[k], 4*(i/4) + 3 - (i%4)): the input lane paired with B[i].
Lane(i) == 4 * (i \div 4) + 3 - (i % 4)

(* C[k], lane j, after the vmlaq_s8 loop: the int8 (wrapping) sum over i  *)
(* of B[i][j] * A[k][Lane(i)], with A[k] the VL bytes at a + k * VL.      *)
MlaLane(in, Bm, a, k, j) ==
  ToInt8(MapThenSumSet(LAMBDA i : Bm[i][j] * in[a + k * VL + Lane(i)], Lanes))

\* The loop over l2_row_idx starts for block pair x: the pointers are set.
EnterRows(x) ==
  /\ inPtr' = InBase(x)
  /\ outPtr' = OutBase(x)

\* The loops over (l2_col_idx, l2_w_idx) move on, or the call returns.
NextCW ==
  LET n == Step(cw, <<W_COL_IN_L2, COLS_IN_L2>>, 2)
  IN /\ cw' = n
     /\ pc' = IF n = <<>> THEN "done" ELSE "loadB"

Init ==
  /\ case \in Cases
  /\ cw = Start(<<W_COL_IN_L2, COLS_IN_L2>>)
  /\ pc = IF cw = <<>> THEN "done" ELSE "loadB"
  /\ row = 0
  /\ wptr = 0
  /\ inPtr = 0
  /\ outPtr = 0
  \* B is declared uninitialised; it is always loaded before it is read.
  /\ Breg = [i \in Lanes |-> [j \in Lanes |-> 0]]
  /\ outb = BlockWise(case.o, output_size_)

(* B[i] = vld1q_s8(weight8_t); weight8_t += 16, i < VL; the input and      *)
(* output pointers are set, and the l2_row_idx loop starts or is empty.    *)
LoadB ==
  /\ pc = "loadB"
  /\ Breg' = [i \in Lanes |-> [j \in Lanes |-> WBufB(case)[wptr + i * VL + j]]]
  /\ wptr' = wptr + VL * VL
  /\ EnterRows(cw)
  /\ row' = 0
  /\ IF ROWS_IN_L2 > 0 THEN pc' = "row" /\ UNCHANGED cw ELSE NextCW
  /\ UNCHANGED <<case, outb>>

(* One l2_row_idx iteration: C zeroed, A[i] = vld1q_s8(input8_t) with     *)
(* input8_t += 16, the multiply-accumulate loops, and                      *)
(* vst1q_s8(output8_t, vaddq_s8(curr, C[i])) with output8_t += 16.         *)
RowBlock ==
  LET Acc(k, j) == MlaLane(BlockWise(case.x, input_size_), Breg, inPtr, k, j)
  IN /\ pc = "row"
     /\ outb' = [a \in DOMAIN outb |->
                   IF a >= outPtr /\ a < outPtr + VL * VL
                     THEN ToInt8(outb[a] + Acc((a - outPtr) \div VL, (a - outPtr) % VL))
                     ELSE outb[a]]
     /\ inPtr' = inPtr + VL * VL
     /\ outPtr' = outPtr + VL * VL
     /\ IF row + 1 < ROWS_IN_L2
          THEN row' = row + 1 /\ UNCHANGED <<pc, cw>>
          ELSE UNCHANGED row /\ NextCW
     /\ UNCHANGED <<case, wptr, Breg>>

Next == LoadB \/ RowBlock

Spec == Init /\ [][Next]_vars

-----------------------------------------------------------------------------
TypeOK ==
  /\ case \in Cases
  /\ pc \in {"loadB", "row", "done"}
  /\ row \in 0 .. ROWS_IN_L2
  /\ wptr \in 0 .. input_size_ * output_size_
  /\ {inPtr, outPtr} \subseteq Nat
  /\ Breg \in [Lanes -> [Lanes -> Int8]]
  /\ outb \in [0 .. seq_len * output_size_ - 1 -> Int8]

(***************************************************************************)
(* On return the block-wise output is the reference GEMM in block-wise     *)
(* order (spec 4.5, 8): the single weight pointer meets the weight blocks  *)
(* in the order the loops use them, and the input and output pointers,     *)
(* set per block pair and advanced per row block, address the right rows.  *)
(***************************************************************************)
CompleteOnReturn ==
  pc = "done" => outb = BlockWise([p \in Rows \X Cs |-> Reference(case)[p[1] * output_size_ + p[2]]],
                                  output_size_)

=============================================================================
