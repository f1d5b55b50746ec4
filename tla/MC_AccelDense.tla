---------------------------- MODULE MC_AccelDense ----------------------------
(***************************************************************************)
(* The dense engines of the accelerator build (tiledCompute,              *)
(* simdComputeRWMA, simdComputeBWMA, conventionalCompute) are called one   *)
(* after another on the same input and weight matrices, each on its own    *)
(* buffers in the layout it reads.  The accumulating engines start from    *)
(* the same initial output; conventionalCompute, which stores instead of   *)
(* accumulating (run conv_accel_overwrite), gets a pre-zeroed output.      *)
(* Spec 8 asks all of them to agree with the reference.                    *)
(***************************************************************************)
EXTENDS MC_DenseCases

CONSTANTS W_DATA, seq_len, input_size_, output_size_, Cases, ReversedLayout,
          BLOCK_ROWS, COLS_BLOCK, L2_ROWS, L2_SIZE, VL

VARIABLES case,
  itT, outT, mergedT,                 \* tiledCompute
  pcR, wcR, rowR, BR, outR,           \* simdComputeRWMA
  pcB, cwB, rowB, wptrB, inB, outPB, BB, outB,  \* simdComputeBWMA
  caseZ, itC, outC                    \* conventionalCompute

T == INSTANCE TiledCompute WITH it <- itT, outb <- outT, merged <- mergedT
R == INSTANCE SimdComputeRWMA WITH pc <- pcR, wc <- wcR, row <- rowR, Breg <- BR, outb <- outR
B == INSTANCE SimdComputeBWMA WITH pc <- pcB, cw <- cwB, row <- rowB, wptr <- wptrB,
                                   inPtr <- inB, outPtr <- outPB, Breg <- BB, outb <- outB

\* A case with its initial output zeroed.
Zeroed(cs) == [cs EXCEPT !.o = [p \in DOMAIN cs.o |-> 0]]

C == INSTANCE ConventionalAccel WITH case <- caseZ, Cases <- {Zeroed(cs) : cs \in Cases},
                                     it <- itC, outb <- outC

tVars == <<itT, outT, mergedT>>
rVars == <<pcR, wcR, rowR, BR, outR>>
bVars == <<pcB, cwB, rowB, wptrB, inB, outPB, BB, outB>>
cVars == <<caseZ, itC, outC>>
vars  == <<case, tVars, rVars, bVars, cVars>>

Init == T!Init /\ R!Init /\ B!Init /\ caseZ = Zeroed(case) /\ C!Init

\* Each call starts once the one before it has returned.
Next == \/ T!Next /\ UNCHANGED <<rVars, bVars, cVars>>
        \/ itT = <<>> /\ R!Next /\ UNCHANGED <<tVars, bVars, cVars>>
        \/ pcR = "done" /\ B!Next /\ UNCHANGED <<tVars, rVars, cVars>>
        \/ pcB = "done" /\ C!Next /\ UNCHANGED <<case, tVars, rVars, bVars>>

Spec == Init /\ [][Next]_vars

(***************************************************************************)
(* A 16 x 16 input and 16 x 16 weights.  VL 8 makes each of the SIMD      *)
(* loops l2_w_idx, l2_col_idx and l2_row_idx run twice, so the B loaded    *)
(* for a block pair serves two row blocks, and the lane permutation spans  *)
(* two words.  The tiled budgets (BLOCK_ROWS 2, COLS_BLOCK 4, L2_ROWS 8,   *)
(* L2_SIZE 8) give ROWS_IN_BLOCK 2, ROWS_IN_L2 4, COLS_IN_L2 2,            *)
(* W_COL_IN_L2 2, and two iterations of each of the three outer loops, so  *)
(* every one of the eight tiledCompute loops runs more than once.          *)
(***************************************************************************)
PassCases == { MkCase(16, 16, 16, seed, seed = 2) : seed \in 1 .. 2 }

TypeOK == T!TypeOK /\ R!TypeOK /\ B!TypeOK /\ C!TypeOK

(* tiledCompute: every byte holds its initial value plus the column blocks merged into it. *)
TiledAccumulatesExactly == T!AccumulatesExactly

(* tiledCompute returns the reference GEMM. *)
TiledComplete == T!CompleteOnReturn

(* simdComputeRWMA returns the reference GEMM. *)
SimdRWMAComplete == R!CompleteOnReturn

(* simdComputeBWMA returns the reference GEMM, in block-wise order. *)
SimdBWMAComplete == B!CompleteOnReturn

(* conventionalCompute, on a pre-zeroed output, returns the reference GEMM. *)
ConvComplete == C!CompleteOnReturn
=============================================================================
