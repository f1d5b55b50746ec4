------------------------- MODULE MC_SmmComputeRWMA -------------------------
(* smmComputeRWMA with a 2x2 tile of one-lane words and the cache budgets  *)
(* scaled to it: for the passing run BLOCK_ROWS 1, L1_IN 4, L1_OUT 2,      *)
(* L2_ROWS 4, L2_SIZE 8, the literals 128, 64, 32, 512, 256 of the code    *)
(* with the same ratios between L1 and L2 sizes.                           *)
EXTENDS SmmComputeRWMA

(***************************************************************************)
(* Three shapes which, between them, make every one of the eight loops     *)
(* run at least twice (with the passing constants):                        *)
(*  - seq 8, in 2, out 4: ROWS_IN_L2 = 4, col_in_th = 2, two L2 sequence   *)
(*    blocks (l2In, tileInL2), ratio 2 so colMaxL1 = 2 (tileColL1);        *)
(*  - seq 2, in 16, out 2: rowMaxL1 = 2, rowMaxL2 = 2 and two L2 row       *)
(*    blocks (tileRowL1, tileRowL2, l2Row);                                *)
(*  - seq 2, in 2, out 16: colMaxL1 = 2, colMaxL2 = 2 and two L2 column    *)
(*    blocks (tileColL1, tileColL2, l2Col).                                *)
(***************************************************************************)
PassShapes ==
  { [seq |-> 8, in |-> 2,  out |-> 4],
    [seq |-> 2, in |-> 16, out |-> 2],
    [seq |-> 2, in |-> 2,  out |-> 16] }

\* With BLOCK_ROWS 2, a 2-row call is one sequence block: ROWS_IN_L2 = 1
\* < CORE_NUM, so col_in_th = 0 and no thread computes anything.
ShortSeqShapes == { [seq |-> 2, in |-> 2, out |-> 2] }

\* With BLOCK_ROWS 4 and L2_ROWS 8: one thread, four-row sequence blocks and an L2 block of two of them:
\* the l2In loop's ceiling runs a block past the end of the sequence.
OvershootShapes == { [seq |-> 10, in |-> 2, out |-> 2] }
\* Two sequence blocks in one L2 block, so col_in_th = 1 with CORE_NUM 2;
\* run with a team of one thread.
SmallTeamShapes == { [seq |-> 2, in |-> 2, out |-> 2] }
=============================================================================
