--------------------------- MODULE MC_TiledCompute ---------------------------
(* tiledCompute with the budgets scaled to small matrices. *)
EXTENDS TiledCompute, MC_DenseCases

\* Three rows with BLOCK_ROWS 2: seq_len / ROWS_IN_BLOCK rounds down.
TailCases == { MkCase(3, 4, 4, 1, TRUE) }
=============================================================================
