--------------------------- MODULE MC_SmmCompute ---------------------------
(* smmCompute with a 2x2 tile of one-lane words (MAX_COL = 2, so both the   *)
(* queue and the stream path are taken) over shapes of 1 to 3 rows and    *)
(* one or two tile rows and columns.                                        *)
EXTENDS SmmCompute

MCShapes ==
  { [seq |-> 3, in |-> 4, out |-> 4],
    [seq |-> 2, in |-> 2, out |-> 4],
    [seq |-> 1, in |-> 4, out |-> 2] }
=============================================================================
