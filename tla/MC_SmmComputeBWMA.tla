------------------------- MODULE MC_SmmComputeBWMA -------------------------
(* smmComputeBWMA with a 2x2 tile of one-lane words and two threads. *)
EXTENDS SmmComputeBWMA

\* Two or four output tile columns: each thread owns one or two of them,
\* over one or two input tile rows (so weightPtr crosses blocks).
PassShapes ==
  { [seq |-> 2, in |-> 4, out |-> 4],
    [seq |-> 1, in |-> 2, out |-> 8] }

\* Three output tile columns for two threads: col_in_th = 1.
RemainderShapes == { [seq |-> 1, in |-> 2, out |-> 6] }
=============================================================================
