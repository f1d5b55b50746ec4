---------------------------- MODULE MC_DenseCases ----------------------------
(* Int8 matrices for the dense engines, spread over the whole int8 range  *)
(* so that products and sums wrap.                                         *)
EXTENDS Integers

Spread(v) == (v % 256) - 128

\* A case of seq_len s, input_size_ k and output_size_ c; initial output zero or not.
MkCase(s, k, c, seed, zeroOut) ==
  [ x |-> [p \in (0 .. s - 1) \X (0 .. k - 1) |-> Spread(p[1] * 37 + p[2] * 11 + seed * 53)],
    w |-> [p \in (0 .. k - 1) \X (0 .. c - 1) |-> Spread(p[1] * 29 + p[2] * 7 + seed * 17)],
    o |-> [p \in (0 .. s - 1) \X (0 .. c - 1) |->
             IF zeroOut THEN 0 ELSE Spread(p[1] * 13 + p[2] * 5 + seed)] ]
=============================================================================
