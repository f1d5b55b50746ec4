------------------------------ MODULE TileGemm ------------------------------
(***************************************************************************)
(* What every tile-based engine promises (spec sections 4.3, 4.4, 8): the  *)
(* output word (r, ow) receives, exactly once and in any order, the        *)
(* contribution of every KERNEL_DIM-deep slice kt of the reduction:        *)
(* sum over k in slice kt of input[r][k] * weight[k][c] for the W_DATA     *)
(* columns c of word ow.  The engines are shown to implement this module   *)
(* through a refinement mapping from their buffers to logical words.       *)
(***************************************************************************)
EXTENDS Naturals, Bags

CONSTANTS
  KERNEL_DIM,
  W_DATA,
  Shapes        \* the GEMM shapes [seq, in, out] a behaviour may compute

VARIABLES
  shape,        \* the shape of this call
  out           \* logical output: <<row, word>> -> bag of products

vars == <<shape, out>>

Rows(s)     == 0 .. s.seq - 1
InSlices(s) == 0 .. s.in \div KERNEL_DIM - 1
OutWords(s) == 0 .. s.out \div W_DATA - 1

\* A contribution <<r, kt, ow>>: input row r, reduction slice kt, output word ow.
Contributions(s) == Rows(s) \X InSlices(s) \X OutWords(s)

\* The products a contribution adds to its output word.
Terms(x) ==
  { <<x[1], k, k, c>> :
      k \in x[2] * KERNEL_DIM .. x[2] * KERNEL_DIM + KERNEL_DIM - 1,
      c \in x[3] * W_DATA .. x[3] * W_DATA + W_DATA - 1 }

Merged(x) == Terms(x) \subseteq BagToSet(out[<<x[1], x[3]>>])

Init ==
  /\ shape \in Shapes
  /\ out = [p \in Rows(shape) \X OutWords(shape) |-> EmptyBag]

Merge(x) ==
  /\ ~Merged(x)
  /\ out' = [out EXCEPT ![<<x[1], x[3]>>] = @ (+) SetToBag(Terms(x))]
  /\ UNCHANGED shape

Next == \E x \in Contributions(shape) : Merge(x)

Spec == Init /\ [][Next]_vars /\ WF_vars(Next)

Complete == \A x \in Contributions(shape) : Merged(x)

=============================================================================
