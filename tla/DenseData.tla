------------------------------ MODULE DenseData ------------------------------
(***************************************************************************)
(* The int8 data of the dense engines of src/accelerator/smm_gem.cc and    *)
(* src/gem5x_codes/smm_gem.cpp (conventionalCompute, tiledCompute).  The   *)
(* engines address the packed buffers byte by byte through int8_t          *)
(* pointers, so each buffer is modelled as its bytes: byte a of the input  *)
(* buffer is element (a \div input_size_, a % input_size_), and so on.    *)
(* The values are the int8 values the engines read.                        *)
(*                                                                         *)
(* The accelerator build's engines read row i of the reduction from byte   *)
(* row i + 3 - 2 * (i % 4) of the weights ("a bias is added because of the *)
(* endianness"); ReversedLayout says whether the weight buffer is stored   *)
(* that way (row k of the buffer holding weight row Rev(k)) or row-major.  *)
(***************************************************************************)
EXTENDS Integers, FiniteSetsExt

CONSTANTS
  W_DATA,         \* int8 lanes per 32-bit word (4)
  seq_len, input_size_, output_size_,   \* the GEMM shape
  Cases,          \* records [x, w, o]: input, weight and initial output matrices
  ReversedLayout  \* the weight buffer holds its rows reversed in groups of 4

ASSUME W_DATA = 4 /\ input_size_ % W_DATA = 0 /\ output_size_ % W_DATA = 0
ASSUME seq_len \in Nat \ {0} /\ input_size_ \in Nat \ {0} /\ output_size_ \in Nat \ {0}
ASSUME ReversedLayout \in BOOLEAN

Int8 == -128 .. 127
Rows == 0 .. seq_len - 1
Ks   == 0 .. input_size_ - 1
Cs   == 0 .. output_size_ - 1

ASSUME \A cs \in Cases : /\ cs.x \in [Rows \X Ks -> Int8]
                         /\ cs.w \in [Ks \X Cs -> Int8]
                         /\ cs.o \in [Rows \X Cs -> Int8]

\* (int8_t) v: the low eight bits of an int, as a signed value.
ToInt8(v) == LET u == v % 256 IN IF u >= 128 THEN u - 256 ELSE u

\* The weight row the engines of the accelerator build read for row i.
Rev(i) == i + 3 - 2 * (i % W_DATA)

\* The byte buffers of a case.
InBuf(cs) ==
  [a \in 0 .. seq_len * input_size_ - 1 |-> cs.x[<<a \div input_size_, a % input_size_>>]]
WBuf(cs) ==
  [a \in 0 .. input_size_ * output_size_ - 1 |->
     LET k == a \div output_size_
     IN cs.w[<<IF ReversedLayout THEN Rev(k) ELSE k, a % output_size_>>]]
OutBuf(cs) ==
  [a \in 0 .. seq_len * output_size_ - 1 |-> cs.o[<<a \div output_size_, a % output_size_>>]]

\* sum_{k in K} input[r][k] * weight[k][c] of the logical matrices.
Dot(cs, r, c, K) == MapThenSumSet(LAMBDA k : cs.x[<<r, k>>] * cs.w[<<k, c>>], K)

(* Spec 4.5: output[r][c] += sum_k input[r][k] * weight[k][c], in int8. *)
Reference(cs) ==
  [a \in 0 .. seq_len * output_size_ - 1 |->
     LET r == a \div output_size_  c == a % output_size_
     IN ToInt8(cs.o[<<r, c>>] + Dot(cs, r, c, Ks))]

(* The iteration after idx of a loop nest whose loop n runs over           *)
(* 0 .. hi[n] - 1: the innermost loop that can advance does and the loops  *)
(* inside it restart at 0; <<>> when the outermost loop ends.              *)
RECURSIVE Step(_, _, _)
Step(idx, hi, n) ==
  IF n = 0 THEN <<>>
  ELSE IF idx[n] + 1 < hi[n]
    THEN [k \in DOMAIN idx |-> IF k < n THEN idx[k] ELSE IF k = n THEN idx[n] + 1 ELSE 0]
    ELSE Step(idx, hi, n - 1)

\* The first iteration of a nest, or <<>> if some loop runs zero times.
Start(hi) == IF \A n \in DOMAIN hi : hi[n] > 0 THEN [n \in DOMAIN hi |-> 0] ELSE <<>>

=============================================================================
