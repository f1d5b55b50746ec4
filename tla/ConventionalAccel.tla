------------------------- MODULE ConventionalAccel -------------------------
(***************************************************************************)
(* conventionalCompute of src/accelerator/smm_gem.cc: the dense engine of  *)
(* the accelerator build.  For every input row (length), output word       *)
(* (out_idx) and lane w, the full input_size_-term dot product is formed,  *)
(* reading reduction row i from weight byte row i + 3 - 2 * (i % W_DATA),  *)
(* and stored into the output byte with (int8_t).  One step is one         *)
(* iteration of the w loop; the dot product loop is a sum.                 *)
(***************************************************************************)
EXTENDS DenseData

VARIABLES
  case,     \* the input, weight and initial output matrices
  it,       \* <<length, out_idx, w>>, <<>> on return
  outb      \* output buffer bytes

vars == <<case, it, outb>>

\* The bounds of the three loops.
Hi == <<seq_len, output_size_ \div W_DATA, W_DATA>>

\* Byte offsets of output_ptr, weight_ptr and input_ptr at iteration x.
OutOff(x) == W_DATA * ((x[1] * output_size_) \div W_DATA + x[2])
WOff(x)   == W_DATA * x[2]
InOff(x)  == W_DATA * ((x[1] * input_size_) \div W_DATA)

\* Mutant: the weight rows read in buffer order.
RowOfPlain(i) == i

\* The weight byte row read for reduction row i.
RowOf(i) == Rev(i)

\* int sum over i < input_size_ of *(weight_ptr + RowOf(i) * output_size_ + w) * *(input_ptr + i).
DotSum(cs, x) ==
  MapThenSumSet(LAMBDA i : WBuf(cs)[WOff(x) + RowOf(i) * output_size_ + x[3]] * InBuf(cs)[InOff(x) + i],
                Ks)

\* Mutant: the int sum stored without the (int8_t) conversion.
StoreRaw(old, sum) == sum

\* *(output_ptr + w) = (int8_t) sum.
Store(old, sum) == ToInt8(sum)

Init ==
  /\ case \in Cases
  /\ it = Start(Hi)
  /\ outb = OutBuf(case)

(* One iteration of the w loop. *)
ComputeLane ==
  LET a == OutOff(it) + it[3]
  IN /\ it # <<>>
     /\ outb' = [outb EXCEPT ![a] = Store(@, DotSum(case, it))]
     /\ it' = Step(it, Hi, 3)
     /\ UNCHANGED case

Next == ComputeLane

Spec == Init /\ [][Next]_vars

-----------------------------------------------------------------------------
TypeOK ==
  /\ case \in Cases
  /\ outb \in [0 .. seq_len * output_size_ - 1 -> Int8]

(* On return the output is the reference GEMM (spec 4.5, 8). *)
CompleteOnReturn == it = <<>> => outb = Reference(case)

=============================================================================
