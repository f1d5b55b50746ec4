--------------------------- MODULE TransformerBlock ---------------------------
(***************************************************************************)
(* TransformerBlock::compute of src/transformer_layers/transformerBlock.cc *)
(* and SingleHeadSelfAttn::compute of selfattention.cc, as test() of       *)
(* src/transformer.cpp runs them: which buffer each step reads and writes, *)
(* and what each buffer holds.  A buffer's content is the sequence of the  *)
(* terms added into it since it last held zero: <<>> is all zero, and a   *)
(* store replaces the sequence by one term.  The GEMM engines called       *)
(* directly (smmCompute) accumulate, output += A * B (spec 3, 4.5).        *)
(*                                                                         *)
(* Dense, Transpose, Softmax and AddNormalize are not in the repository.   *)
(* Transpose, Softmax and AddNormalize write their outputs element-wise;   *)
(* whether Dense::compute stores or accumulates into its output is not     *)
(* known, so each Dense call does either.                                  *)
(***************************************************************************)
EXTENDS Integers, Sequences

CONSTANTS
  NUM_HEADS,    \* num_heads (NUM_HEAD in test())
  Junk          \* the indeterminate content of an uninitialised new[]

ASSUME NUM_HEADS \in Nat \ {0}

VARIABLES
  buf,          \* buffer -> the terms accumulated in it
  pc,           \* the next step of compute
  n             \* the head loop index

vars == <<buf, pc, n>>

Heads == 0 .. NUM_HEADS - 1

\* The per-head buffers of SingleHeadSelfAttn, and the head slices of multihead_out.
HeadBuf == {"query_layer_out", "key_layer_out", "key_transposed_layer_out",
            "value_layer_out", "attention_scores", "multihead_out"} \X Heads
\* The buffers of TransformerBlock and test(), named by one-element tuples.
Buffers == HeadBuf \cup {<<"tensor_in">>, <<"condense_out">>, <<"intermediateFF">>, <<"out">>}

Zero == <<>>

HeadSteps  == {"query", "key", "value", "transpose", "scores", "softmax", "context", "post"}
BlockSteps == {"condense", "addNorm", "feedForward0", "feedForward1", "done"}

(* The kernel test() loads from file H<n>_L<qkv> (or fills and saves      *)
(* there): head n's query, key and value kernels are qkv 0, 1, 2; the      *)
(* condense, feed-forward 0 and 1 kernels are n = -1, qkv 0, 1, 2.         *)
KernelFile(h, qkv) == [head |-> h, qkv |-> qkv]

(* weightVec of test(): weightVec[n*3 + {0,1,2}] = the query, key and      *)
(* value kernels of head n, weightVec[NUM_HEAD*3 + {0,1,2}] = the          *)
(* condense, ff0 and ff1 kernels.                                          *)
weightVec ==
  [i \in 0 .. 3 * NUM_HEADS + 2 |->
     IF i < 3 * NUM_HEADS THEN KernelFile(i \div 3, i % 3)
                          ELSE KernelFile(-1, i - 3 * NUM_HEADS)]

\* Mutant: head n handed weightVector + n instead of weightVector + n*3.
HeadWeightsShort(h) == [i \in 0 .. 2 |-> weightVec[h + i]]

\* The weightVector the TransformerBlock constructor hands head n: weightVector + n*3.
HeadWeights(h) == [i \in 0 .. 2 |-> weightVec[h * 3 + i]]

(* The kernel each Dense layer is constructed with: the SingleHeadSelfAttn *)
(* constructor gives query, key and value weightVector[0], [1], [2]; the   *)
(* TransformerBlock constructor gives condense, feedForward0 and           *)
(* feedForward1 weightVector[num_heads*3], [+1], [+2].                     *)
LayerWeights(l) ==
  CASE l = <<"condense">>     -> weightVec[NUM_HEADS * 3]
    [] l = <<"feedForward0">> -> weightVec[NUM_HEADS * 3 + 1]
    [] l = <<"feedForward1">> -> weightVec[NUM_HEADS * 3 + 2]
    [] OTHER -> HeadWeights(l[2])[[query |-> 0, key |-> 1, value |-> 2][l[1]]]

\* The terms.
Input          == [op |-> "tensor_in"]
DenseOf(l, x)  == [op |-> "dense", layer |-> l, weights |-> LayerWeights(l), arg |-> x]
Transposed(x)  == [op |-> "transpose", arg |-> x]
Product(a, b)  == [op |-> "mm", lhs |-> a, rhs |-> b]
Softmaxed(x)   == [op |-> "softmax", arg |-> x]
PostSoftmax(x) == [op |-> "post_softmax", arg |-> x]
AddNormed(r, x) == [op |-> "addNorm", res |-> r, arg |-> x]

\* output += A * B: the engine adds its product to what the output holds.
Accumulate(b, t) == [buf EXCEPT ![b] = @ \o <<t>>]

\* An element-wise layer writes every element of its output.
Store(b, t) == [buf EXCEPT ![b] = <<t>>]

(* layer->compute(seq_len, src, dst) of a Dense layer: its weights applied *)
(* to the content x of src, stored into dst or accumulated onto it.        *)
DenseCompute(l, x, dst) ==
  \E b \in {Accumulate(dst, DenseOf(l, x)), Store(dst, DenseOf(l, x))} : buf' = b

(* The SingleHeadSelfAttn constructors value-initialise their buffers    *)
(* (new T[]()); the TransformerBlock constructor allocates multihead_out,  *)
(* condense_out and intermediateFF with new T[], no initialiser: their     *)
(* content is indeterminate, zero or not.                                  *)
Uninitialised == ({"multihead_out"} \X Heads) \cup {<<"condense_out">>, <<"intermediateFF">>}

(* test(): tensor_in filled, out = new uint32_t[]() zeroed, the weights    *)
(* built and the block constructed; then selfatten.compute(D_SEQ,          *)
(* tensor_in, out).                                                        *)
Init ==
  /\ \E j \in [Uninitialised -> {Zero, <<Junk>>}] :
       buf = [b \in Buffers |-> IF b \in Uninitialised THEN j[b]
                                ELSE IF b = <<"tensor_in">> THEN <<Input>> ELSE Zero]
  /\ pc = "query"
  /\ n = 0

\* The head's Dense layer for each projection step, and its output buffer.
Projection == [query |-> "query_layer_out", key |-> "key_layer_out", value |-> "value_layer_out"]
NextProjection == [query |-> "key", key |-> "value", value |-> "transpose"]

(* query_layer->compute, key_layer->compute, value_layer->compute of head  *)
(* n, one after another, each on tensor_in.                                *)
Project ==
  /\ pc \in DOMAIN Projection
  /\ DenseCompute(<<pc, n>>, buf[<<"tensor_in">>], <<Projection[pc], n>>)
  /\ pc' = NextProjection[pc]
  /\ UNCHANGED n

(* Transpose::transpose(key_layer_out, key_transposed_layer_out, ...). *)
TransposeKey ==
  /\ pc = "transpose"
  /\ buf' = Store(<<"key_transposed_layer_out", n>>, Transposed(buf[<<"key_layer_out", n>>]))
  /\ pc' = "scores"
  /\ UNCHANGED n

(* smmCompute(seq_len, query_layer_out, attention_scores,                  *)
(* key_transposed_layer_out, ...): attention_scores += Q * K^T.            *)
Scores ==
  /\ pc = "scores"
  /\ buf' = Accumulate(<<"attention_scores", n>>,
                       Product(buf[<<"query_layer_out", n>>], buf[<<"key_transposed_layer_out", n>>]))
  /\ pc' = "softmax"
  /\ UNCHANGED n

(* softmax->compute(attention_scores, seq_len), in place. *)
SoftmaxScores ==
  /\ pc = "softmax"
  /\ buf' = Store(<<"attention_scores", n>>, Softmaxed(buf[<<"attention_scores", n>>]))
  /\ pc' = "context"
  /\ UNCHANGED n

(* smmCompute(seq_len, attention_scores, output, value_layer_out, ...),   *)
(* output being head n's slice multihead_out + n * (seq_len *             *)
(* head_hidden_size_ >> 2): output += scores * V.                          *)
Context ==
  /\ pc = "context"
  /\ buf' = Accumulate(<<"multihead_out", n>>,
                       Product(buf[<<"attention_scores", n>>], buf[<<"value_layer_out", n>>]))
  /\ pc' = "post"
  /\ UNCHANGED n

(* softmax->post_softmax(output, ...), in place; then the head loop of     *)
(* TransformerBlock::compute moves to the next head, or ends.              *)
PostSoftmaxStep ==
  /\ pc = "post"
  /\ buf' = Store(<<"multihead_out", n>>, PostSoftmax(buf[<<"multihead_out", n>>]))
  /\ IF n + 1 < NUM_HEADS THEN n' = n + 1 /\ pc' = "query"
                          ELSE n' = n /\ pc' = "condense"

\* multihead_out as one buffer: the head slices side by side.
MultiheadOut == <<[op |-> "concat", parts |-> [h \in Heads |-> buf[<<"multihead_out", h>>]]]>>

(* condense->compute(seq_len, multihead_out, condense_out). *)
Condense ==
  /\ pc = "condense"
  /\ DenseCompute(<<"condense">>, MultiheadOut, <<"condense_out">>)
  /\ pc' = "addNorm"
  /\ UNCHANGED n

(* addNorm->computeRearranged(input, condense_out): condense_out becomes   *)
(* the normalised sum of the residual input and itself.                    *)
AddNorm ==
  /\ pc = "addNorm"
  /\ buf' = Store(<<"condense_out">>, AddNormed(buf[<<"tensor_in">>], buf[<<"condense_out">>]))
  /\ pc' = "feedForward0"
  /\ UNCHANGED n

(* feedForward0->compute(seq_len, condense_out, intermediateFF). *)
FeedForward0 ==
  /\ pc = "feedForward0"
  /\ DenseCompute(<<"feedForward0">>, buf[<<"condense_out">>], <<"intermediateFF">>)
  /\ pc' = "feedForward1"
  /\ UNCHANGED n

(* feedForward1->compute(seq_len, intermediateFF, output); compute returns. *)
FeedForward1 ==
  /\ pc = "feedForward1"
  /\ DenseCompute(<<"feedForward1">>, buf[<<"intermediateFF">>], <<"out">>)
  /\ pc' = "done"
  /\ UNCHANGED n

Next == \/ Project \/ TransposeKey \/ Scores \/ SoftmaxScores \/ Context
        \/ PostSoftmaxStep \/ Condense \/ AddNorm \/ FeedForward0 \/ FeedForward1

Spec == Init /\ [][Next]_vars

-----------------------------------------------------------------------------
TypeOK ==
  /\ DOMAIN buf = Buffers
  \* every buffer holds at most its old content and one term added onto it
  /\ \A b \in Buffers : \E k \in 0 .. 2 : DOMAIN buf[b] = 1 .. k
  /\ pc \in HeadSteps \cup BlockSteps
  /\ n \in Heads

\* The terms a buffer content (a sequence of terms) is built from, at any depth.
RECURSIVE SubTerms(_)
SubTerms(c) ==
  UNION { LET t == c[i]
              kids == IF t = Junk \/ t.op = "tensor_in" THEN {}
                      ELSE IF t.op = "mm" THEN {t.lhs, t.rhs}
                      ELSE IF t.op = "addNorm" THEN {t.res, t.arg}
                      ELSE IF t.op = "concat" THEN {t.parts[h] : h \in DOMAIN t.parts}
                      ELSE {t.arg}
          IN {t} \cup UNION {SubTerms(k) : k \in kids} : i \in DOMAIN c }

\* The kernel test() builds for a layer, by the layer's name.
IntendedKernel(l) ==
  CASE l = <<"condense">>     -> KernelFile(-1, 0)
    [] l = <<"feedForward0">> -> KernelFile(-1, 1)
    [] l = <<"feedForward1">> -> KernelFile(-1, 2)
    [] OTHER -> KernelFile(l[2], [query |-> 0, key |-> 1, value |-> 2][l[1]])

(***************************************************************************)
(* Every Dense result anywhere in the data, the output of compute          *)
(* included, was computed with the kernel test() built for that layer:     *)
(* the packing of weightVec in test() (head n at n*3, the block's layers   *)
(* after the heads) and the unpacking by the TransformerBlock and          *)
(* SingleHeadSelfAttn constructors (weightVector + n*3, then [0], [1],     *)
(* [2]; weightVector[num_heads*3 + k]) agree, for every head.              *)
(***************************************************************************)
LayerGetsItsKernel ==
  \A b \in Buffers : \A t \in SubTerms(buf[b]) :
    t # Junk /\ t.op = "dense" => t.weights = IntendedKernel(t.layer)

\* The output of the engine call at a step of the head.
EngineOutput == [scores |-> "attention_scores", context |-> "multihead_out"]

(***************************************************************************)
(* Spec 3: the engines accumulate into their output, so the caller must    *)
(* pre-zero it.  Whenever SingleHeadSelfAttn::compute is about to call     *)
(* smmCompute (attention_scores += Q * K^T, then output += scores * V),    *)
(* the output it passes holds zero.                                        *)
(***************************************************************************)
EngineOutputPreZeroed ==
  pc \in DOMAIN EngineOutput => buf[<<EngineOutput[pc], n>>] = Zero
====
