--------------------------- MODULE SmmComputeBWMA ---------------------------
(***************************************************************************)
(* smmComputeBWMA of src/accelerator/smm_gem.cc: the block-wise (BWMA)     *)
(* driver.  Input, weights and output are stored block by block: an input  *)
(* or output block is the seq_len x MAX_COL words of one tile column, and  *)
(* the weight blocks lie contiguously, KERNEL_DIM x MAX_COL words each, in *)
(* the order (output tile column, input tile row).  Thread id of the team  *)
(* takes the output tile columns [col_in_th * id, col_in_th * (id + 1)),   *)
(* and walks its blocks with the private pointers weightPtr (set once on   *)
(* entry), inPtr and outPtr (set per block), each advanced by one word per *)
(* use.                                                                    *)
(***************************************************************************)
EXTENDS Integers, Bags, FiniteSets

CONSTANTS KERNEL_DIM, W_DATA, Zero, Shapes,
  CORE_NUM      \* threads of the parallel region

ASSUME \A s \in Shapes :
         /\ s.seq \in Nat \ {0}
         /\ s.in  \in Nat \ {0} /\ s.in  % KERNEL_DIM = 0
         /\ s.out \in Nat \ {0} /\ s.out % KERNEL_DIM = 0
ASSUME CORE_NUM \in Nat \ {0}

VARIABLES
  shape,        \* [seq, in, out] of this call
  tile,         \* thread -> its tile
  l2Col,        \* thread -> output tile column (outer loop)
  l2Row,        \* thread -> input tile row (inner loop)
  ph,           \* thread -> "load" | "calc" | "done"
  widx,         \* thread -> i of the weight load loop
  weightPtr,    \* thread -> word offset of weightPtr in weights
  c,            \* thread -> index of the streaming / drain loops
  outPtr,       \* thread -> word offset of outPtr in output
  out,          \* shared output buffer: word address -> bag of products
  writer        \* history: word address -> threads that merged into it

vars == <<shape, tile, l2Col, l2Row, ph, widx, weightPtr, c, outPtr, out, writer>>

Threads == 0 .. CORE_NUM - 1

T == INSTANCE SystolicTile
I == INSTANCE SmmInstr

MAX_COL == T!MAX_COL
rowBlockSize == KERNEL_DIM
colBlockSize == KERNEL_DIM \div W_DATA

(* The word at each block-wise address, as its logical <<row, word>>.     *)
(* An input block holds tile column b of seq_len rows; a weight block     *)
(* (oc, ir) holds tile row ir of tile column oc, row by row.              *)
InputWord(s, a) ==
  LET b == a \div (MAX_COL * s.seq)
      r == a % (MAX_COL * s.seq)
  IN <<r \div MAX_COL, b * MAX_COL + (r % MAX_COL)>>
WeightWord(s, a) ==
  LET b == a \div (rowBlockSize * colBlockSize)
      r == a % (rowBlockSize * colBlockSize)
  IN << (b % (s.in \div KERNEL_DIM)) * KERNEL_DIM + (r \div colBlockSize),
        (b \div (s.in \div KERNEL_DIM)) * MAX_COL + (r % colBlockSize) >>

col_in_th(s) == (s.out \div KERNEL_DIM) \div CORE_NUM
start_index(s, id) == col_in_th(s) * id

\* Mutant: a thread's column range reaches one column into the next one's.
end_indexOverlap(s, id) == start_index(s, id) + col_in_th(s) + 1

end_index(s, id) == start_index(s, id) + col_in_th(s)

\* Mutant: weightPtr skips the thread's columns without the tile-row factor.
WeightBaseFlat(s, id) == start_index(s, id) * rowBlockSize * colBlockSize

\* The initial weightPtr of thread id.
WeightBase(s, id) == start_index(s, id) * (s.in \div KERNEL_DIM) * rowBlockSize * colBlockSize

\* Mutant: the load loop runs one weight word past the tile.
LoadDoneLate(n) == n = rowBlockSize * colBlockSize + 1

\* The load loop ends after rowBlockSize * colBlockSize words.
LoadDone(n) == n = rowBlockSize * colBlockSize

\* "check if the output is valid".
IsValid(i) == i >= MAX_COL * (2 * KERNEL_DIM - 1) - 1

\* The bound of the drain loop.
DrainEnd(len) == MAX_COL * (len + 2 * KERNEL_DIM - 1) - 1

Init ==
  /\ shape \in Shapes
  /\ tile = [t \in Threads |-> T!TileInit]
  /\ l2Col = [t \in Threads |-> start_index(shape, t)]
  /\ l2Row = [t \in Threads |-> 0]
  /\ ph = [t \in Threads |-> IF start_index(shape, t) < end_index(shape, t)
                               THEN "load" ELSE "done"]
  /\ widx = [t \in Threads |-> 0]
  /\ weightPtr = [t \in Threads |-> WeightBase(shape, t)]
  /\ c = [t \in Threads |-> 0]
  /\ outPtr = [t \in Threads |-> 0]
  /\ out = [a \in 0 .. shape.seq * (shape.out \div W_DATA) - 1 |-> EmptyBag]
  /\ writer = [a \in DOMAIN out |-> {}]

(* One smmParamWrite(i * W_DATA, *(weightPtr++), id); the last one starts *)
(* the block: outPtr and the loop index are set.                          *)
ParamWrite(t) ==
  LET idx == widx[t] * W_DATA
  IN /\ ph[t] = "load"
     /\ tile' = I!smmParamWrite(tile, idx, WeightWord(shape, weightPtr[t]), t)
     /\ weightPtr' = [weightPtr EXCEPT ![t] = @ + 1]
     /\ widx' = [widx EXCEPT ![t] = @ + 1]
     /\ IF LoadDone(widx[t] + 1)
          THEN /\ ph' = [ph EXCEPT ![t] = "calc"]
               /\ c' = [c EXCEPT ![t] = 0]
               /\ outPtr' = [outPtr EXCEPT ![t] = l2Col[t] * MAX_COL * shape.seq]
          ELSE UNCHANGED <<ph, c, outPtr>>
     /\ UNCHANGED <<shape, l2Col, l2Row, out, writer>>

(***************************************************************************)
(* One iteration of the streaming loop (index below seq_len * MAX_COL,     *)
(* reading *(inPtr++)) or of the drain loop (input zero); a valid result   *)
(* is merged at *(outPtr++).                                               *)
(***************************************************************************)
Call(t) ==
  LET i   == c[t]
      j   == i % MAX_COL
      v   == IF i < shape.seq * MAX_COL
               THEN InputWord(shape, l2Row[t] * MAX_COL * shape.seq + i)
               ELSE Zero
      r   == IF j = MAX_COL - 1 THEN I!smmStream(tile, v, t) ELSE I!smmQueue(tile, j, v, t)
      dst == outPtr[t]
  IN /\ ph[t] = "calc"
     /\ i < DrainEnd(shape.seq)
     /\ tile' = r.tiles
     /\ c' = [c EXCEPT ![t] = @ + 1]
     /\ IF IsValid(i)
          THEN /\ out' = [out EXCEPT ![dst] = @ (+) r.res]
               /\ writer' = [writer EXCEPT ![dst] = @ \cup {t}]
               /\ outPtr' = [outPtr EXCEPT ![t] = @ + 1]
          ELSE UNCHANGED <<out, writer, outPtr>>
     /\ UNCHANGED <<shape, l2Col, l2Row, ph, widx, weightPtr>>

(* The l2Row / l2Col loops move on once the drain loop has ended. *)
NextBlock(t) ==
  /\ ph[t] = "calc"
  /\ c[t] = DrainEnd(shape.seq)
  /\ widx' = [widx EXCEPT ![t] = 0]
  /\ \/ /\ l2Row[t] + 1 < shape.in \div KERNEL_DIM
        /\ l2Row' = [l2Row EXCEPT ![t] = @ + 1]
        /\ ph' = [ph EXCEPT ![t] = "load"]
        /\ UNCHANGED l2Col
     \/ /\ l2Row[t] + 1 = shape.in \div KERNEL_DIM
        /\ l2Col[t] + 1 < end_index(shape, t)
        /\ l2Row' = [l2Row EXCEPT ![t] = 0]
        /\ l2Col' = [l2Col EXCEPT ![t] = @ + 1]
        /\ ph' = [ph EXCEPT ![t] = "load"]
     \/ /\ l2Row[t] + 1 = shape.in \div KERNEL_DIM
        /\ l2Col[t] + 1 = end_index(shape, t)
        /\ ph' = [ph EXCEPT ![t] = "done"]
        /\ UNCHANGED <<l2Row, l2Col>>
  /\ UNCHANGED <<shape, tile, weightPtr, c, outPtr, out, writer>>

Next == \E t \in Threads : ParamWrite(t) \/ Call(t) \/ NextBlock(t)

(* Every thread of the team runs on its own core until it leaves the region. *)
Spec == Init /\ [][Next]_vars
             /\ \A t \in Threads : WF_vars(ParamWrite(t) \/ Call(t) \/ NextBlock(t))

-----------------------------------------------------------------------------
(* Output word (r, ow) of the logical matrix lies in block ow \div MAX_COL. *)
LogicalOut ==
  [p \in (0 .. shape.seq - 1) \X (0 .. shape.out \div W_DATA - 1) |->
     out[(p[2] \div MAX_COL) * MAX_COL * shape.seq + p[1] * MAX_COL + (p[2] % MAX_COL)]]

TG == INSTANCE TileGemm WITH out <- LogicalOut

-----------------------------------------------------------------------------
TypeOK ==
  /\ shape \in Shapes
  /\ ph \in [Threads -> {"load", "calc", "done"}]
  /\ widx \in [Threads -> 0 .. rowBlockSize * colBlockSize]
  /\ c \in [Threads -> 0 .. DrainEnd(shape.seq)]
  /\ outPtr \in [Threads -> Nat]
  /\ weightPtr \in [Threads -> Nat]
  /\ writer \in [DOMAIN out -> SUBSET Threads]

(***************************************************************************)
(* Output ownership (spec 5): no output word is merged into by two         *)
(* threads, so the unsynchronised add8in32 of the team never race; this    *)
(* rests on the column ranges being disjoint and on outPtr staying inside  *)
(* the block of the current column.                                        *)
(***************************************************************************)
OutputOwnership == \A a \in DOMAIN writer : Cardinality(writer[a]) <= 1

(***************************************************************************)
(* When every thread has left the parallel region, the output holds every  *)
(* contribution of the GEMM (spec 8: tiled engines equal the reference).   *)
(***************************************************************************)
CompleteOnReturn == (\A t \in Threads : ph[t] = "done") => TG!Complete

(***************************************************************************)
(* smmComputeBWMA implements TileGemm: each merge is one new contribution  *)
(* at its own word (weightPtr reaching the right block, outPtr the right   *)
(* word), and, with every thread running, all are merged.                  *)
(***************************************************************************)
TGSpec == TG!Spec

=============================================================================
