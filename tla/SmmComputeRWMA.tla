--------------------------- MODULE SmmComputeRWMA ---------------------------
(***************************************************************************)
(* smmComputeRWMA of src/accelerator/smm_gem.cc: the row-major (RWMA)      *)
(* multi-level tiled driver.  An OpenMP team of CORE_NUM threads runs the  *)
(* same eight-deep loop nest; thread omp_id takes the sequence blocks      *)
(* tileInL2 in [omp_id * col_in_th, (omp_id + 1) * col_in_th) and drives   *)
(* its own tile (smmList[omp_id]) through load / stream / drain, merging   *)
(* valid words into the shared output buffer with add8in32.                *)
(*                                                                         *)
(* The cache budgets written as literals in the code (128, 64, 32, 512,    *)
(* 256) are the constants BLOCK_ROWS, L1_IN, L1_OUT, L2_ROWS, L2_SIZE, so  *)
(* that TLC can run the nest with small matrices.                          *)
(***************************************************************************)
EXTENDS Integers, Sequences, Bags, FiniteSets

CONSTANTS KERNEL_DIM, W_DATA, Zero, Shapes,
  CORE_NUM,     \* threads requested with omp_set_num_threads
  TEAM,         \* threads the runtime gives the region (at most CORE_NUM)
  BLOCK_ROWS,   \* 128: rows of a sequence block
  L1_IN,        \* 64:  input columns of an L1 block
  L1_OUT,       \* 32:  output columns of an L1 block (times ratio)
  L2_ROWS,      \* 512: rows of an L2 block
  L2_SIZE       \* 256: input / output columns of an L2 block

ASSUME \A s \in Shapes :
         /\ s.seq \in Nat \ {0}
         /\ s.in  \in Nat \ {0} /\ s.in  % KERNEL_DIM = 0
         /\ s.out \in Nat \ {0} /\ s.out % KERNEL_DIM = 0
ASSUME CORE_NUM \in Nat \ {0} /\ TEAM \in 1 .. CORE_NUM

VARIABLES
  shape,        \* [seq, in, out] of this call
  tile,         \* thread -> its tile
  it,           \* thread -> loop indices <<l2In, l2Row, l2Col, tileInL2,
                \*   tileRowL2, tileColL2, tileRowL1, tileColL1>>, <<>> when done
  ph,           \* thread -> "load" | "calc" | "done"
  widx,         \* thread -> weight words written for this block
  c,            \* thread -> index i of the streaming / drain loops
  outputIndex,  \* thread -> valid words merged for this block
  out,          \* shared output buffer: <<row, word>> of an address -> bag of products
  writer        \* history: word address -> threads that merged into it

vars == <<shape, tile, it, ph, widx, c, outputIndex, out, writer>>

\* omp_get_thread_num() of the team; col_in_th still divides by CORE_NUM.
Threads == 0 .. TEAM - 1

T == INSTANCE SystolicTile
I == INSTANCE SmmInstr

MAX_COL == T!MAX_COL
colBlockSize == KERNEL_DIM \div W_DATA

MinOf(a, b) == IF a < b THEN a ELSE b
\* (int) ceil((float) a / (float) b) for positive a, b.
CeilDiv(a, b) == (a + b - 1) \div b
\* C's % : the remainder takes the sign of the dividend.
CRem(a, b) == IF a >= 0 THEN a % b ELSE -((-a) % b)

InputWord(s, addr)  == <<addr \div (s.in \div W_DATA),  addr % (s.in \div W_DATA)>>
\* The output word at address addr, as <<row, word>>.
OutputWord(s, addr) == <<addr \div (s.out \div W_DATA), addr % (s.out \div W_DATA)>>
WeightWord(s, addr) == <<addr \div (s.out \div W_DATA), addr % (s.out \div W_DATA)>>

(* The block sizes computed on entry. *)
ROWS_IN_BLOCK(s) == MinOf(BLOCK_ROWS, s.seq)
rowMaxL1(s)      == MinOf(L1_IN, s.in) \div KERNEL_DIM
ratio(s)         == L1_IN \div MinOf(L1_IN, s.in)
colMaxL1(s)      == MinOf(L1_OUT * ratio(s), s.out) \div KERNEL_DIM
ROWS_IN_L2(s)    == MinOf(L2_ROWS \div ROWS_IN_BLOCK(s), CeilDiv(s.seq, ROWS_IN_BLOCK(s)))
rowMaxL2(s)      == (MinOf(L2_SIZE, s.in) \div KERNEL_DIM) \div rowMaxL1(s)
colMaxL2(s)      == (MinOf(L2_SIZE, s.out) \div KERNEL_DIM) \div colMaxL1(s)
col_in_th(s)     == ROWS_IN_L2(s) \div CORE_NUM

(* Mutant: the tileInL2 range of a thread reaches into the next one's. *)
LoopHiOverlap(s, id) ==
  << CeilDiv(s.seq, ROWS_IN_BLOCK(s) * ROWS_IN_L2(s)),
     ((s.in \div KERNEL_DIM) \div rowMaxL2(s)) \div rowMaxL1(s),
     ((s.out \div KERNEL_DIM) \div colMaxL2(s)) \div colMaxL1(s),
     (id + 1) * col_in_th(s) + 1,
     rowMaxL2(s), colMaxL2(s), rowMaxL1(s), colMaxL1(s) >>

(* Lower and upper bounds of the eight loops of thread id. *)
LoopLo(s, id) == <<0, 0, 0, id * col_in_th(s), 0, 0, 0, 0>>
LoopHi(s, id) ==
  << CeilDiv(s.seq, ROWS_IN_BLOCK(s) * ROWS_IN_L2(s)),
     ((s.in \div KERNEL_DIM) \div rowMaxL2(s)) \div rowMaxL1(s),
     ((s.out \div KERNEL_DIM) \div colMaxL2(s)) \div colMaxL1(s),
     (id + 1) * col_in_th(s),
     rowMaxL2(s), colMaxL2(s), rowMaxL1(s), colMaxL1(s) >>

(* The first iteration of the nest, or <<>> if some loop runs zero times. *)
FirstIter(lo, hi) == IF \A n \in 1 .. 8 : lo[n] < hi[n] THEN lo ELSE <<>>

(* The iteration after idx: the innermost loop that can advance does, the *)
(* loops inside it restart; <<>> when the outermost loop ends.            *)
RECURSIVE Bump(_, _, _, _)
Bump(idx, lo, hi, n) ==
  IF n = 0 THEN <<>>
  ELSE IF idx[n] + 1 < hi[n]
    THEN [k \in 1 .. 8 |-> IF k < n THEN idx[k] ELSE IF k = n THEN idx[n] + 1 ELSE lo[k]]
    ELSE Bump(idx, lo, hi, n - 1)

(* Mutant: the L2 column block stride misses the colMaxL1 factor. *)
BlkColShort(s, x) ==
  LET tileRow     == x[5] * rowMaxL1(s) + x[7]
      tileCol     == x[6] * colMaxL1(s) + x[8]
      seqBlockIdx == x[1] * ROWS_IN_L2(s) + x[4]
      kRow        == x[2] * rowMaxL2(s) * rowMaxL1(s) + tileRow
  IN [ rowStart     |-> kRow * KERNEL_DIM,
       colStart     |-> ((x[3] * colMaxL2(s) + tileCol) * KERNEL_DIM) \div W_DATA,
       base_col_idx |-> kRow * MAX_COL,
       seqBlockLen  |-> MinOf(ROWS_IN_BLOCK(s), s.seq - seqBlockIdx * ROWS_IN_BLOCK(s)),
       outBase      |-> seqBlockIdx * ROWS_IN_BLOCK(s) * (s.out \div W_DATA),
       inBase       |-> seqBlockIdx * ROWS_IN_BLOCK(s) * (s.in \div W_DATA) ]

(* The offsets of the block at loop indices x. *)
Blk(s, x) ==
  LET tileRow     == x[5] * rowMaxL1(s) + x[7]
      tileCol     == x[6] * colMaxL1(s) + x[8]
      seqBlockIdx == x[1] * ROWS_IN_L2(s) + x[4]
      kRow        == x[2] * rowMaxL2(s) * rowMaxL1(s) + tileRow
  IN [ rowStart     |-> kRow * KERNEL_DIM,
       colStart     |-> ((x[3] * colMaxL2(s) * colMaxL1(s) + tileCol) * KERNEL_DIM) \div W_DATA,
       base_col_idx |-> kRow * MAX_COL,
       seqBlockLen  |-> MinOf(ROWS_IN_BLOCK(s), s.seq - seqBlockIdx * ROWS_IN_BLOCK(s)),
       outBase      |-> seqBlockIdx * ROWS_IN_BLOCK(s) * (s.out \div W_DATA),
       inBase       |-> seqBlockIdx * ROWS_IN_BLOCK(s) * (s.in \div W_DATA) ]

\* Mutant: the load loop runs one weight word past the tile.
LoadDoneLate(n) == n = KERNEL_DIM * colBlockSize + 1

\* The load loops end after KERNEL_DIM rows of colBlockSize words.
LoadDone(n) == n = KERNEL_DIM * colBlockSize

\* "check if the output is valid".
IsValid(i) == i >= MAX_COL * (2 * KERNEL_DIM - 1) - 1

\* The bound of the drain loop.
DrainEnd(len) == MAX_COL * (len + 2 * KERNEL_DIM - 1) - 1

\* Where the loop index starts: 0, or the drain's start if no row is streamed.
CallStart(len) == IF len < 0 THEN len * MAX_COL ELSE 0

Init ==
  /\ shape \in Shapes
  /\ tile = [t \in Threads |-> T!TileInit]
  /\ it = [t \in Threads |-> FirstIter(LoopLo(shape, t), LoopHi(shape, t))]
  /\ ph = [t \in Threads |-> IF it[t] = <<>> THEN "done" ELSE "load"]
  /\ widx = [t \in Threads |-> 0]
  /\ c = [t \in Threads |-> 0]
  /\ outputIndex = [t \in Threads |-> 0]
  /\ out = [a \in (0 .. shape.seq - 1) \X (0 .. shape.out \div W_DATA - 1) |-> EmptyBag]
  /\ writer = [a \in DOMAIN out |-> {}]

(* One smmParamWrite(weight_idx, weight, omp_id) of the load loops. *)
ParamWrite(t) ==
  LET b          == Blk(shape, it[t])
      i          == b.rowStart + widx[t] \div colBlockSize
      j          == b.colStart + (widx[t] % colBlockSize)
      weight_idx == (i - b.rowStart) * KERNEL_DIM + (j - b.colStart) * W_DATA
  IN /\ ph[t] = "load"
     /\ tile' = I!smmParamWrite(tile, weight_idx,
                                 WeightWord(shape, i * (shape.out \div W_DATA) + j), t)
     /\ widx' = [widx EXCEPT ![t] = @ + 1]
     /\ IF LoadDone(widx[t] + 1)
          THEN /\ ph' = [ph EXCEPT ![t] = "calc"]
               /\ c' = [c EXCEPT ![t] = CallStart(b.seqBlockLen)]
               /\ outputIndex' = [outputIndex EXCEPT ![t] = 0]
          ELSE UNCHANGED <<ph, c, outputIndex>>
     /\ UNCHANGED <<shape, it, out, writer>>

(***************************************************************************)
(* One iteration of the streaming loop (i * MAX_COL + j < seqBlockLen *    *)
(* MAX_COL) or of the drain loop (the index continued, input zero).        *)
(***************************************************************************)
Call(t) ==
  LET b   == Blk(shape, it[t])
      i   == c[t]
      j   == CRem(i, MAX_COL)
      v   == IF i < b.seqBlockLen * MAX_COL
               THEN InputWord(shape, b.inBase + b.base_col_idx
                                     + (i \div MAX_COL) * (shape.in \div W_DATA) + j)
               ELSE Zero
      r   == IF j = MAX_COL - 1 THEN I!smmStream(tile, v, t) ELSE I!smmQueue(tile, j, v, t)
      dst == OutputWord(shape, b.outBase + (outputIndex[t] \div colBlockSize) * (shape.out \div W_DATA)
                               + b.colStart + (outputIndex[t] % colBlockSize))
  IN /\ ph[t] = "calc"
     /\ i < DrainEnd(b.seqBlockLen)
     /\ tile' = r.tiles
     /\ c' = [c EXCEPT ![t] = @ + 1]
     /\ IF IsValid(i)
          THEN /\ out' = [out EXCEPT ![dst] = @ (+) r.res]
               /\ writer' = [writer EXCEPT ![dst] = @ \cup {t}]
               /\ outputIndex' = [outputIndex EXCEPT ![t] = @ + 1]
          ELSE UNCHANGED <<out, writer, outputIndex>>
     /\ UNCHANGED <<shape, it, ph, widx>>

(* The loop nest moves to its next block once the drain loop has ended. *)
NextBlock(t) ==
  LET nx == Bump(it[t], LoopLo(shape, t), LoopHi(shape, t), 8)
  IN /\ ph[t] = "calc"
     /\ c[t] = DrainEnd(Blk(shape, it[t]).seqBlockLen)
     /\ it' = [it EXCEPT ![t] = nx]
     /\ ph' = [ph EXCEPT ![t] = IF nx = <<>> THEN "done" ELSE "load"]
     /\ widx' = [widx EXCEPT ![t] = 0]
     /\ UNCHANGED <<shape, tile, c, outputIndex, out, writer>>

Next == \E t \in Threads : ParamWrite(t) \/ Call(t) \/ NextBlock(t)

(* Every thread of the team runs on its own core until it leaves the region. *)
Spec == Init /\ [][Next]_vars
             /\ \A t \in Threads : WF_vars(ParamWrite(t) \/ Call(t) \/ NextBlock(t))

-----------------------------------------------------------------------------
\* out is already indexed by <<row, word>>, TileGemm's logical output.
TG == INSTANCE TileGemm

-----------------------------------------------------------------------------
TypeOK ==
  /\ shape \in Shapes
  /\ ph \in [Threads -> {"load", "calc", "done"}]
  /\ \A t \in Threads : ph[t] = "done" <=> it[t] = <<>>
  /\ widx \in [Threads -> 0 .. KERNEL_DIM * colBlockSize]
  /\ c \in [Threads -> Int]
  /\ outputIndex \in [Threads -> Nat]
  /\ writer \in [DOMAIN out -> SUBSET Threads]

(***************************************************************************)
(* Output ownership (spec 5): no output word is ever merged into by two    *)
(* threads, so the unsynchronised add8in32 read-modify-writes of the team  *)
(* never race.  It rests only on the tileInL2 ranges of the threads being  *)
(* disjoint and on every block writing inside its own sequence block.      *)
(***************************************************************************)
OutputOwnership == \A a \in DOMAIN writer : Cardinality(writer[a]) <= 1

(***************************************************************************)
(* Tile lane contract (spec 4.2): every smmQueue the loops issue names a   *)
(* lane 0..MAX_COL-2 of the tile's staging memory.                         *)
(***************************************************************************)
TileLaneContract ==
  \A t \in Threads :
    (ph[t] = "calc" /\ c[t] < DrainEnd(Blk(shape, it[t]).seqBlockLen))
      => CRem(c[t], MAX_COL) \in 0 .. MAX_COL - 1

(***************************************************************************)
(* When every thread has left the parallel region, the output holds every  *)
(* contribution of the GEMM (spec 8: tiled engines equal the reference).   *)
(***************************************************************************)
CompleteOnReturn == (\A t \in Threads : ph[t] = "done") => TG!Complete

(***************************************************************************)
(* smmComputeRWMA implements TileGemm: each merge is one new contribution  *)
(* at its own word, and, with every thread running, all are merged.        *)
(***************************************************************************)
TGSpec == TG!Spec

=============================================================================
