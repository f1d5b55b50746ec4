----------------------------- MODULE SmmCompute -----------------------------
(***************************************************************************)
(* smmCompute of src/gem5x_codes/smm_gem.cpp: the single-core driver of    *)
(* one systolic tile.  For every tile column, for every tile row: write    *)
(* the KERNEL_DIM x MAX_COL weight words (smmParamWrite), stream the       *)
(* seq_len input rows word by word (smmQueue / smmStream), then drain with *)
(* zero words, merging every word returned at or after the validity        *)
(* window into the row-major output with add8in32.                         *)
(*                                                                         *)
(* One step is one custom instruction (one tile call), so the state the    *)
(* driver keeps between calls (loop indices, outputIndex) is explicit.     *)
(***************************************************************************)
EXTENDS Naturals, Bags

CONSTANTS KERNEL_DIM, W_DATA, Zero, Shapes

ASSUME \A s \in Shapes :
         /\ s.seq \in Nat \ {0}
         /\ s.in  \in Nat \ {0} /\ s.in  % KERNEL_DIM = 0
         /\ s.out \in Nat \ {0} /\ s.out % KERNEL_DIM = 0

VARIABLES
  shape,        \* [seq, in, out] of this call
  tile,         \* the systolic tile
  tileCol,      \* outer loop index
  tileRow,      \* inner loop index
  ph,           \* "load" | "calc" | "done"
  widx,         \* weight words written for this tile: i * MAX_COL + j
  c,            \* tile calls issued for this tile: i * MAX_COL + j
  outputIndex,  \* valid words merged for this tile
  out           \* output buffer: word address -> bag of products

vars == <<shape, tile, tileCol, tileRow, ph, widx, c, outputIndex, out>>

T == INSTANCE SystolicTile

MAX_COL == T!MAX_COL

(* The instruction wrappers of this build take no thread index for queue  *)
(* and stream; the weight write passes the x index in rm, the y index in   *)
(* rn and the value in ra.                                                 *)
smmStream(t, rn)             == T!Stream(t, rn)
smmQueue(t, rm, rn)          == T!Queue(t, rm, rn)
smmParamWrite(t, rm, rn, ra) == T!LoadWeight(t, rm, rn, ra)

colBlockSize == KERNEL_DIM \div W_DATA

(* Buffers are row-major; every word holds its own <<row, word>>. *)
InputWord(s, addr)  == <<addr \div (s.in \div W_DATA),  addr % (s.in \div W_DATA)>>
WeightWord(s, addr) == <<addr \div (s.out \div W_DATA), addr % (s.out \div W_DATA)>>
OutAddr(s, row, col) == row * (s.out \div W_DATA) + col

rowStart == tileRow * KERNEL_DIM
colStart == (tileCol * KERNEL_DIM) \div W_DATA
base_col_idx == tileRow * MAX_COL

\* Mutant: the load loop runs one weight word past the tile.
LoadDoneLate(n) == n = KERNEL_DIM * colBlockSize + 1

\* The load loops end after KERNEL_DIM rows of colBlockSize words.
LoadDone(n) == n = KERNEL_DIM * colBlockSize

\* Mutant: the window check one call early.
IsValidEarly(i) == i >= MAX_COL * (2 * KERNEL_DIM - 1) - 2

\* Mutant: the drain loop one call short.
DrainEndShort(rows) == MAX_COL * (rows + 2 * KERNEL_DIM - 1) - 2

\* "check if the output is valid": the call index has reached the window.
IsValid(i) == i >= MAX_COL * (2 * KERNEL_DIM - 1) - 1

\* The bound of the drain loop: calls issued for a block of rows.
DrainEnd(rows) == MAX_COL * (rows + 2 * KERNEL_DIM - 1) - 1

Init ==
  /\ shape \in Shapes
  /\ tile = T!TileInit
  /\ tileCol = 0
  /\ tileRow = 0
  /\ ph = "load"
  /\ widx = 0
  /\ c = 0
  /\ outputIndex = 0
  /\ out = [a \in 0 .. shape.seq * (shape.out \div W_DATA) - 1 |-> EmptyBag]

(* One smmParamWrite(i - rowStart, j - colStart, weight) of the load loop. *)
ParamWrite ==
  LET i == widx \div colBlockSize
      j == widx % colBlockSize
  IN /\ ph = "load"
     /\ tile' = smmParamWrite(tile, i, j,
                  WeightWord(shape, OutAddr(shape, rowStart + i, colStart + j)))
     /\ widx' = widx + 1
     /\ IF LoadDone(widx + 1)
          THEN ph' = "calc" /\ c' = 0 /\ outputIndex' = 0
          ELSE UNCHANGED <<ph, c, outputIndex>>
     /\ UNCHANGED <<shape, tileCol, tileRow, out>>

(***************************************************************************)
(* One iteration of the streaming loop (i < seq_len) or of the drain loop  *)
(* (the same index continued, input word zero): stream on the last word of *)
(* a row, queue otherwise; merge the result if the window has elapsed.     *)
(***************************************************************************)
Call ==
  LET j   == c % MAX_COL
      v   == IF c < shape.seq * MAX_COL
               THEN InputWord(shape, (c \div MAX_COL) * (shape.in \div W_DATA)
                                       + (j + base_col_idx))
               ELSE Zero
      r   == IF j = MAX_COL - 1 THEN smmStream(tile, v) ELSE smmQueue(tile, j, v)
      dst == OutAddr(shape, outputIndex \div colBlockSize,
                     colStart + (outputIndex % colBlockSize))
  IN /\ ph = "calc"
     /\ c < DrainEnd(shape.seq)
     /\ tile' = r.tile
     /\ c' = c + 1
     /\ IF IsValid(c)
          THEN /\ out' = [out EXCEPT ![dst] = @ (+) r.res]
               /\ outputIndex' = outputIndex + 1
          ELSE UNCHANGED <<out, outputIndex>>
     /\ UNCHANGED <<shape, tileCol, tileRow, ph, widx>>

(* The tileRow / tileCol loops move on once the drain loop has ended. *)
NextTile ==
  /\ ph = "calc"
  /\ c = DrainEnd(shape.seq)
  /\ widx' = 0
  /\ IF tileRow + 1 < shape.in \div KERNEL_DIM
       THEN tileRow' = tileRow + 1 /\ ph' = "load" /\ UNCHANGED tileCol
       ELSE IF tileCol + 1 < shape.out \div KERNEL_DIM
         THEN tileRow' = 0 /\ tileCol' = tileCol + 1 /\ ph' = "load"
         ELSE ph' = "done" /\ UNCHANGED <<tileRow, tileCol>>
  /\ UNCHANGED <<shape, tile, c, outputIndex, out>>

Next == ParamWrite \/ Call \/ NextTile

(* The instruction stream of one core never stops while work remains. *)
Spec == Init /\ [][Next]_vars /\ WF_vars(Next)

-----------------------------------------------------------------------------
(* The output buffer seen as the logical words of TileGemm. *)
LogicalOut ==
  [p \in (0 .. shape.seq - 1) \X (0 .. shape.out \div W_DATA - 1) |-> out[OutAddr(shape, p[1], p[2])]]

TG == INSTANCE TileGemm WITH out <- LogicalOut

-----------------------------------------------------------------------------
TypeOK ==
  /\ shape \in Shapes
  /\ ph \in {"load", "calc", "done"}
  /\ tileCol \in 0 .. shape.out \div KERNEL_DIM - 1
  /\ tileRow \in 0 .. shape.in \div KERNEL_DIM - 1
  /\ widx \in 0 .. KERNEL_DIM * colBlockSize
  /\ c \in 0 .. DrainEnd(shape.seq)
  /\ outputIndex \in 0 .. c
  /\ DOMAIN out = 0 .. shape.seq * (shape.out \div W_DATA) - 1

(***************************************************************************)
(* Drain completeness (spec 4.2, 8): when the drain loop of a tile ends,   *)
(* exactly seq_len rows of MAX_COL words have been merged: the validity    *)
(* window and the drain bound agree, so no word of the tile is lost or     *)
(* merged from beyond the block.                                           *)
(***************************************************************************)
DrainExact ==
  (ph = "calc" /\ c = DrainEnd(shape.seq)) => outputIndex = shape.seq * MAX_COL

(***************************************************************************)
(* smmCompute implements TileGemm: every merged word is exactly one        *)
(* not-yet-merged contribution at its own output word (no word merged      *)
(* before the window, from a stale block or at a shifted position), and    *)
(* every contribution is eventually merged.                                *)
(***************************************************************************)
TGSpec == TG!Spec

=============================================================================
