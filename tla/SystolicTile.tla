---------------------------- MODULE SystolicTile ----------------------------
(***************************************************************************)
(* One weight-stationary systolic tile (SATile of                          *)
(* src/gem5-X-TiC-SAT/src/dev/arm/systolic_m2m.hh), as operators over a    *)
(* tile value so that every engine can own one tile per thread.            *)
(*                                                                         *)
(* Data are symbolic: an input word is <<row, word>> of the input matrix,  *)
(* a weight word is <<row, word>> of the weight matrix, and Zero is the    *)
(* all-zero word the drain streams.  A result word is the bag of the       *)
(* elementwise products it sums, each product <<r, k, k2, c>> standing for *)
(* input[r][k] * weight[k2][c]; a product is right iff k = k2.             *)
(*                                                                         *)
(* The implementation of loadWeights / inputQueue / streamInOut is not in  *)
(* the repository: the timing is taken from the specification (section     *)
(* 4.2): a row handed over by stream leaves the array 2*KERNEL_DIM-2 row   *)
(* times later and is then read out one word per call, word 0 by the      *)
(* stream call and word j+1 by queue(j).                                   *)
(***************************************************************************)
EXTENDS Naturals, Sequences, Bags

CONSTANTS
  KERNEL_DIM,   \* side of the square tile (SA_SIZE)
  W_DATA,       \* int8 lanes packed in one 32-bit word
  Zero          \* the all-zero word

ASSUME KERNEL_DIM \in Nat \ {0, 1}
ASSUME W_DATA \in Nat \ {0} /\ KERNEL_DIM % W_DATA = 0
ASSUME KERNEL_DIM \div W_DATA >= 2

MAX_COL == KERNEL_DIM \div W_DATA

Lanes   == 0 .. KERNEL_DIM - 1          \* element rows of the tile
Cols    == 0 .. MAX_COL - 1             \* word columns of the tile

\* Row times between handing a row to the array and reading its result.
PipeDepth == 2 * KERNEL_DIM - 2

\* A result row: one bag of products per word column.
ZeroRow == [b \in Cols |-> EmptyBag]

\* SATile(): every memory of a fresh tile is zero.
TileInit ==
  [ weights |-> [p \in Lanes \X Cols |-> Zero],
    staged  |-> [j \in Cols |-> Zero],
    pipe    |-> [n \in 1 .. PipeDepth |-> ZeroRow],
    outRow  |-> ZeroRow ]

(***************************************************************************)
(* The products a row of staged input words makes with the weights: lane a *)
(* of the row is element a % W_DATA of staged word a \div W_DATA, and it   *)
(* meets the W_DATA weights of weight word (a, b).                         *)
(***************************************************************************)
RowProduct(staged, weights) ==
  [ b \in Cols |->
      LET live == { a \in Lanes : /\ staged[a \div W_DATA] # Zero
                                  /\ weights[<<a, b>>] # Zero }
      IN SetToBag(
           { << staged[a \div W_DATA][1],
                staged[a \div W_DATA][2] * W_DATA + (a % W_DATA),
                weights[<<a, b>>][1],
                weights[<<a, b>>][2] * W_DATA + l >> :
             a \in live, l \in 0 .. W_DATA - 1 }) ]

\* loadWeights: weight word (a, b) of the tile memory is overwritten.
LoadWeight(tile, a, b, w) == [tile EXCEPT !.weights[<<a, b>>] = w]

(***************************************************************************)
(* inputQueue(j, v): stage word j of the current row without advancing,    *)
(* returning word j+1 of the row being read out.  A lane outside           *)
(* 0..MAX_COL-2 is outside the tile's memory: the result is unspecified    *)
(* and the tile is left as it was (callers are checked never to do this).  *)
(***************************************************************************)
Queue(tile, j, v) ==
  IF j \in 0 .. MAX_COL - 2
  THEN [tile |-> [tile EXCEPT !.staged[j] = v], res |-> tile.outRow[j + 1]]
  ELSE [tile |-> tile, res |-> EmptyBag]

(***************************************************************************)
(* streamInOut(v): the last word completes the row, the row enters the     *)
(* array, the oldest row leaves it and its word 0 is returned.             *)
(***************************************************************************)
Stream(tile, v) ==
  LET st   == [tile.staged EXCEPT ![MAX_COL - 1] = v]
      done == Head(tile.pipe)
  IN [ tile |-> [ tile EXCEPT !.staged = st,
                              !.pipe   = Append(Tail(@), RowProduct(st, tile.weights)),
                              !.outRow = done ],
       res  |-> done[0] ]

=============================================================================
