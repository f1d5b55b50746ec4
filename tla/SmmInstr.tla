------------------------------ MODULE SmmInstr ------------------------------
(***************************************************************************)
(* The custom-instruction wrappers of src/accelerator/smm_gem.cc (the      *)
(* build without DEVELOP).  Each wrapper moves its operands into           *)
(* registers (X7 the value rn, X9 the index rm, X8 the thread index),      *)
(* issues one instruction and returns X10.  The device applies the         *)
(* instruction to the tile of that thread index, so the wrappers are       *)
(* operators over a function from thread index to tile; a call returns the *)
(* new function and the result word.                                       *)
(***************************************************************************)
EXTENDS Naturals

CONSTANTS KERNEL_DIM, W_DATA, Zero

LOCAL T == INSTANCE SystolicTile

(* smmStream(rn, tid): complete the row of tile tid with rn and push it. *)
smmStream(tiles, rn, tid) ==
  LET r == T!Stream(tiles[tid], rn)
  IN [tiles |-> [tiles EXCEPT ![tid] = r.tile], res |-> r.res]

(* smmQueue(rm, rn, tid): stage rn as word rm of the row of tile tid. *)
smmQueue(tiles, rm, rn, tid) ==
  LET r == T!Queue(tiles[tid], rm, rn)
  IN [tiles |-> [tiles EXCEPT ![tid] = r.tile], res |-> r.res]

(* smmParamWrite(rm, rn, tid): rm is the element index row * KERNEL_DIM + *)
(* column of the weight block, rn the word whose first element it is; the *)
(* device stores rn as word (row, column / W_DATA) of tile tid.            *)
smmParamWrite(tiles, rm, rn, tid) ==
  [tiles EXCEPT ![tid] = T!LoadWeight(@, rm \div KERNEL_DIM, (rm % KERNEL_DIM) \div W_DATA, rn)]

=============================================================================
