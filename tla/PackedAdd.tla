------------------------------ MODULE PackedAdd ------------------------------
(***************************************************************************)
(* add8in32 of src/accelerator/smm_gem.cc (and its copy in                 *)
(* src/gem5x_codes/smm_gem.cpp): the packed accumulate every engine uses   *)
(* to merge a tile result word into an output word.  The word is viewed    *)
(* through int8_t pointers: lane i is byte i, read as a signed int8, the   *)
(* two lanes are added as int, and the sum is stored back through the      *)
(* conversion (int8_t), which keeps the low eight bits.                    *)
(*                                                                         *)
(* The state machine merges a fixed set of result words into one output    *)
(* word in every order, as the blocks of a thread (or of several threads,  *)
(* were the partition to overlap) may do.                                  *)
(***************************************************************************)
EXTENDS Integers, FiniteSetsExt

CONSTANTS
  W_DATA,       \* int8 lanes in a 32-bit word (4)
  InitWords,    \* possible contents of the output word before the call
  Partials      \* the result words merged into it: a function 1..n -> word

ASSUME W_DATA \in 1 .. 4

Bytes == 0 .. 3

\* A uint32_t as its four bytes in memory order, byte 0 first (little-endian).
Word == [Bytes -> 0 .. 255]

ASSUME InitWords \subseteq Word /\ \A k \in DOMAIN Partials : Partials[k] \in Word

VARIABLES
  start,        \* the output word on entry
  memory,       \* the output word
  done          \* indices of Partials merged so far

vars == <<start, memory, done>>

\* Byte i of a word: what (int8_t *) (&w) + i addresses.
Byte(w, i) == w[i]

\* The int8_t value of a byte.
AsInt8(b) == IF b >= 128 THEN b - 256 ELSE b

\* Mutant: an int8 conversion that saturates instead of wrapping.
ToInt8Sat(v) == IF v > 127 THEN 127 ELSE IF v < -128 THEN -128 ELSE v

\* (int8_t) v: the low eight bits, as a signed value.
ToInt8(v) == AsInt8(v % 256)

\* Mutant: the int sum stored without the conversion to eight bits.
StoreRaw(w, i, v) == [w EXCEPT ![i] = v]

\* *mem_ptr = v: byte i of w replaced by the two's complement of v.
Store(w, i, v) == [w EXCEPT ![i] = v % 256]

\* The lane loop from lane i on.
RECURSIVE LaneLoop(_, _, _)
LaneLoop(mem, sys, i) ==
  IF i = W_DATA THEN mem
  ELSE LaneLoop(Store(mem, i, ToInt8(AsInt8(Byte(mem, i)) + AsInt8(Byte(sys, i)))),
                sys, i + 1)

add8in32(memory_, systolicResult) == LaneLoop(memory_, systolicResult, 0)

(* Reference: lane i of the result is the sum of lane i of the start word  *)
(* and of every merged word, modulo 256; lanes past W_DATA are untouched.  *)
Reference(w0, S) ==
  LET lane(i) == IF i < W_DATA
                   THEN (Byte(w0, i) + MapThenSumSet(LAMBDA k : Byte(Partials[k], i), S)) % 256
                   ELSE Byte(w0, i)
  IN [i \in Bytes |-> lane(i)]

Init ==
  /\ start \in InitWords
  /\ memory = start
  /\ done = {}

(* One add8in32(output word, mult) at a merge site of an engine. *)
Merge(k) ==
  /\ k \notin done
  /\ memory' = add8in32(memory, Partials[k])
  /\ done' = done \cup {k}
  /\ UNCHANGED start

Next == \E k \in DOMAIN Partials : Merge(k)

Spec == Init /\ [][Next]_vars

-----------------------------------------------------------------------------
TypeOK ==
  /\ start \in InitWords
  /\ memory \in Word
  /\ done \subseteq DOMAIN Partials

(***************************************************************************)
(* Spec 4.1 and 8: whatever set of result words has been merged, and in    *)
(* whatever order, the output word equals the lane-wise sum modulo 256:    *)
(* add8in32 wraps each int8 lane (no saturation) and never carries into    *)
(* the next lane, so merges commute and associate.                         *)
(***************************************************************************)
MergeMatchesReference == memory = Reference(start, done)

=============================================================================
