---------------------------- MODULE MC_Gem5xDense ----------------------------
(***************************************************************************)
(* The int8 accumulation of the gem5x build: conventionalCompute of        *)
(* src/gem5x_codes/smm_gem.cpp with its 16 x 16 blocks on a 1 x 32 input   *)
(* and a 32 x 16 weight matrix (two row blocks accumulate into each byte), *)
(* and then add8in32, the packed merge the tiled drivers apply to every    *)
(* result word, on words at the int8 boundaries in every merge order; then *)
(* one TransformerBlock::compute, the caller of the gem5x smmCompute, as   *)
(* test() of src/transformer.cpp runs it.                                  *)
(***************************************************************************)
EXTENDS MC_DenseCases, TLC

CONSTANTS W_DATA, seq_len, input_size_, output_size_, Cases, ReversedLayout,
          ROW_BLOCKS, COL_BLOCKS, InitWords, Partials, NUM_HEADS, Junk

VARIABLES case, it, outb, merged,   \* conventionalCompute
          start, memory, done,      \* add8in32 merges
          buf, pc, n                \* TransformerBlock::compute

G == INSTANCE ConventionalGem5x
P == INSTANCE PackedAdd
T == INSTANCE TransformerBlock

gVars == <<case, it, outb, merged>>
pVars == <<start, memory, done>>
tVars == <<buf, pc, n>>
vars  == <<gVars, pVars, tVars>>

Init == G!Init /\ P!Init /\ T!Init

\* The merges start once conventionalCompute has returned, and the block
\* once every merge is done.
Next == \/ G!Next /\ UNCHANGED <<pVars, tVars>>
        \/ it = <<>> /\ P!Next /\ UNCHANGED <<gVars, tVars>>
        \/ done = DOMAIN Partials /\ T!Next /\ UNCHANGED <<gVars, pVars>>

Spec == Init /\ [][Next]_vars

W(b0, b1, b2, b3) == (0 :> b0) @@ (1 :> b1) @@ (2 :> b2) @@ (3 :> b3)

\* Zero, every lane -1, every lane 127, and lanes -128 0 -1 -127.
MCInitWords == { W(0, 0, 0, 0), W(255, 255, 255, 255),
                 W(127, 127, 127, 127), W(128, 0, 255, 129) }

\* Every lane 1; every lane -128; every lane 127; lanes 1 2 3 4; lane 0 -1.
MCPartials == << W(1, 1, 1, 1), W(128, 128, 128, 128), W(127, 127, 127, 127),
                 W(1, 2, 3, 4), W(255, 0, 0, 0) >>

MCCases == { MkCase(1, 32, 16, seed, seed % 2 = 0) : seed \in 1 .. 4 }

TypeOK == G!TypeOK /\ P!TypeOK /\ T!TypeOK

(* conventionalCompute: every output byte holds its initial value plus     *)
(* exactly the row-block dot products merged into it so far.               *)
AccumulatesExactly == G!AccumulatesExactly

(* conventionalCompute returns the reference GEMM (spec 4.5, 8). *)
CompleteOnReturn == G!CompleteOnReturn

(* add8in32: whatever subset of result words has been merged, in whatever  *)
(* order, the word is the lane-wise sum modulo 256, with no carry between  *)
(* lanes (spec 4.1, 8).                                                    *)
MergeMatchesReference == P!MergeMatchesReference

(* TransformerBlock: every Dense result, the block's output included, was  *)
(* computed with the kernel test() built for that layer, for every head.   *)
LayerGetsItsKernel == T!LayerGetsItsKernel
=============================================================================
