# TLA+ models of the TiC-SAT GEMM engines

This directory holds TLA+ models of the matrix-multiplication engines in
`src/`. They are checked with TLC. Each engine drives a weight-stationary
systolic tile through three custom instructions, either from one core or from
an OpenMP team. The models check these properties:

- the tile-call sequences the drivers issue are legal;
- the validity window and the drain bound agree with the tile's latency;
- the threads of a team never write the same output word;
- the result is the GEMM.

## The system

| Part | Source | Role |
|------|--------|------|
| Systolic tile `SATile` | `src/gem5-X-TiC-SAT/src/dev/arm/systolic_m2m.hh` | Holds a KERNEL_DIM x KERNEL_DIM weight block, a staging row and a pipeline. Only the header is in the repository. |
| Instruction wrappers | `src/accelerator/smm_gem.cc:30-141`, `src/gem5x_codes/smm_gem.cpp:16-106` | `smmParamWrite` writes one weight word. `smmQueue(j, v)` stages word j of an input row. `smmStream(v)` completes the row and pushes it into the array. Each returns one output word. In DEVELOP mode, `smmList[tid]` gives every thread its own tile. |
| `smmCompute` | `src/gem5x_codes/smm_gem.cpp:109-160` | Single-core driver. For each (tileCol, tileRow) it loads the weights, streams seq_len rows, then drains with zeros, merging words with `add8in32`. |
| `smmComputeRWMA` | `src/accelerator/smm_gem.cc:146-241` | Row-major driver: an eight-deep loop nest over L2/L1 cache blocks. An OpenMP team splits the sequence blocks of an L2 block (`col_in_th`). |
| `smmComputeBWMA` | `smm_gem.cc:243-300` | Block-wise driver: the team splits the output tile columns. |
| `add8in32` | `smm_gem.cc:302-314` | Packed int8 accumulate of a returned word into the output. |
| Dense engines | `smm_gem.cc:316-386, 419-553`, `smm_gem.cpp:186-215` | `conventionalCompute`, `tiledCompute` and the NEON engines: the references and the SIMD baselines. |
| Transformer layers | `src/transformer.cpp`, `src/transformer_layers/*` | `test()` builds the weights and one `TransformerBlock`, then calls `compute` once. Each head runs three Dense projections, a transpose, `smmCompute` for Q·Kᵀ, softmax, `smmCompute` for scores·V into its slice of `multihead_out`, and `post_softmax`. Condense, add-norm and two feed-forward layers follow. Dense, Transpose, Softmax and AddNormalize are not in the repository. |

How the parts interact: a driver thread owns one tile. It issues the tile
calls in a fixed order: load, then stream, then drain. Meanwhile the threads
of a team share the input, weight and output buffers. The drivers' only
shared writes are the `add8in32` read-modify-writes on the output buffer.

## Modules

- **`SystolicTile`**: the tile as operators over a tile value (`TileInit`, `LoadWeight`,
  `Queue`, `Stream`).
  - Data are symbolic. An input or weight word is its own
    `<<row, word>>`, and `Zero` is the zero word.
  - A result word is the bag (multiset) of the
    products it sums: `<<r, k, k2, c>>` stands for input[r][k]·weight[k2][c].
  - A wrong pairing (k ≠ k2), a lost product and a doubled product are
    therefore all visible.
  - The tile's method bodies are not in the repository, so the pipeline timing
    comes from spec section 4.2. A row streamed in leaves 2·KERNEL_DIM−2
    row-times later and is read out word 0 by `stream` and word j+1 by
    `queue(j)`. These definitions are marked spec_modelled in the map.
- **`SmmInstr`**: the accelerator build's wrappers `smmStream`, `smmQueue`,
  `smmParamWrite` as operators over a function from thread index to tile.
  The thread index (X8) selects the tile; the call returns the new tiles
  and the result word. `smmParamWrite` passes an element index, which the
  device splits into (row, word). The gem5x build's wrappers, which have
  no thread index for queue and stream, are operators of `SmmCompute`.
- **`TileGemm`**: the abstract specification of every tile engine.
  - Logical output word (r, ow) receives, once each and in any order, the
    contribution of each KERNEL_DIM-deep slice kt of the reduction.
  - It is weakly fair, so every contribution eventually arrives.
- **`SmmCompute`**: `smmCompute`.
  - The state is the loop indices (`tileCol`, `tileRow`), the phase
    (load / calc / done), `widx` (weight words written), `c` (the index
    `i*MAX_COL+j` of the stream loop, continued by the drain loop),
    `outputIndex`, the tile and the output buffer.
  - There is one action per tile instruction: `ParamWrite` and `Call`
    (stream or queue, plus the `add8in32` merge when the index has reached
    the window).
  - `NextTile` advances the loops.
  - It is shown to implement `TileGemm` through `LogicalOut`
    (`INSTANCE TileGemm WITH out <- LogicalOut`).
- **`SmmComputeRWMA`**: `smmComputeRWMA`. CORE_NUM threads are requested;
  the team that runs has `TEAM` of them (`omp_set_num_threads` is only a
  request), while `col_in_th` still divides by CORE_NUM.
  - All size computations are translated, with C's `%` (`CRem`) and
    `ceil` (`CeilDiv`).
  - The eight loops are one index tuple, advanced by the recursive odometer
    `Bump`, over the bounds `LoopLo` / `LoopHi` of the thread.
  - `Blk` gives a block's offsets (lines 173-199).
  - The cache budgets written as literals (128, 64, 32, 512, 256) are the
    constants `BLOCK_ROWS`, `L1_IN`, `L1_OUT`, `L2_ROWS`, `L2_SIZE`. The
    passing run scales them so that each of the eight loops runs at least
    twice in one of its shapes (see Bounds).
  - The shared output is indexed by the <<row, word>> of each address
    (`OutputWord`), which is `TileGemm`'s logical output, so the team is shown
    to implement `TileGemm` with no mapping of `out`.
  - The history variable `writer` records which threads have merged into each
    output word.
- **`SmmComputeBWMA`**: `smmComputeBWMA`.
  - The private pointers are modelled as word offsets:
    - `weightPtr` is set once on entry from `start_index` and advanced by every load;
    - `outPtr` is set per block and advanced by every merge;
    - `inPtr` is the call index.
  - `InputWord` / `WeightWord` decode the block-wise layouts.
  - `LogicalOut` maps output word (r, ow) to block ow÷MAX_COL, for the
    refinement of `TileGemm`.
- **`PackedAdd`**: `add8in32`, lane by lane.
  - A uint32_t is held as its four bytes. A lane is read as int8 and the sum is
    stored through `(int8_t)` (`ToInt8`).
  - A state machine merges a set of boundary-valued result words into one
    output word in every order.
- **`DenseData`**: the byte view of the dense engines' buffers, the int8
  conversion, the row reversal `Rev(i) = i+3-2(i%4)` of the accelerator
  build, the reference GEMM of spec 4.5, and the loop-nest odometer `Step`.
  - `ReversedLayout` says whether the weight buffer holds its rows reversed in
    groups of four, the layout the accelerator engines read.
- **`ConventionalGem5x`, `ConventionalAccel`, `TiledCompute`**: the dense
  engines, with one output-byte store per step.
  - The dot-product loop is a sum, because it changes no state but a local.
  - The history variable `merged` records which reduction blocks each output
    byte has received.
- **`SimdComputeRWMA`, `SimdComputeBWMA`**: the NEON engines.
  - One step loads the VL weight registers `B` for an (input block, output
    block) pair; one step computes a row block: `C` zeroed, `A` loaded, the
    `vmlaq_s8` loops (an int8 wrapping sum over the lanes, pairing weight
    row i with input lane `4*(i/4)+3-(i%4)`), and the in-place `vaddq_s8`
    into the output.
  - A register is modelled by its int8 lanes. VL is the block side and
    lane count, 16 in the code.
  - The BWMA engine keeps its three pointers as variables: the weight
    pointer runs over the whole call, the input and output pointers are set
    per block pair and advanced per row block. Its buffers are in the
    block-wise layout those walks define (`BlockWise`, `WBufB`).
- **`MC_AccelDense`** composes the accelerator build's dense engines
  (`tiledCompute`, both NEON engines, `conventionalCompute`) through
  `INSTANCE ... WITH`, each on its own buffers. They are called one after
  another on the same matrices. `conventionalCompute` stores instead of
  accumulating, so it gets a pre-zeroed output (a variable `caseZ`).
- **`TransformerBlock`**: `SingleHeadSelfAttn::compute` and
  `TransformerBlock::compute`, as `test()` drives them. The model tracks
  which buffer each step reads and writes.
  - A buffer's content is the sequence of terms added into it since it
    last held zero, so `<<>>` means zero.
  - The directly called `smmCompute` appends its product (`Accumulate`),
    as the engines accumulate (spec 3; `TGSpec` of `smm_compute`).
  - Transpose, Softmax and AddNormalize write their whole output (`Store`).
  - Dense is not in the repository, and whether it stores or accumulates is
    unknown. Each Dense call therefore does either, nondeterministically.
  - `new T[]()` buffers start at zero. `multihead_out`, `condense_out` and
    `intermediateFF` are `new T[]` with no initialiser, so each starts at
    zero or at the model value `Junk`: reading indeterminate memory is a
    choice over what the heap may hold.
  - The weights are kernel identities. `KernelFile(n, qkv)` is the kernel
    `test()` loads from (or saves to) file `H<n>_L<qkv>`. `weightVec` is
    `test()`'s flat packing of those kernels. `HeadWeights` and
    `LayerWeights` are the constructors' unpacking of it, and each Dense
    result records the kernel it used.
  - The REARRANGE and SIMD branches of `SingleHeadSelfAttn::compute` make
    the same sequence of calls, with other engines. The map names the
    default branch.
- **`MC_Gem5xDense`** composes three parts of the gem5x build, called one
  after the other, so that one run checks all three:
  - `conventionalCompute` (`ConventionalGem5x`);
  - `add8in32` (`PackedAdd`);
  - one `TransformerBlock::compute`, the caller of the gem5x `smmCompute`.
- **`MC_*` modules** define the shapes and data for each configuration.
  - `MC_DenseCases` builds int8 matrices spread over the whole range, so
    products and sums wrap.

## Runs

| Run | Config | Expect | What it shows |
|-----|--------|--------|---------------|
| `smm_compute` | `MC_SmmCompute.cfg` | pass | `DrainExact`: each tile merges exactly seq_len·MAX_COL words. `TGSpec`: smmCompute refines TileGemm, so no word is merged before the window, from a stale block or at a shifted position, and the result is complete. |
| `rwma` | `MC_SmmComputeRWMA.cfg` | pass | Two threads, three shapes that between them run each of the eight loops at least twice. `OutputOwnership`: no output word receives merges from two threads, so the unsynchronised `add8in32` never races. `TGSpec`: the team refines TileGemm. |
| `rwma_short_seq` | `RWMA_ShortSeq.cfg` | violation | `CompleteOnReturn` fails in the initial state. With one sequence block and two threads, `col_in_th = 0` and nothing is computed. |
| `rwma_small_team` | `RWMA_SmallTeam.cfg` | violation | `CompleteOnReturn` fails. CORE_NUM = 2 gives `col_in_th = 1`, but the runtime gives a team of one thread, so sequence block 1 is never computed. |
| `rwma_overshoot` | `RWMA_Overshoot.cfg` | violation | `TileLaneContract` fails. seq_len = 10 with 4-row blocks in 8-row L2 blocks makes the `l2In` ceiling visit block 3, where `seqBlockLen = -2`, and the drain calls `smmQueue` with lane −1. |
| `bwma` | `MC_SmmComputeBWMA.cfg` | pass | Two threads owning one or two output tile columns each. `OutputOwnership`: no output word receives merges from two threads. `TGSpec`: the weightPtr / outPtr walks make the team refine TileGemm. |
| `bwma_remainder` | `BWMA_Remainder.cfg` | violation | `CompleteOnReturn` fails. Three tile columns and two threads give `col_in_th = 1`, so column 2 is never computed. |
| `gem5x_dense` | `MC_Gem5xDense.cfg` | pass | Real 16×16 blocks on a 1×32 by 32×16 GEMM. `AccumulatesExactly`: every byte holds its initial value plus exactly the row blocks merged so far. `CompleteOnReturn`: the result is the reference. `MergeMatchesReference`: `add8in32` merges any subset of result words, in any order, to the lane-wise sum modulo 256. The lanes wrap and never carry. `LayerGetsItsKernel`: with two heads, every Dense result, the block output included, used the kernel `test()` built for that layer. The packing of `weightVec` and the constructors' unpacking of it agree. |
| `conv_accel_overwrite` | `ConvAccel_Overwrite.cfg` | violation | With a non-zero output, `conventionalCompute` overwrites (line 330) instead of accumulating as spec 4.5 and the other engines do. |
| `tiled_row_tail` | `Tiled_RowTail.cfg` | violation | seq_len = 3 with 2-row blocks: `seq_len / ROWS_IN_BLOCK` rounds down, and row 2 is never computed. |
| `transformer_junk` | `TransformerBlock_Junk.cfg` | violation | `EngineOutputPreZeroed` fails at head 0's scores·V call. `multihead_out` was allocated without an initialiser and held non-zero memory, and `smmCompute` accumulates onto it. |
| `accel_dense` | `MC_AccelDense.cfg` | pass | A 16×16 by 16×16 GEMM through the four accelerator-build dense engines, every loop of each running more than once. `TiledAccumulatesExactly`: every tiledCompute byte holds its initial value plus exactly the column blocks merged so far. `TiledComplete`, `SimdRWMAComplete`, `SimdBWMAComplete`, `ConvComplete`: each engine returns the reference (the BWMA one in block-wise order). |

The accelerator-build dense engines read weight row k+3−2(k%4), while the
gem5x `conventionalCompute` reads row k. Which layout is right depends on the
tile's lane order, and the tile's methods are not in the repository, so no
run claims a defect here. The accelerator runs use the reversed layout, and
the `RowOf` mutant shows that reading plain rows is caught.

The three RWMA violations are real defects of `smmComputeRWMA` at the real
constants. The small team needs only an OpenMP runtime that gives fewer
threads than requested (`OMP_DYNAMIC`, `OMP_THREAD_LIMIT`); the code never
checks `omp_get_num_threads()`. `smmComputeBWMA` has the same pattern.

- With CORE_NUM = 4 and seq_len ≤ 128, `ROWS_IN_L2 = 1` and `col_in_th = 0`.
- The overshoot appears when ceil(seq_len/128) exceeds 4 and is not a
  multiple of 4 (ROWS_IN_L2 is capped at 512/128 = 4). For example, with
  seq_len = 600 the second L2 block visits blocks 5, 6 and 7 past the end,
  where `seqBlockLen` is −40, −168 and −296.
- In those blocks the drain loop starts at a negative index, so
  `smmQueue` gets negative lanes. The drain's last index,
  MAX_COL·(seqBlockLen + 2·KERNEL_DIM − 1) − 2, is below the validity window
  whenever seqBlockLen ≤ 0, so nothing is merged into the output. The defect
  is the out-of-range lane handed to the tile, not a wrong output word.

The `transformer_junk` violation needs only a heap that hands back
previously used memory for `multihead_out`. Fresh pages are zero, so a test
of one block in a fresh process usually passes. `attention_scores` is zeroed
only by the constructor, so a second call of `compute` would accumulate Q·Kᵀ
onto the previous softmax output. `test()` calls `compute` once, and the
model does too.

PROJECT.json records these and the other violations in "findings".

Every property of a passing run has a mutant in PROJECT.json: a plausible bug
in a mapped definition that TLC must catch.

- A load loop one word too long.
- A validity window one call early.
- A drain one call short.
- Overlapping `tileInL2` or column ranges.
- An RWMA `colStart` whose L2 column-block stride is missing its `colMaxL1` factor.
- A `weightPtr` start that is missing its tile-row factor.
- A saturating int8 conversion.
- A store that is missing its `(int8_t)` conversion.
- An overwrite in place of an accumulate.
- A loop that stops one block short.
- Weight rows read unreversed.
- The RWMA NEON input offset `A_idx` without its row-block term.
- The BWMA input block offset without its seq_len factor.
- A head handed `weightVector + n` instead of `weightVector + n*3`.

## Bounds

- KERNEL_DIM = 2 and W_DATA = 1 give MAX_COL = 2. This is the smallest tile
  with both a `queue` and a `stream` call per row and a non-trivial pipeline
  (depth 2).
- The validity window (3 calls) and the drain
  (3 calls) are as long as the stream phase of a 2-row block, so both
  overlap with real data.
- `smm_compute` uses three shapes:
  - several tile rows and columns;
  - a single tile row;
  - a single-row sequence.
- `rwma` uses CORE_NUM = 2, BLOCK_ROWS = 1, L1_IN = 4, L1_OUT = 2,
  L2_ROWS = 4, L2_SIZE = 8 (the L2 budgets twice the L1 ones, as 256 is
  to 64·2 in the code) and three shapes:
  - seq 8, in 2, out 4: ROWS_IN_L2 = 4 and `col_in_th = 2`, so each thread
    owns two sequence blocks of each of two L2 blocks (`tileInL2`, `l2In`);
    `ratio` = 2 makes `colMaxL1` = 2 (`tileColL1`);
  - seq 2, in 16, out 2: `rowMaxL1` = 2, `rowMaxL2` = 2 and two L2 row
    blocks (`tileRowL1`, `tileRowL2`, `l2Row`);
  - seq 2, in 2, out 16: `colMaxL1` = 2, `colMaxL2` = 2 and two L2 column
    blocks (`tileColL1`, `tileColL2`, `l2Col`).

  So every term of `rowStart`, `colStart` and `seqBlockIdx` is non-zero in
  some block, and in the first shape a thread's blocks of the two L2 blocks
  are checked against the other thread's for overlap.
- `bwma` uses out = 4 and 8 (one and two tile columns per thread) and in = 4
  (two weight blocks per column), so `weightPtr` crosses block and column
  boundaries.
- `gem5x_dense` merges words with every lane at 0, −1, 127, −128 and mixed lanes,
  so that every lane wraps in both directions.
- The dense runs use the real W_DATA = 4 and, for `gem5x_dense`, the real
  16×16 blocks.
  - The values are spread over −128..127, so the int sums wrap when stored.
  - Outputs are zero and non-zero.
- `accel_dense` runs a 16×16 by 16×16 GEMM with VL = 8 in place of 16.
  - The SIMD `l2_w_idx`, `l2_col_idx` and `l2_row_idx` loops each run twice.
    So the `B` loaded for a block pair serves two row blocks, and the
    BWMA `inPtr` / `outPtr` advance across a row block. The lane
    permutation spans two words.
  - The tiled budgets are BLOCK_ROWS 2, COLS_BLOCK 4, L2_ROWS 8 (four
    blocks, as 512 is to 128) and L2_SIZE 8. They give ROWS_IN_BLOCK 2,
    ROWS_IN_L2 4, COLS_IN_L2 2 and W_COL_IN_L2 2, and two iterations of each
    outer loop. So all eight tiledCompute loops run more than once, and an
    output byte receives input-column blocks from both column levels.
  - One case has a zero output and one a non-zero output.
- `transformer_junk` and `gem5x_dense` use two heads, so the head loop runs
  more than once and a weight-offset error hands head 1 the wrong kernel.
  Each uninitialised buffer is independently zero or `Junk`.
- The number of states is bounded by the shapes; no counter is unbounded.

## Fairness

Each OpenMP thread runs on its own core and issues its instruction stream
without waiting for anyone: there is no lock, barrier or shared tile inside
the region. So each thread gets weak fairness on its own actions. This
justifies the liveness half of `TGSpec` (every contribution is eventually
merged). The drivers return once all loops end, so the runs set
`CHECK_DEADLOCK FALSE`: a state where all threads are done is the return.

The engines of `accel_dense` and `gem5x_dense`, and the steps of
`TransformerBlock`, are sequential calls, so they run in
sequence. No fairness is needed: the run checks only invariants.

## Not modelled, and the plan

- **SIMD tails.** The NEON engines also floor-divide by 16, like
  `tiledCompute`. The run uses multiples of VL. The tail is the defect that
  `tiled_row_tail` shows, and there is no run of its own.
- **DEVELOP wrappers.** `smmList[tid]` (smm_gem.cc:121-141) is compiled only
  with DEVELOP, which is off. Those wrappers call the device methods with
  one argument fewer than `systolic_m2m.hh` declares, and
  `SystolicMatrixMultiplication` has no default constructor there, so this
  branch does not build against the header in the repository. It is dead
  code, so it is not modelled and no hazard is listed for it. (A tid ≥ 4
  would index past the four copies.)
- **`is_all_zero_int8x16` and `print_int8`** (smm_gem.cc:390-417) are never
  called.
- **Composition.** A composition of the tile-engine modules with `PackedAdd`,
  replacing the bag abstraction by int8 values on a tiny tile.
- **RWMA input sizes.** A run with input sizes that do not divide the L2 budget,
  where tile rows are skipped (lines 155, 166).
- **Transformer weights and I/O.** `fill_kernel`, `fill_sparse_weight`,
  `saveWeight`, `loadWeight`, the flag header and `blockWise2RowWise`
  (transformer.cpp:17-81, 123-219) fill buffers from `rand()` or files.
  The model keeps each kernel only as its file identity `(n, qkv)`, and keeps where `test()` packs it in `weightVec`. The calls
  at transformer.cpp:135-145 and 186-196 pass more arguments than the
  definitions above them take, so the file does not build as it is.
- **Transpose stride.** `Transpose::transpose` is called with `pre_seq_len_`
  (selfattention.cc:70-71), while the GEMMs around it use `seq_len`. The two
  differ only when `compute` gets a shorter sequence than the constructor.
  `test()` passes `D_SEQ` to both. Transpose is not in the repository, so
  the model cannot say what a mismatch does.
- **Layer internals.** Dense, Transpose, Softmax and AddNormalize have no
  code in the repository. The model keeps only which buffer each one writes,
  and whether it may accumulate.
- **Out of reach.** The gem5 PIO device has no method bodies in the repository.
