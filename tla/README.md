# TLA+ models of the snmalloc chunk map and its C front end

This directory checks the chunk map of snmalloc (the CHERI-era version in
`src/`), the providers that share its pagemap between modules, the pointer
helpers of `address.h`, the C allocation API of `malloc.cc`, and the
platform hooks of the CheriBSD PAL (`reserve`, `zero`, `notify_using`,
`notify_not_using`, `error`).

The chunk map records one classification cell per granule of
`2^SUPERSLAB_BITS` bytes. `free`, `realloc` and `external_pointer` read it to
learn what owns a pointer. The capability (CHERI) realization also uses it to
rederive the allocator's internal pointer.

## 1. Inventory

### Source files

| file | contents |
|---|---|
| `src/unnamed/part_000` | `chunkmap_consts.h` (lines 1-36): the cell kinds. `chunkmap.h` (37-293): the pagemap providers and `DefaultChunkMap`. |
| `src/src/mem/announce_configuration.cc` | the configuration announcement (1-29); `malloc.cc`, the C front end (30-347); `pal_freebsd_cheri.h` with `PALCHERIBSD` and its `PalChunkMap` (348-578); `address.h` (579-669). |

The pagemap storage (`FlatPagemap`, the hierarchical `Pagemap`), `bits.h`, the
allocator and the large-allocation manager are not in `src/`.

### Components, their state and operations

1. **Cell encoding** (`chunkmap_consts.h`, `chunkmap.h`). A cell is a
   `uint8_t`. Values 0-2 are `CMNotOurs`, `CMSuperslab` and `CMMediumslab`.
   Values `[SUPERSLAB_BITS, 64)` are log2 of the size at the head of a large
   allocation. Values `[64, 128)` are slide codes in its body. This component
   has no state. Its operations are the slide loop, the count of the reset,
   and the backward head search that the slide exists for.
2. **DefaultChunkMap** (`chunkmap.h` 159-285). It has no state of its own and
   works on the global pagemap.
   - `get` and `getp` read the map; `getp` is the identity here.
   - `set_slab` and `clear_slab`, two overloads each, write one cell.
     `clear_slab` asserts the kind first.
   - `set_large_size` writes the head, then `set_range` runs of 1, 2, 4, …
     cells.
   - `clear_large_size` asserts the head, then resets `next_pow2(size)/granule`
     cells with one `set_range`.
3. **PalChunkMap of PALCHERIBSD** (`pal_freebsd_cheri.h`). It has the same
   interface, but a cell holds a capability: the internal pointer offset by
   the code.
   - `get` reads the low byte of the address.
   - `getp` aligns the address down to `PAGEMAP_PTR_ALIGN` (0x100) to recover
     the internal pointer.
   - `clear_slab` stores NULL and does not assert the kind.
4. **Pagemap providers** (`chunkmap.h` 72-147, `malloc.cc` 297-307).
   `GlobalPagemapTemplate` holds a static pagemap. `ExternalGlobalPagemap`
   imports one through `snmalloc_pagemap_global_get`, checks it against a
   `PagemapConfig`, and calls `Pal::error` on a mismatch.
5. **Pagemap storage** (`chunkmap.h` 58-70 choose it; the storage itself,
   `pagemap.h`, is not in `src/`: spec §4.1, §5). `use_flatpagemap<T>` picks
   the flat table when the platform commits lazily or the flat array is small
   enough, else a tree whose leaves are allocated on first `set` and linked
   by compare-and-install.
6. **Address utilities** (`address.h`). These are pure:
   `pointer_offset`, `address_cast`, `pointer_cast`, `is_aligned_block`,
   `pointer_align_down` and `pointer_align_up`.
7. **C front end** (`malloc.cc`). It does argument validation and size
   arithmetic, then calls the thread allocator. Its entry points are `calloc`
   and `reallocarray` (overflow checks with `umul`), `realloc` (keep or move),
   `memalign`, `posix_memalign`, `aligned_alloc`, `valloc`, `pvalloc`, and
   the `__je_bootstrap_*` functions.
8. **PAL hooks** (`pal_freebsd_cheri.h` 493-575, `malloc.cc` 310-315). They
   act on the process's memory and on `errno`.
   - `reserve<committed>(size, align)` maps fresh memory with
     `mmap(MAP_ALIGNED(next_pow2_bits(align)))` and calls `error` on
     failure. `snmalloc_reserve_shared` exports it.
   - `zero<page_aligned>` replaces a page-aligned block with
     `mmap(MAP_FIXED)`. If that fails, it clears `errno` and uses `bzero`.
     Any other block is zeroed with `bzero`.
   - `notify_not_using` advises `MADV_FREE`. `notify_using<YesZero>` zeroes.
   - `error` prints and aborts.
9. **Announcement** (`announce_configuration.cc` 1-29). A constructor writes
   the configuration string to fd 2. This is pure I/O.

### Interactions

The slab and large-allocation managers of every thread call `set_*` and
`clear_*` on the one process-wide pagemap. Every `free` and `realloc` calls
`get`, and on CHERI `getp`, for any pointer. The only shared state is the
pagemap. Its cells are written without locks.

The contract of spec §5 is what keeps threads apart:
- a region is carved out of memory no other region uses;
- it is registered before it is handed out;
- it is unregistered after its owner gave it up.

`set_range` is a loop over cells, so a registration is not atomic.

### What is hard

- **Interleaving.** The slide and the reset run one cell at a time while
  other threads write their own cells.
- **Agreement between two computations.** The cells `set_large_size` writes
  (`2^(size_bits - SUPERSLAB_BITS)`) must be exactly the cells
  `clear_large_size` resets (`next_pow2(size) >> SUPERSLAB_BITS`), and both
  must match what the manager reserved.
- **Units.** A slide code bounds the distance to the head in bytes, not in
  cells.
- **CHERI rederivation.** Each stored capability must be the region's internal
  pointer, not a pointer derived from the cursor. The code must fit below
  `PAGEMAP_PTR_ALIGN`.
- **Word-width arithmetic in the front end.** `umul` overflow, `pvalloc`
  rounding and the bootstrap `calloc` size fix.
- **The pagemap import handshake**, and its order relative to the first
  use of the pagemap.
- **Lazy leaves of the tree.** Two threads setting different cells of one
  absent leaf both allocate one; only one may be linked, and the other must
  store into the winner's leaf without waiting.
- **The PAL's fallbacks.** `zero`'s `mmap` path must only touch whole pages,
  and its failure must be hidden from the caller. `reserve` must return the
  alignment asked for, and it aborts instead of failing.

### Correctness properties, per component

- **Encoding**
  - The slide writes exactly the cells the reset clears.
  - Each cell's code bounds its distance to the head.
  - The head search reaches the head in at most `size_bits - SUPERSLAB_BITS`
    steps.
  - Head codes and slide codes never take a slab kind's value.
- **DefaultChunkMap**
  - No cross-talk: every cell of every held region reads as that region.
  - Every cell outside all regions reads `CMNotOurs`.
  - The assertions of the clears hold.
  - Every registration completes.
- **PalChunkMap**
  - `getp` of any covered address yields the region's internal pointer.
  - Stored capabilities stay in bounds.
  - The low bytes behave exactly as DefaultChunkMap.
- **Providers**
  - No module reads a pagemap whose configuration differs from its own.
  - An importer never reads one before the check.
- **Pagemap storage**
  - No `set` is lost: every cell `get` reads holds the last completed
    `set` of it, even when two threads race to link the same leaf.
- **Front end**
  - `calloc`, `reallocarray` and `pvalloc` return NULL or at least the
    requested number of bytes.
  - `realloc` failure keeps the old block.
  - `memalign` results are aligned and never trip `aligned_alloc`'s
    assertion.
- **PAL hooks**
  - `zero` and `notify_using<YesZero>` leave exactly their block zeroed.
  - `zero` never leaves `mmap`'s error in `errno`.
  - `reserve` returns fresh, zeroed memory at the requested alignment.
  - `reserve` aborts only when it cannot map.

## 2. Modules and plan

| order | module | models | status |
|---|---|---|---|
| 1 | `ChunkMapEncoding` (+ `MCPureHelpers`) | cell kinds, slide loop, reset count, head search | done |
| 2 | `ChunkMap` (+ `MCChunkMap`) | DefaultChunkMap under concurrent callers | done |
| 3 | `ChunkMapCheri` (+ `MCChunkMapCheri`) | PalChunkMap; refines `ChunkMap` | done |
| 4 | `MallocFrontEnd` (+ `MCMallocFrontEnd`) | every allocating or freeing call of `malloc.cc` at a `BITS`-bit `size_t`, over the allocator's contract with a small sizeclass table | done |
| 5 | `PagemapSharing` (+ `MCPagemapSharing`) | exporter and importers of the pagemap, the config check, static-initialisation order | done |
| 5a | `AddressUtils` (+ `MCPureHelpers`) | the integer helpers of `address.h` against reference definitions | done |
| 6 | `PagemapTree` (+ `MCPagemapTree`) | `use_flatpagemap`; the flat and the hierarchical storage under the providers of `PagemapSharing`, lazy leaf allocation with compare-and-install (spec-modelled); reuses `PagemapSharing` through `INSTANCE` | done |
| 7 | `HeadSearchRace` | an `external_pointer` reader racing `set_large_size` and `clear_large_size` | later |
| 8 | CHERI kind-confused clear | a caller clearing a slab as the wrong type, plain against CHERI | later |
| 9 | `PalCheriBSD` (+ `MCPalCheriBSD`) | the PAL hooks over a byte memory, with the kernel's `mmap` and `madvise` | done |

How the modules compose:
- `ChunkMap` and `ChunkMapCheri` extend `ChunkMapEncoding`.
- `ChunkMapCheri` instantiates `ChunkMap` as `Plain`. The mapping is
  `pagemap <- [c |-> low byte of cpagemap[c]]`. `Plain!Spec` is the abstract
  specification the capability map is checked against.
- `PagemapTree` instantiates `PagemapSharing` as `Sharing` with
  `tables <- View`, where `View` reads a cell of an absent leaf as
  `NotOurs`. It reuses `Sharing!construct`, `Sharing!pagemap` and the
  sharing invariants, so the providers and the storage are checked
  together. What the storage promises is stated against a history
  variable, `landed`, the table the completed sets define: `View` must
  equal it. (A refinement to `Sharing!Spec` alone would not say this,
  since there any module may clear any cell at any step, so a lost set
  would pass as a clear.)
- `MallocFrontEnd` extends `ChunkMapEncoding` for `SUPERSLAB_SIZE` and
  `next_pow2`. It sits above the chunk map: the allocator it calls is the
  client of `ChunkMap`, and it is modelled by its contract.
- `PagemapSharing` models which table `PagemapProvider::pagemap()` reaches.
  `ChunkMap` models what is written into one table.

## 3. How the code maps to the models

### ChunkMapEncoding

It holds operators only:
- `SlideCode`, `Slide` (RECURSIVE, the loop of `set_large_size`),
  `LargeImage` and `ClearCount` translate `chunkmap.h` 248-273.
- `NextPow2Bits` and `NextPow2` stand for `bits.h`.
- `WalkToHead` is the backward search of `external_address`. That code is not
  in `src/`, so it is written from the encoding's contract and marked
  spec-modelled.
- `ExpectedCode` and `FloorLog2` are reference definitions, written from the
  statement of the encoding and not from the loop.

### ChunkMap

`pagemap` is the global pagemap, a function from cells to bytes. It is
initially all `CMNotOurs`, as for the zero-initialised static.

`regions[t]` is the set of regions thread `t` holds. `op[t]` is the control
point of `t` inside a call. It is:
- `"slide"` with the loop counter `i`, the cursor `ss` (in cells) and the
  position `j` inside `set_range`; or
- `"clear"` with `count` and `j`.

Actions:
- `set_slab` and `clear_slab` are one atomic cell write each. `clear_slab`
  includes the assertion, which applies when `Debug`.
- `set_large_size` writes the head and enters the loop.
- `slide_step` writes one cell of the current run. After the last cell of the
  run it advances `ss` and `i`.
- `slide_done` is the loop exit. Return and hand-out are one step.
- `clear_large_size` asserts the head and starts the reset.
- `clear_step` resets one cell. `clear_done` returns, and the memory becomes
  free.

The caller side is spec-modelled:
- `Region`, `Footprint` and `Claimed` describe the memory each thread holds.
- `CallerCells(size)` is the number of cells the large-allocation manager
  reserves. It is a constant operator: the MC module sets it to
  `next_pow2(size)/granule`, as snmalloc's manager does, or to the spec's
  `ceil(size/granule)`.

### ChunkMapCheri

A capability is `[tag, lo, hi, addr]`. `pointer_offset` and
`pointer_align_down` keep tag and bounds. `NULL` is untagged with address 0.

`RegionCap(r)` is the internal pointer the manager holds. Its bounds are the
memory it reserved. Every action mirrors its `ChunkMap` counterpart with the
stored values of `pal_freebsd_cheri.h`. `clear_slab` has no kind assertion.

### MallocFrontEnd

`heap[id]` is the usable size of the live block at `id`, or 0 for a free slot.
`last` records the last call:
- `fn` is the function called;
- `req` and `align` are what the caller asked for, in unbounded arithmetic;
- `ptr` is the block passed in and `ret` the block returned;
- `aa` holds the arguments of the `aligned_alloc` the call made, if any;
- `src` and `copied` hold the `memcpy` of `realloc`.

There is one action per exported function. Arguments come from small sets of
edge values. Every `size_t` expression wraps modulo `2^BITS` (`Wrap`), and
`~x` is `SIZE_MAX - x`.

`memalign`, `realloc` and `aligned_alloc` are operators parameterised by the
calling function, because `valloc`, `pvalloc`, `posix_memalign` and
`reallocarray` call them.

The allocator below (not in `src/`) is spec-modelled:
- `size_to_sizeclass` and `sizeclass_to_size` read a sequence of sizeclass
  sizes. A size above the last one is large and gets `next_pow2(size)` bytes.
- `alloc` returns a free slot or NULL. It is NULL whenever the block exceeds
  `MaxLarge`, and may be NULL at any time (out of memory).
- A block is aligned to its lowest set bit; a large block to `SUPERSLAB_SIZE`.
- `bits::umul` returns the wrapped product and an overflow flag.

Left out:
- the CHERI-only paths of `realloc` (bounds from `cheri_getlen`, `getp`,
  `CHERI_ALIGN`) and quarantine;
- the debug `external_pointer` check of `realloc`, which always passes for the
  blocks the model hands out.

### PagemapSharing

- `tables[T]` is `GlobalPagemapTemplate<T>::global_pagemap`. A cell records
  the layout of the module that wrote it, or `NotOurs`.
- `external[T]` is `ExternalGlobalPagemap<T>::external_pagemap`, one static
  per pagemap type.
- `construct(m)` is the constructor: `snmalloc_pagemap_global_get`, then
  `cast_to_pagemap`, then `Pal::error` (`aborted`) on a null result.
- `write(m, c, v)` is a chunk-map `set` through the static
  `PagemapProvider::pagemap()`. Through a null pointer it sets `fault`.
- `Halted` is the stuttering step of a process that has ended.

A pagemap type stands for its `PagemapConfig`. `cast_to_pagemap` (in
`pagemap.h`, not in `src/`) is modelled as a comparison of configs.

`ConstructBeforeUse` says whether every importing module constructs its
provider object before its first chunk-map call. No code in the repository
constructs one, so both orders are checked.

### PagemapTree

- `root[T][l]` is leaf slot `l` of the root node of table `T`: `Absent`
  or the leaf, a function on its cells. `LeafOf` gives the leaf of a cell
  (the high index bits). One interior level stands for the tree.
- `use_flatpagemap(T)` is `pal_supports<LazyCommit> ||` the flat array
  fitting (`FlatFits[T]`). `Init` is `DefaultChunkmapPagemapTemplate`: a
  flat table has every leaf present and zeroed; a tree has none.
- `set(m, c, v)` is the first step of `Pagemap::set` through
  `PagemapProvider::pagemap()`: through a null pointer it sets `fault`; into
  a present leaf it stores at once; on an absent leaf the thread allocates a
  zeroed leaf and records the set in `pending[m]`.
- `install(m)` is the compare-and-swap of the new leaf into the empty slot.
  A thread that finds a leaf already linked frees its own and goes on.
- `store(m)` stores the cell into the linked leaf.
- `construct(m)` is `Sharing!construct(m)` with the storage unchanged.

The modules of `PagemapSharing` are the threads: the race that matters is
the exporter and an importer of the same type writing the shared table.

### AddressUtils

`pointer_offset`, `address_cast`, `pointer_cast`, `is_aligned_block`,
`pointer_align_down` and `pointer_align_up` are operators on `BITS`-bit
addresses, built with the community `Bitwise` module's `&` and `|`.
`MCPureHelpers` checks them, and the operators of `ChunkMapEncoding`, against
reference definitions. Its initial states are the union of one input slice per
helper family. There are no steps.

### PalCheriBSD

State:
- `mem` maps each byte of a `BITS`-bit address space to `unmapped`, `zero`,
  `data` or `freed`. `data` was written by the allocator's client. `freed`
  was advised `MADV_FREE`, so it reads either its old contents or zero.
- `errno` is the calling thread's.
- `halted` is set by `error`.
- `last` records the latest call.

Actions (one per hook, inputs drawn from small sets by `\E`):
- `snmalloc_reserve_shared` and `reserve` compute `log2align` and call
  `ReserveMmap`, which is the `mmap` and the `error` on `MAP_FAILED`.
- `zero` has three disjuncts:
  - `mmap` succeeds;
  - `mmap` fails: `errno = 0`, then `bzero`;
  - `bzero` alone.
- `notify_using` asserts alignment for `YesZero` (as a guard) and calls
  `zero<false>`.
- `notify_not_using` asserts alignment and marks the block `freed`.
- `ClientWrite` is the application writing into memory it was given.

The kernel is modelled by what FreeBSD's `mmap(2)` documents:
- `MAP_ALIGNED(n)` is refused for `1 < n < PAGE_SHIFT` and for
  `n >= pointer width`; `n = 1` is `MAP_ALIGNED_SUPER`, which lands on a
  superpage when one is free and on any page otherwise;
- a zero length is refused;
- a fresh mapping covers whole pages at a multiple of `2^n`;
- `MAP_FIXED` replaces whole pages and may fail.

`bits::next_pow2_bits` is `BITS - clz(x - 1)`, which wraps to `BITS` at 0.
`MAP_FAILED` is the all-ones pointer. `committed` is ignored: the PAL
declares `LazyCommit`.

## 4. Runs

| run | cfg | expect | what it shows |
|---|---|---|---|
| `pure_helpers` | `MCPureHelpers.cfg` | pass | Two checks. First, for every size from 1 to 16 granules, byte by byte, with `SUPERSLAB_BITS = 3`: the slide covers exactly the `ClearCount` cells, each with its reference code, and the head search reaches the head from every cell in at most `size_bits - SUPERSLAB_BITS` steps. Second, for every 8-bit address, every power-of-two granule and several block sizes: the mask forms of `pointer_align_down`, `pointer_align_up` (where the result is representable) and `is_aligned_block` equal their definitions by multiples. |
| `encoding_spec_bounds` | `MCPureHelpers_spec.cfg` | violation | The bound `2^(x-64) <= k < 2^(x+1-64)`, with `k` in granules as spec §8 and the `chunkmap_consts.h` comment state it, fails at the first body cell. It holds in bytes. |
| `chunkmap_concurrent` | `MCChunkMap.cfg` | pass | Two threads, a 5-cell address space, large sizes of 1 and 3 granules (3 rounds to 4), `Debug` on. Checks no cross-talk, no stale cells after any interleaving of slab and large registrations and resets, the clear assertions, and termination of every registration. |
| `chunkmap_ceil_layout` | `MCChunkMap_ceil.cfg` | violation | With the manager reserving `ceil(S/granule)` cells (spec §3), a 3-granule allocation's slide overwrites a neighbouring slab's cell. The code needs `next_pow2(S)` bytes reserved. |
| `chunkmap_cheri` | `MCChunkMapCheri.cfg` | pass | Same bounds with 256-byte granules. Every stored capability is in bounds. `getp` of the first and last byte of every covered granule returns the region's internal pointer. The low bytes refine `ChunkMap`'s `Spec`, including its fairness. |

| `malloc_front_end` | `MCMallocFrontEnd.cfg` | pass | `size_t` of 8 bits, sizeclasses 16, 32, 48, 64-byte superslabs, 16-byte pages, two block slots. Every call returns NULL or a block that covers the unwrapped request (`FrontEndCoversRequest`) and is aligned as asked (`AlignmentHonoured`). For power-of-two alignments, `memalign` never breaks `aligned_alloc`'s assertion. `realloc` and `reallocarray` leave the block alone on failure, keep it only if it is large enough, and otherwise free it after a copy that stays inside both blocks (`ReallocContract`). |
| `pvalloc_wrap` | `MCMallocFrontEnd_pvalloc.cfg` | violation | `pvalloc(250)` rounds `250 + 15` modulo 256 down to 0 and returns a 16-byte block for a 256-byte request. |
| `bootstrap_calloc_wrap` | `MCMallocFrontEnd_bootstrap.cfg` | violation | `__je_bootstrap_calloc(1, SIZE_MAX)`: the size-0 fix adds 1 to `SIZE_MAX`, which wraps to 0, and a minimum block is returned. |
| `memalign_non_pow2` | `MCMallocFrontEnd_memalign.cfg` | violation | `memalign(24, n)` calls `aligned_alloc(24, 32)`, whose assertion `size % alignment == 0` fails. |
| `pagemap_tree` | `MCPagemapTree.cfg` | pass | The setup has four modules and three cells: an exporter of type A, an importer of type A, an importer of type B and a private module of type B. Type A is stored as a tree with cells c1, c2 in one leaf and c3 in another; type B is flat. With providers constructed before use: the B importer is stopped by `Pal::error` before any write, no table ever holds a cell of a foreign layout, no null pagemap is used, and every cell reads the last completed set of it (`NoSetLost`). With the leaf linked by a plain store, `NoSetLost` fails when the exporter and the importer race on leaf L1. The run takes a platform without `LazyCommit`: `PALCHERIBSD` declares it, so on CheriBSD every pagemap is flat and the tree serves other platforms. |
| `pagemap_import_order` | `MCPagemapSharing_order.cfg` | violation | An importer whose first chunk-map call comes before its provider's constructor dereferences a null `external_pagemap`. Spec §4.2 says the import and check happen at first use. |
| `pal_hooks` | `MCPalCheriBSD.cfg` | pass | Four 8-byte pages, reserve requests of 0, 4, 8 and 16 bytes at alignments 0, 1, 4, 8 and 16, and blocks that are whole pages, an aligned part page and an unaligned part page, entered with `errno` 0 or `EINTR`. Every `zero` and `notify_using<YesZero>` leaves its block zero and everything else unchanged, on all three paths, including over `MADV_FREE`d bytes. `errno` stays the caller's or is cleared (`ZeroContract`). Every `reserve` returns fresh zero memory at the requested alignment. It aborts only for a zero request, a sub-page alignment above 1, or no aligned free run (`ReserveContract`). No call returns `MAP_FAILED` (`TypeOK`). |

### Why the bounds are enough

- **Five cells** hold a 4-cell large allocation next to another thread's slab
  (the cross-talk case). They also hold two large allocations, or a large
  allocation under reset while another thread registers next to it.
- **Sizes of 1 and 3 granules** cover three cases: the empty loop
  (`size_bits = SUPERSLAB_BITS`); two runs of different length; and rounding
  up to a power of two.
- **Two threads** are enough for every pairwise interleaving of writers. Cells
  are private to their region, so a third thread adds no new pair.
- **The PAL run** has four pages. That is room for two reservations, for an
  aligned reservation to skip a page, and for the space to run out. The
  blocks include a part page that starts on a page boundary. That is the
  block on which whole-page `mmap` and `bzero` differ. The alignments cover
  every class `reserve` treats differently: 0, 1, 2 (`MAP_ALIGNED_SUPER`), below a page, a page, and
  above a page.
- **The encoding checks** cover every size of up to 16 granules, byte by byte,
  so every run length from 1 to 8.
- **`SUPERSLAB_BITS`** only shifts the codes. The CHERI run uses 8, the least
  value for which `getp`'s masking works.
- **An 8-bit `size_t`** keeps every wrap-around of the front end reachable
  with a handful of argument values. The front end's comparisons and masks
  scale with `BITS`: `SIZE_MAX`, `(sz - 1) >> (BITS - 1)`, `~(page - 1)` and
  `size & -size`. So the cases found at 8 bits are the same at 64 bits, with
  `SIZE_MAX` at 2^64 - 1.
  - The argument sets hold 0, 1, each sizeclass boundary, a medium size, a
    large size, and values within a page of `SIZE_MAX`.
  - `Counts` holds 16, so that 16 * 16 wraps to 0.
- **Two block slots** are enough for `realloc`: it needs the old block and a
  new one.
- **The sharing run** has an importer that matches the exporter and one that
  does not, next to a private table of the second type. These are the three
  ways a module can relate to the exported table.
- **The storage run** puts two cells in one leaf of the tree, so the two
  writers of type A can race on the same absent leaf while setting
  different cells, and a third cell in another leaf, so a present leaf
  and an absent one are both reached. A flat table of type B sits beside
  it. More writers only repeat the pair.

### Fairness

Each thread is weakly fair on the steps inside a call (`InCall`). Nothing in
`set_large_size` or `clear_large_size` blocks or waits on another thread
(spec §5). A preempted thread resumes under any fair OS scheduler. No fairness
is assumed for starting calls: a thread may stop allocating.

`PagemapTree` assumes no fairness and checks only safety. Its `install` is
one atomic compare-and-swap modelled from spec §5, with no code in `src/`
behind it, so a progress property would hold by the shape of the model.

## 5. Not modelled (yet)

- A reader racing a registration, and the CHERI kind-confused clear. See
  the plan above.
- In the pagemap tree: interior levels (one level stands for them; each
  is linked the same way as a leaf) and the failure of a leaf allocation
  (spec §7 makes it fatal for the process; `PagemapSharing` has no such
  abort, so it is left out of the refinement). The race needs a reader that
  queries memory it does not own, which §5 of the spec rules out.
- The alignment of zero-byte requests. `aligned_alloc(32, 0)` returns
  `malloc(0)`, a 16-byte object aligned only to 16. C makes zero-size
  requests implementation-defined, so `AlignmentHonoured` covers only
  non-zero requests.
- The front end's read-only queries (`__malloc_end_pointer`,
  `malloc_allocation_size`, `malloc_usable_size`), the jemalloc stubs and
  `mallctl`. They change no state.
- The configuration announcement. It is one `write` of a constant string.
- The C rule that no library function sets `errno` to zero. `zero`'s
  fallback does set it to zero (`pal_freebsd_cheri.h`, line 543 of the
  source), so a caller's earlier `errno` is lost. `ZeroContract` checks that
  `mmap`'s `ENOMEM` never leaks and allows the clear. With the clear
  forbidden, the run fails for a caller entering with `EINTR`.
- Sub-page alignments for `reserve`. FreeBSD refuses `MAP_ALIGNED(n)` for
  `1 < n < PAGE_SHIFT`, so `snmalloc_reserve_shared(size, 4)` aborts with
  "Out of memory" while memory is free. Spec §6 has `reserve` fail the
  process only on exhaustion. `ReserveContract` states the abort condition
  the code has. No caller in the repository passes such an alignment.
- Spurious `mmap` failures in `reserve` (for example resource limits). They
  end in the same `error` as exhaustion, and allowing them would make the
  abort clause of `ReserveContract` vacuous.
- Sizes below one granule or above 2^63. These are preconditions of the
  callers, and outside TLC's integers.
