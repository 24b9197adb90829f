------------------------------ MODULE ChunkMap ------------------------------
(***************************************************************************)
(* DefaultChunkMap (chunkmap.h): the byte-per-granule classification map   *)
(* that free, realloc and external_pointer read to learn what owns an      *)
(* address, written by every thread that creates or destroys a slab or a   *)
(* large allocation.                                                       *)
(*                                                                         *)
(* Each thread is an allocator calling into the chunk map.  Its caller's   *)
(* side (the slab and large-allocation managers, not in this repository)   *)
(* is reduced to the contract spec.md section 5 states: a region is carved *)
(* out of memory no other region uses, registered before the pointer is    *)
(* handed out, and unregistered after its owner gave it up.                *)
(*                                                                         *)
(* set_range of the flat pagemap is a loop over cells and is not atomic:   *)
(* the slide of set_large_size and the reset of clear_large_size write one *)
(* cell per step, interleaved with the other threads.                      *)
(***************************************************************************)
EXTENDS ChunkMapEncoding, FiniteSets

CONSTANTS
  Threads,         \* the allocator threads
  NumCells,        \* cells of the pagemap: the address space in granules
  LargeSizes,      \* byte sizes passed to set_large_size
  Debug,           \* TRUE when assert() is compiled in (no NDEBUG)
  CallerCells(_)   \* cells the large-allocation manager reserves for a size

ASSUME NumCells \in Nat \ {0}
ASSUME \A size \in LargeSizes : size >= SUPERSLAB_SIZE
ASSUME Debug \in BOOLEAN

Cells == 0 .. NumCells - 1

(* The overloads of set_slab and clear_slab, by the slab type they take,  *)
(* and the cell value each writes.                                         *)
SlabKinds == {"Superslab", "Mediumslab"}
Tag == [Superslab |-> CMSuperslab, Mediumslab |-> CMMediumslab]
Large     == "large"

(* What a thread holds: a superslab or medium slab (one cell) or a large   *)
(* allocation of size bytes starting at cell base.                         *)
Region == [kind : SlabKinds \cup {Large}, base : Cells,
           size : LargeSizes \cup {SUPERSLAB_SIZE}]

NoRegion == [kind |-> "none", base |-> 0, size |-> 0]

(* The control point of a thread inside set_large_size (pc "slide": loop   *)
(* counter i, cursor ss, position j inside set_range) or inside            *)
(* clear_large_size (pc "clear": count cells to reset, j reset so far).    *)
Idle == [pc |-> "idle", r |-> NoRegion, i |-> 0, ss |-> 0, j |-> 0, count |-> 0]

VARIABLES
  pagemap,   \* the global pagemap: one uint8_t per cell
  regions,   \* regions[t]: the regions registered by t and handed out
  op         \* op[t]: the chunk-map call t is executing

vars == <<pagemap, regions, op>>

(* The memory a region occupies in the caller's layout.                    *)
Footprint(r) ==
  IF r.kind = Large THEN r.base .. r.base + CallerCells(r.size) - 1
  ELSE {r.base}

(* Memory some thread holds, or is registering or unregistering.          *)
Claimed ==
  UNION {Footprint(r) : r \in UNION {regions[t] : t \in Threads}}
    \cup UNION {Footprint(op[t].r) : t \in {u \in Threads : op[u].pc # "idle"}}

-----------------------------------------------------------------------------
(* DefaultChunkMap::get: the cell covering an address.                     *)
get(c) == pagemap[c]

(* DefaultChunkMap::set: write one cell.                                   *)
set(c, x) == pagemap' = [pagemap EXCEPT ![c] = x]

(* set_slab, for a Superslab and for a Mediumslab: the slab manager has    *)
(* carved a slab out of free memory at cell c and records its kind.        *)
set_slab(t, kind, c) ==
  /\ op[t].pc = "idle"
  /\ c \notin Claimed
  /\ set(c, Tag[kind])
  /\ regions' = [regions EXCEPT ![t] = @ \cup
                   {[kind |-> kind, base |-> c, size |-> SUPERSLAB_SIZE]}]
  /\ UNCHANGED op

(* clear_slab, for a Superslab and for a Mediumslab: the owner gives a    *)
(* slab up; the cell must still hold the slab's kind.                      *)
clear_slab(t, r) ==
  /\ op[t].pc = "idle"
  /\ r \in regions[t]
  /\ r.kind \in SlabKinds
  /\ Debug => Assert(get(r.base) = Tag[r.kind], "clear_slab: kind mismatch")
  /\ set(r.base, CMNotOurs)
  /\ regions' = [regions EXCEPT ![t] = @ \ {r}]
  /\ UNCHANGED op

(* set_large_size(p, size), first statement: the head cell of a large      *)
(* allocation the manager placed at cell p gets size_bits; the slide       *)
(* loop starts with i = 0 one granule after the head.                      *)
set_large_size(t, size, p) ==
  LET r == [kind |-> Large, base |-> p, size |-> size]
  IN  /\ op[t].pc = "idle"
      /\ Footprint(r) \subseteq Cells \ Claimed
      /\ p + ClearCount(size) <= NumCells
      /\ set(p, NextPow2Bits(size))
      /\ op' = [op EXCEPT ![t] = [pc |-> "slide", r |-> r, i |-> 0,
                                  ss |-> p + 1, j |-> 0, count |-> 0]]
      /\ UNCHANGED regions

(* Mutants of slide_step.  SlideStepByteCursor advances the cursor by     *)
(* SUPERSLAB_SIZE * run as the code does on byte addresses, but on a cell *)
(* index; SlideStepNoOffset stores 64 + i; SlideStepNoIncrement drops the *)
(* loop increment and rewrites run 0 forever.                              *)
SlideStepByteCursor(t) ==
  LET o == op[t]  run == 2^o.i
  IN  /\ o.pc = "slide"
      /\ o.i < NextPow2Bits(o.r.size) - SUPERSLAB_BITS
      /\ set(o.ss + o.j, SlideCode(o.i))
      /\ op' = [op EXCEPT ![t] =
                  IF o.j + 1 = run
                  THEN [o EXCEPT !.i = o.i + 1, !.ss = o.ss + SUPERSLAB_SIZE * run, !.j = 0]
                  ELSE [o EXCEPT !.j = o.j + 1]]
      /\ UNCHANGED regions

SlideStepNoOffset(t) ==
  LET o == op[t]  run == 2^o.i
  IN  /\ o.pc = "slide"
      /\ o.i < NextPow2Bits(o.r.size) - SUPERSLAB_BITS
      /\ set(o.ss + o.j, 64 + o.i)
      /\ op' = [op EXCEPT ![t] =
                  IF o.j + 1 = run
                  THEN [o EXCEPT !.i = o.i + 1, !.ss = o.ss + run, !.j = 0]
                  ELSE [o EXCEPT !.j = o.j + 1]]
      /\ UNCHANGED regions

SlideStepNoIncrement(t) ==
  LET o == op[t]  run == 2^o.i
  IN  /\ o.pc = "slide"
      /\ o.i < NextPow2Bits(o.r.size) - SUPERSLAB_BITS
      /\ set(o.ss + o.j, SlideCode(o.i))
      /\ op' = [op EXCEPT ![t] =
                  IF o.j + 1 = run THEN [o EXCEPT !.j = 0]
                  ELSE [o EXCEPT !.j = o.j + 1]]
      /\ UNCHANGED regions

(* One cell of set_range(ss, 64 + i + SUPERSLAB_BITS, 1 << i) in the slide *)
(* loop; after the last cell of the run the cursor ss advances by the run  *)
(* and i is incremented.                                                   *)
slide_step(t) ==
  LET o   == op[t]
      run == 2^o.i
  IN  /\ o.pc = "slide"
      /\ o.i < NextPow2Bits(o.r.size) - SUPERSLAB_BITS
      /\ set(o.ss + o.j, SlideCode(o.i))
      /\ op' = [op EXCEPT ![t] =
                  IF o.j + 1 = run
                  THEN [o EXCEPT !.i = o.i + 1, !.ss = o.ss + run, !.j = 0]
                  ELSE [o EXCEPT !.j = o.j + 1]]
      /\ UNCHANGED regions

(* The slide loop exits and set_large_size returns; the manager hands the  *)
(* allocation out.                                                         *)
slide_done(t) ==
  /\ op[t].pc = "slide"
  /\ op[t].i >= NextPow2Bits(op[t].r.size) - SUPERSLAB_BITS
  /\ regions' = [regions EXCEPT ![t] = @ \cup {op[t].r}]
  /\ op' = [op EXCEPT ![t] = Idle]
  /\ UNCHANGED pagemap

(* Mutant: the reset count taken as next_pow2_bits(size) - SUPERSLAB_BITS *)
(* instead of next_pow2(size) >> SUPERSLAB_BITS.                           *)
ClearLargeSizeBitsCount(t, r) ==
  /\ op[t].pc = "idle"
  /\ r \in regions[t]
  /\ r.kind = Large
  /\ Debug => Assert(get(r.base) = NextPow2Bits(r.size),
                     "clear_large_size: head mismatch")
  /\ regions' = [regions EXCEPT ![t] = @ \ {r}]
  /\ op' = [op EXCEPT ![t] = [Idle EXCEPT !.pc = "clear", !.r = r,
                              !.count = NextPow2Bits(r.size) - SUPERSLAB_BITS]]
  /\ UNCHANGED pagemap

(* clear_large_size(p, size): the owner gives a large allocation up; the   *)
(* head must hold next_pow2_bits(size), then set_range(p, CMNotOurs,       *)
(* next_pow2(size) >> SUPERSLAB_BITS) starts.                              *)
clear_large_size(t, r) ==
  /\ op[t].pc = "idle"
  /\ r \in regions[t]
  /\ r.kind = Large
  /\ Debug => Assert(get(r.base) = NextPow2Bits(r.size),
                     "clear_large_size: head mismatch")
  /\ regions' = [regions EXCEPT ![t] = @ \ {r}]
  /\ op' = [op EXCEPT ![t] = [Idle EXCEPT !.pc = "clear", !.r = r,
                                          !.count = ClearCount(r.size)]]
  /\ UNCHANGED pagemap

(* One cell of the reset set_range(p, CMNotOurs, count).                   *)
clear_step(t) ==
  LET o == op[t]
  IN  /\ o.pc = "clear"
      /\ o.j < o.count
      /\ set(o.r.base + o.j, CMNotOurs)
      /\ op' = [op EXCEPT ![t].j = o.j + 1]
      /\ UNCHANGED regions

(* clear_large_size returns; the manager may reuse the memory.             *)
clear_done(t) ==
  /\ op[t].pc = "clear"
  /\ op[t].j = op[t].count
  /\ op' = [op EXCEPT ![t] = Idle]
  /\ UNCHANGED <<pagemap, regions>>

-----------------------------------------------------------------------------
Init ==
  /\ pagemap = [c \in Cells |-> CMNotOurs]
  /\ regions = [t \in Threads |-> {}]
  /\ op = [t \in Threads |-> Idle]

(* Steps a thread takes inside one chunk-map call once it has entered it.  *)
InCall(t) == slide_step(t) \/ slide_done(t) \/ clear_step(t) \/ clear_done(t)

Next ==
  \E t \in Threads :
    \/ \E kind \in SlabKinds, c \in Cells : set_slab(t, kind, c)
    \/ \E r \in regions[t] : clear_slab(t, r)
    \/ \E size \in LargeSizes, p \in Cells : set_large_size(t, size, p)
    \/ \E r \in regions[t] : clear_large_size(t, r)
    \/ InCall(t)

(* No call of the chunk map blocks: a thread inside one is preempted only  *)
(* finitely often and runs it to completion.                               *)
Fairness == \A t \in Threads : WF_vars(InCall(t))

Spec == Init /\ [][Next]_vars /\ Fairness

-----------------------------------------------------------------------------
TypeOK ==
  /\ pagemap \in [Cells -> Byte]
  /\ regions \in [Threads -> SUBSET Region]
  /\ \A t \in Threads :
       \/ op[t] = Idle
       \/ /\ op[t].pc \in {"slide", "clear"}
          /\ op[t].r \in Region
          /\ {op[t].i, op[t].ss, op[t].j, op[t].count} \subseteq 0 .. NumCells

(* No cross-talk (spec.md section 8): while threads register and           *)
(* unregister their slabs and large allocations concurrently, every cell   *)
(* of every region a thread holds reads as that region: its slab kind, or  *)
(* the head size and slide codes set_large_size writes.  Since get is the  *)
(* only read, this is what free and external_pointer of any pointer into a *)
(* held region see; it includes the values the assertions of clear_slab    *)
(* and clear_large_size read.                                              *)
HeldRegionsClassified ==
  \A t \in Threads : \A r \in regions[t] :
    IF r.kind = Large
    THEN \A k \in 0 .. ClearCount(r.size) - 1 :
           get(r.base + k) = ExpectedCode(r.size, k)
    ELSE get(r.base) = Tag[r.kind]

(* spec.md section 3: every cell not backing a live slab or large          *)
(* allocation reads as CMNotOurs.  A cell set_large_size writes that       *)
(* clear_large_size does not reset would be misread forever after.         *)
UnclaimedCellsNotOurs ==
  \A c \in Cells \ Claimed : get(c) = CMNotOurs

(* Every set_large_size a thread enters eventually returns and the         *)
(* allocation is handed out: the slide loop terminates.                    *)
RegistrationCompletes ==
  \A t \in Threads : op[t].pc = "slide" ~> op[t].pc = "idle"
=============================================================================
