---------------------------- MODULE MallocFrontEnd ----------------------------
(***************************************************************************)
(* The C allocation API of malloc.cc: argument validation and size         *)
(* arithmetic of calloc, realloc, reallocarray, aligned_alloc, memalign,   *)
(* posix_memalign, valloc, pvalloc and the bootstrap calloc, in size_t     *)
(* arithmetic of BITS bits.  Each call is one atomic step: the front end   *)
(* runs on the calling thread and only touches that thread's allocator.    *)
(*                                                                         *)
(* The thread allocator below it (alloc, dealloc, alloc_size and the       *)
(* sizeclass table) is not in this repository; it is modelled from its    *)
(* contract: alloc(s) returns a block of the sizeclass of s, or of         *)
(* next_pow2(s) bytes for a large s, aligned to the block's lowest set     *)
(* bit (a large one to SUPERSLAB_SIZE), or fails.                          *)
(***************************************************************************)
EXTENDS ChunkMapEncoding, Sequences, Bitwise

CONSTANTS
  BITS,            \* bits::BITS, the width of size_t
  OS_PAGE_SIZE,
  PTR_BYTES,       \* sizeof(uintptr_t)
  SizeClassSizes,  \* sizeclass_to_size(0 .. NUM_SIZECLASSES-1), ascending
  MaxLarge,        \* the largest block the platform can reserve
  Ids,             \* addresses of blocks, abstracted to slots 1..n
  Sizes, Counts,   \* size and nmemb arguments the program passes
  MemalignAligns,  \* alignments passed to memalign and aligned_alloc
  PosixAligns      \* alignments passed to posix_memalign

NUM_SIZECLASSES == Len(SizeClassSizes)

ASSUME /\ BITS \in Nat \ {0}
       /\ Ids \subseteq Nat \ {0}
       /\ SizeClassSizes[NUM_SIZECLASSES] < SUPERSLAB_SIZE
       /\ SUPERSLAB_SIZE <= MaxLarge

NULL == 0
SIZE_MAX == 2^BITS - 1
Word == 0 .. SIZE_MAX

(* size_t arithmetic wraps modulo 2^BITS.                                  *)
Wrap(x) == x % 2^BITS
BitNot(x) == SIZE_MAX - x

bits_max(a, b) == IF a >= b THEN a ELSE b
bits_min(a, b) == IF a <= b THEN a ELSE b

(* Mutant: the overflow flag is never raised.                             *)
umulNoOverflow(a, b) == [value |-> Wrap(a * b), overflow |-> FALSE]

(* bits::umul: the wrapped product and whether it overflowed.              *)
umul(a, b) == [value |-> Wrap(a * b), overflow |-> a * b > SIZE_MAX]

(* size_to_sizeclass: the first sizeclass that holds s; NUM_SIZECLASSES    *)
(* stands for every large sizeclass.                                       *)
size_to_sizeclass(s) ==
  LET fit == {sc \in 0 .. NUM_SIZECLASSES - 1 : SizeClassSizes[sc + 1] >= s}
  IN  IF fit = {} THEN NUM_SIZECLASSES
      ELSE CHOOSE sc \in fit : \A o \in fit : sc <= o

sizeclass_to_size(sc) == SizeClassSizes[sc + 1]

(* sizeclass_to_size(size_to_sizeclass(s)): the bytes alloc(s) hands out,  *)
(* which alloc_size later reports.                                         *)
AllocSize(s) ==
  IF size_to_sizeclass(s) < NUM_SIZECLASSES
  THEN sizeclass_to_size(size_to_sizeclass(s))
  ELSE NextPow2(s)

(* The alignment of a block of u bytes: its lowest set bit for a small or  *)
(* medium object, SUPERSLAB_SIZE for a large one.                          *)
NaturalAlign(u) ==
  IF u <= SizeClassSizes[NUM_SIZECLASSES]
  THEN CHOOSE a \in {2^e : e \in 0 .. BITS} : u % a = 0 /\ (u \div a) % 2 = 1
  ELSE SUPERSLAB_SIZE

VARIABLES
  heap,   \* heap[id]: usable size of the live block at id, 0 if none
  last    \* the last call: what was asked, what it returned

vars == <<heap, last>>

Live == {id \in Ids : heap[id] # 0}

(* Mutant: the platform's reservation never fails.                        *)
AllocResultsNoReserveLimit(s) == {NULL} \cup {id \in Ids : heap[id] = 0}

(* What alloc(s) may return: a free slot, when the block fits in what the  *)
(* platform can reserve, or NULL when out of memory.                       *)
AllocResults(s) ==
  {NULL} \cup {id \in Ids : heap[id] = 0 /\ AllocSize(s) <= MaxLarge}

(* The record of a call.  req and align are what the caller asked for in   *)
(* mathematical terms; ptr is the block passed in; aa the arguments of the *)
(* aligned_alloc it made, if any; src and copied the memcpy of realloc.    *)
Call(fn, req, align, ptr, ret) ==
  [fn |-> fn, req |-> req, align |-> align, ptr |-> ptr, ret |-> ret,
   aa |-> <<>>, src |-> 0, copied |-> 0]

Fail(fn, req, align, ptr) ==
  /\ last' = Call(fn, req, align, ptr, NULL)
  /\ UNCHANGED heap

(* ThreadAlloc::get_noncachable()->alloc(size) on behalf of fn.            *)
Allocate(fn, size, req, align) ==
  \E r \in AllocResults(size) :
    /\ heap' = IF r = NULL THEN heap ELSE [heap EXCEPT ![r] = AllocSize(size)]
    /\ last' = Call(fn, req, align, NULL, r)

(* aligned_alloc(alignment, size): asserts size % alignment == 0 (recorded *)
(* in aa) and returns malloc(size).                                        *)
AlignedAlloc(fn, alignment, size, req, align) ==
  \E r \in AllocResults(size) :
    /\ heap' = IF r = NULL THEN heap ELSE [heap EXCEPT ![r] = AllocSize(size)]
    /\ last' = [Call(fn, req, align, NULL, r) EXCEPT !.aa = <<alignment, size>>]

-----------------------------------------------------------------------------
(* The calls of malloc.cc, in the order of the file.                       *)

(* malloc, and __je_bootstrap_malloc, which calls alloc(size) on the      *)
(* slow allocator instead.                                                  *)
malloc ==
  \E size \in Sizes, fn \in {"malloc", "bootstrap_malloc"} :
    Allocate(fn, size, size, 1)

(* free, and __je_bootstrap_free: dealloc(ptr).                             *)
free ==
  \E p \in Live, fn \in {"free", "bootstrap_free"} :
    /\ heap' = [heap EXCEPT ![p] = 0]
    /\ last' = Call(fn, 0, 1, p, NULL)

calloc ==
  \E nmemb \in Counts, size \in Sizes :
    LET sz == umul(size, nmemb)
    IN  IF sz.overflow THEN Fail("calloc", nmemb * size, 1, NULL)
        ELSE Allocate("calloc", sz.value, nmemb * size, 1)

(* Mutant: the old block is freed before the result of malloc is checked. *)
ReallocMoveFreeFirst(fn, ptr, size, sz) ==
  \E p \in AllocResults(size) :
    IF p = NULL THEN /\ heap' = [heap EXCEPT ![ptr] = 0]
                     /\ last' = Call(fn, size, 1, ptr, NULL)
    ELSE /\ heap' = [heap EXCEPT ![p] = AllocSize(size), ![ptr] = 0]
         /\ last' = [Call(fn, size, 1, ptr, p)
                       EXCEPT !.src = sz, !.copied = bits_min(size, sz)]

(* The tail of realloc once the block must move: malloc(size); on success  *)
(* copy min(size, sz) bytes and free the old block; return what malloc     *)
(* returned.                                                               *)
ReallocMove(fn, ptr, size, sz) ==
  \E p \in AllocResults(size) :
    IF p = NULL THEN Fail(fn, size, 1, ptr)
    ELSE /\ heap' = [heap EXCEPT ![p] = AllocSize(size), ![ptr] = 0]
         /\ last' = [Call(fn, size, 1, ptr, p)
                       EXCEPT !.src = sz, !.copied = bits_min(size, sz)]

(* realloc(ptr, size) on behalf of fn, for a non-CHERI build without       *)
(* quarantine.  The debug check that ptr is the start of its allocation    *)
(* always passes here: every ptr is a block the program was given.         *)
Realloc(fn, ptr, size) ==
  LET sz == heap[ptr]
  IN  CASE size = SIZE_MAX -> Fail(fn, size, 1, ptr)
        [] ptr = NULL      -> Allocate(fn, size, size, 1)
        [] size = 0        -> /\ heap' = [heap EXCEPT ![ptr] = 0]
                              /\ last' = Call(fn, 0, 1, ptr, NULL)
        [] sz = AllocSize(size)
                           -> /\ last' = Call(fn, size, 1, ptr, ptr)
                              /\ UNCHANGED heap
        [] OTHER           -> ReallocMove(fn, ptr, size, sz)

realloc ==
  \E ptr \in Live \cup {NULL}, size \in Sizes : Realloc("realloc", ptr, size)

reallocarray ==
  \E ptr \in Live \cup {NULL}, nmemb \in Counts, size \in Sizes :
    LET sz == umul(size, nmemb)
    IN  IF sz.overflow THEN Fail("reallocarray", nmemb * size, 1, ptr)
        ELSE Realloc("reallocarray", ptr, sz.value)

(* aligned_alloc(alignment, size), as the program calls it: C11 requires   *)
(* size to be a multiple of alignment.                                     *)
aligned_alloc ==
  \E alignment \in MemalignAligns, size \in Sizes :
    /\ size % alignment = 0
    /\ AlignedAlloc("aligned_alloc", alignment, size, size, alignment)

(* Mutant: alignments above SUPERSLAB_SIZE are not rejected.              *)
MemalignRejectsNoUpper(alignment) ==
  alignment = 0 \/ alignment = SIZE_MAX

(* The EINVAL test of memalign.                                            *)
MemalignRejects(alignment) ==
  alignment = 0 \/ alignment = SIZE_MAX \/ alignment > SUPERSLAB_SIZE

(* Mutant: the loop takes the first sizeclass at least alignment large.   *)
SizeclassLargeEnough(size, alignment) == size >= alignment

(* The loop test of memalign: the lowest set bit of size, size & -size,   *)
(* is at least alignment.                                                  *)
SizeclassAligned(size, alignment) ==
  (size & Wrap(BitNot(size) + 1)) >= alignment

(* memalign(alignment, size) on behalf of fn, which asked for req bytes    *)
(* aligned to align.                                                       *)
Memalign(fn, alignment, size, req, align) ==
  CASE MemalignRejects(alignment)     -> Fail(fn, req, align, NULL)
    [] Wrap(size + alignment) < size  -> Fail(fn, req, align, NULL)
    [] OTHER ->
         LET s  == bits_max(size, alignment)
             sc == size_to_sizeclass(s)
             ok == {c \in sc .. NUM_SIZECLASSES - 1 :
                      SizeclassAligned(sizeclass_to_size(c), alignment)}
         IN  CASE sc >= NUM_SIZECLASSES -> Allocate(fn, s, req, align)
               [] ok # {} ->
                    LET c == CHOOSE c \in ok : \A o \in ok : c <= o
                    IN  AlignedAlloc(fn, alignment, sizeclass_to_size(c), req, align)
               [] OTHER -> Allocate(fn, SUPERSLAB_SIZE, req, align)

memalign ==
  \E alignment \in MemalignAligns, size \in Sizes :
    Memalign("memalign", alignment, size, size, alignment)

posix_memalign ==
  \E alignment \in PosixAligns, size \in Sizes :
    IF \/ alignment % PTR_BYTES # 0
       \/ (alignment & Wrap(alignment - 1)) # 0
       \/ alignment = 0
    THEN Fail("posix_memalign", size, alignment, NULL)
    ELSE Memalign("posix_memalign", alignment, size, size, alignment)

valloc ==
  \E size \in Sizes : Memalign("valloc", OS_PAGE_SIZE, size, size, OS_PAGE_SIZE)

(* The request pvalloc stands for: size rounded up to a whole page.        *)
PageRoundUp(size) == ((size + OS_PAGE_SIZE - 1) \div OS_PAGE_SIZE) * OS_PAGE_SIZE

pvalloc ==
  \E size \in Sizes :
    IF size = SIZE_MAX
    THEN Fail("pvalloc", PageRoundUp(size), OS_PAGE_SIZE, NULL)
    ELSE Memalign("pvalloc", OS_PAGE_SIZE,
                  Wrap(size + OS_PAGE_SIZE - 1) & BitNot(OS_PAGE_SIZE - 1),
                  PageRoundUp(size), OS_PAGE_SIZE)

(* __je_bootstrap_calloc: the calloc of statically linked programs before  *)
(* TLS is up.  The slow allocator it uses is modelled as the same alloc.    *)
bootstrap_calloc ==
  \E nmemb \in Counts, size \in Sizes :
    LET sz == umul(size, nmemb)
    IN  IF sz.overflow THEN Fail("bootstrap_calloc", nmemb * size, 1, NULL)
        ELSE Allocate("bootstrap_calloc",
                      Wrap(Wrap(sz.value - 1) \div 2^(BITS - 1) + sz.value),
                      nmemb * size, 1)

-----------------------------------------------------------------------------
Init ==
  /\ heap = [id \in Ids |-> 0]
  /\ last = Call("none", 0, 1, NULL, NULL)

Next ==
  \/ malloc \/ free \/ calloc \/ realloc \/ reallocarray \/ aligned_alloc
  \/ memalign \/ posix_memalign \/ valloc \/ pvalloc \/ bootstrap_calloc

Spec == Init /\ [][Next]_vars

-----------------------------------------------------------------------------
Fns == {"none", "malloc", "bootstrap_malloc", "free", "bootstrap_free", "calloc", "realloc", "reallocarray",
        "aligned_alloc", "memalign", "posix_memalign", "valloc", "pvalloc",
        "bootstrap_calloc"}

UsableSizes == {sizeclass_to_size(sc) : sc \in 0 .. NUM_SIZECLASSES - 1}
                 \cup ({2^e : e \in SUPERSLAB_BITS .. BITS} \cap 1 .. MaxLarge)

(* Every live block has a size alloc can hand out within what the platform *)
(* can reserve; the record of the last call names live or null blocks.     *)
TypeOK ==
  /\ heap \in [Ids -> {0} \cup UsableSizes]
  /\ last.fn \in Fns
  /\ last.ret \in {NULL} \cup Live
  /\ last.ptr \in {NULL} \cup Ids
  /\ last.copied \in Word

(* A call that returns a block returns at least the bytes the caller asked *)
(* for, counted without wrap-around: nmemb * size for calloc and           *)
(* reallocarray, size for the others.  This is what the overflow checks of *)
(* calloc (umul), reallocarray, realloc (size == SIZE_MAX) and memalign    *)
(* (size + alignment < size) are for.  pvalloc and the bootstrap calloc    *)
(* are stated apart.                                                       *)
CoversRequest(fns) ==
  last.fn \in fns /\ last.ret # NULL => heap[last.ret] >= last.req

FrontEndCoversRequest ==
  CoversRequest(Fns \ {"pvalloc", "bootstrap_calloc"})

(* pvalloc(size) returns NULL or at least size rounded up to a page.       *)
PvallocCoversRequest == CoversRequest({"pvalloc"})

(* __je_bootstrap_calloc(nmemb, size) returns NULL or at least nmemb *     *)
(* size bytes; the line "Include size 0 in the first sizeclass" only       *)
(* turns a request of 0 into 1.                                            *)
BootstrapCallocCoversRequest == CoversRequest({"bootstrap_calloc"})

(* Every block returned by aligned_alloc, memalign, posix_memalign, valloc *)
(* and pvalloc for a non-zero request is aligned to the alignment asked    *)
(* for: the sizeclass search of memalign must pick a class whose objects   *)
(* are aligned, and large requests rely on superslab alignment.  C leaves  *)
(* a request of zero bytes implementation-defined, and aligned_alloc(a, 0) *)
(* returns malloc(0), aligned to the smallest sizeclass only.              *)
AlignmentHonoured ==
  last.ret # NULL /\ last.req # 0 => NaturalAlign(heap[last.ret]) % last.align = 0

(* The assertion of aligned_alloc, size % alignment == 0, holds for every  *)
(* call, including the ones memalign makes from its sizeclass search.      *)
AlignedAllocAssertion ==
  last.aa # <<>> => last.aa[2] % last.aa[1] = 0

(* realloc and reallocarray of a block to a new non-zero size: when they   *)
(* return NULL the block is untouched; when they return the same block it  *)
(* is large enough; when they move it, the old block is freed, the new one *)
(* is large enough, and the copy keeps every byte the new size can hold     *)
(* while staying inside both blocks.                                       *)
ReallocContract ==
  [][ LET c == last'
      IN  c.fn \in {"realloc", "reallocarray"} /\ c.ptr # NULL /\ c.req # 0 =>
            CASE c.ret = NULL  -> heap'[c.ptr] = heap[c.ptr]
              [] c.ret = c.ptr -> heap'[c.ptr] >= c.req
              [] OTHER ->
                   /\ heap'[c.ptr] = 0
                   /\ bits_min(c.req, heap[c.ptr]) <= c.copied
                   /\ c.copied <= bits_min(heap[c.ptr], heap'[c.ret]) ]_vars
==============================================================================
