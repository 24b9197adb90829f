----------------------------- MODULE PalCheriBSD -----------------------------
(***************************************************************************)
(* The platform hooks of PALCHERIBSD (pal_freebsd_cheri.h): error,         *)
(* notify_not_using, notify_using<zero_mem>, zero<page_aligned> and        *)
(* reserve<committed>, with the export snmalloc_reserve_shared.  The       *)
(* memory is a BITS-bit address space of bytes, each unmapped, zero, data  *)
(* (written by the allocator's client) or freed (advised MADV_FREE: reads  *)
(* either its old contents or zero).  errno is the calling thread's.       *)
(*                                                                         *)
(* mmap and madvise are the kernel's: mmap(NULL, ..., MAP_ALIGNED(n))      *)
(* places a fresh zero mapping of whole pages at a multiple of 2^n, and    *)
(* fails with EINVAL for a zero length or for 0 < n < PAGE_SHIFT or        *)
(* n >= pointer width (FreeBSD mmap(2)), with ENOMEM when no room is left; *)
(* mmap(p, ..., MAP_FIXED) replaces whole pages by zero pages, or fails    *)
(* (ENOMEM).  committed is ignored: the PAL has LazyCommit.                *)
(***************************************************************************)
EXTENDS ChunkMapEncoding, AddressUtils, FiniteSets

CONSTANTS
  OS_PAGE_SIZE,
  Requests,      \* sizes passed to reserve
  Aligns,        \* alignments passed to reserve: 0 or powers of two
  Blocks,        \* [p |-> , size |-> ] ranges the allocator passes in
  CallerErrnos   \* errno values a thread may hold when it calls in

ASSUME OS_PAGE_SIZE \in {2^e : e \in 1 .. BITS - 1}

Unmapped == "unmapped"
Zero == "zero"
Data == "data"
Freed == "freed"
ENOMEM == 12
EINVAL == 22
YesZero == "YesZero"
NoZero == "NoZero"

VARIABLES
  mem,      \* [Address -> byte state]
  errno,    \* the calling thread's errno
  halted,   \* error() has called abort()
  last      \* the latest call and its result

vars == <<mem, errno, halted, last>>

PAGE_SHIFT == NextPow2Bits(OS_PAGE_SIZE)

(* MAP_FAILED: the all-ones pointer, never page aligned.                 *)
MAP_FAILED == 2^BITS - 1

(* bits::next_pow2_bits(x): BITS - clz(x - 1); at x = 0 the subtraction    *)
(* wraps and the result is BITS.                                           *)
next_pow2_bits(x) == IF x = 0 THEN BITS ELSE NextPow2Bits(x)

Bytes(p, size) == {a \in Address : p <= a /\ a < p + size}
PageRound(n) == ((n + OS_PAGE_SIZE - 1) \div OS_PAGE_SIZE) * OS_PAGE_SIZE
Mapped(p, size) == \A a \in Bytes(p, size) : mem[a] # Unmapped
Fill(S, v) == [a \in Address |-> IF a \in S THEN v ELSE mem[a]]

(* Kernel: MAP_ALIGNED(n) is accepted for n = 0 (no alignment beyond a     *)
(* page), n = 1 (MAP_ALIGNED_SUPER: a superpage if one is free, else any   *)
(* page) and PAGE_SHIFT <= n < pointer width; the places a fresh mapping   *)
(* of len bytes may land.                                                  *)
MapAlignedValid(n) == n \in {0, 1} \/ (PAGE_SHIFT <= n /\ n < BITS)
Placements(len, n) ==
  {q \in Address : /\ q % (IF n = 1 THEN 1 ELSE 2^n) = 0 /\ q % OS_PAGE_SIZE = 0
                   /\ q + len <= 2^BITS
                   /\ \A a \in Bytes(q, len) : mem[a] = Unmapped}

(* Kernel: mmap(p, size, ..., MAP_FIXED) maps zero pages over every page   *)
(* the range touches.                                                      *)
MmapFixed(p, size) == Fill(Bytes(p, PageRound(size)), Zero)

Call(fn, p, size, align, ret) ==
  [fn |-> fn, p |-> p, size |-> size, align |-> align, ret |-> ret]

-----------------------------------------------------------------------------
(* Mutant: error prints its message but does not abort.                   *)
ErrorReturns ==
  /\ UNCHANGED <<halted, mem>>

(* error(str): puts and abort.                                             *)
error ==
  /\ halted' = TRUE
  /\ UNCHANGED mem

(* notify_not_using(p, size): the caller passes a page-aligned block       *)
(* (asserted); madvise(MADV_FREE) lets the kernel drop the contents.       *)
notify_not_using(p, size) ==
  /\ is_aligned_block(OS_PAGE_SIZE, p, size)
  /\ Mapped(p, size)
  /\ mem' = Fill(Bytes(p, size), Freed)
  /\ last' = Call("notify_not_using", p, size, 0, 0)
  /\ UNCHANGED <<errno, halted>>

(* Mutant: the mmap path is taken whenever p is page aligned.              *)
ZeroAlignedStart(page_aligned, p, size) ==
  /\ Mapped(p, size)
  /\ page_aligned => is_aligned_block(OS_PAGE_SIZE, p, size)
  /\ \/ /\ page_aligned \/ p % OS_PAGE_SIZE = 0
        /\ \/ mem' = MmapFixed(p, size) /\ UNCHANGED errno
           \/ mem' = Fill(Bytes(p, size), Zero) /\ errno' = 0
     \/ /\ ~(page_aligned \/ p % OS_PAGE_SIZE = 0)
        /\ mem' = Fill(Bytes(p, size), Zero) /\ UNCHANGED errno
  /\ UNCHANGED halted

(* zero<page_aligned>(p, size): a page-aligned block is replaced by fresh  *)
(* zero pages with mmap(MAP_FIXED); if that fails, errno is cleared and    *)
(* the block is zeroed with bzero, as is any other block.                  *)
zero(page_aligned, p, size) ==
  /\ Mapped(p, size)
  /\ page_aligned => is_aligned_block(OS_PAGE_SIZE, p, size)
  /\ \/ /\ page_aligned \/ is_aligned_block(OS_PAGE_SIZE, p, size)
        /\ \/ mem' = MmapFixed(p, size) /\ UNCHANGED errno
           \/ mem' = Fill(Bytes(p, size), Zero) /\ errno' = 0
     \/ /\ ~(page_aligned \/ is_aligned_block(OS_PAGE_SIZE, p, size))
        /\ mem' = Fill(Bytes(p, size), Zero) /\ UNCHANGED errno
  /\ UNCHANGED halted

(* notify_using<zero_mem>(p, size): only a YesZero request must be page    *)
(* aligned (asserted); it zeroes the block through zero<false>.           *)
notify_using(zero_mem, p, size) ==
  /\ zero_mem = YesZero => is_aligned_block(OS_PAGE_SIZE, p, size)
  /\ Mapped(p, size)
  /\ IF zero_mem = YesZero THEN zero(FALSE, p, size)
                           ELSE UNCHANGED <<mem, errno, halted>>
  /\ last' = Call(IF zero_mem = YesZero THEN "notify_using<YesZero>"
                                       ELSE "notify_using<NoZero>", p, size, 0, 0)

(* The mmap(NULL, request, ..., MAP_ALIGNED(log2align)) of reserve, and    *)
(* error("Out of memory") when it returns MAP_FAILED.                      *)
ReserveMmap(request, align, log2align) ==
  LET len == PageRound(request)
      ok == /\ request # 0 /\ MapAlignedValid(log2align)
            /\ Placements(len, log2align) # {}
  IN  \/ /\ ok
         /\ \E q \in Placements(len, log2align) :
              /\ mem' = Fill(Bytes(q, len), Zero)
              /\ last' = Call("reserve", q, request, align, q)
         /\ UNCHANGED <<errno, halted>>
      \/ /\ ~ok
         /\ errno' = IF request = 0 \/ ~MapAlignedValid(log2align)
                     THEN EINVAL ELSE ENOMEM
         /\ last' = Call("reserve", 0, request, align, MAP_FAILED)
         /\ error

(* Mutant: the alignment is not raised from 0 to 1 before next_pow2_bits. *)
ReserveAlignZero(request, align) ==
  ReserveMmap(request, align, next_pow2_bits(align))

(* reserve<committed>(size, align): mmap *size bytes aligned to            *)
(* 2^next_pow2_bits(align), align 0 counting as 1.  *size is left as it    *)
(* was, though the mapping covers whole pages.                             *)
reserve(request, align) ==
  LET a == IF align = 0 THEN 1 ELSE align
  IN  ReserveMmap(request, align, next_pow2_bits(a))

(* snmalloc_reserve_shared(size, align): reserve<true> for a caller        *)
(* outside the allocator, with any alignment it chooses.                   *)
snmalloc_reserve_shared(request, align) == reserve(request, align)

(* The allocator's client writes into memory it was given.                 *)
ClientWrite(p, size) ==
  /\ Mapped(p, size)
  /\ mem' = Fill(Bytes(p, size), Data)
  /\ last' = Call("write", p, size, 0, 0)
  /\ UNCHANGED <<errno, halted>>

(* After abort the process takes no further step.                          *)
Halted == halted /\ UNCHANGED vars

-----------------------------------------------------------------------------
Init ==
  /\ mem = [a \in Address |-> Unmapped]
  /\ errno \in CallerErrnos
  /\ halted = FALSE
  /\ last = Call("none", 0, 0, 0, 0)

Next ==
  \/ ~halted /\ \E r \in Requests, al \in Aligns : snmalloc_reserve_shared(r, al)
  \/ ~halted /\ \E b \in Blocks : notify_not_using(b.p, b.size)
  \/ ~halted /\ \E b \in Blocks, zm \in {YesZero, NoZero} :
                  notify_using(zm, b.p, b.size)
  \/ ~halted /\ \E b \in Blocks, pa \in BOOLEAN :
                  /\ zero(pa, b.p, b.size)
                  /\ last' = Call(IF pa THEN "zero<true>" ELSE "zero<false>",
                                  b.p, b.size, 0, 0)
  \/ ~halted /\ \E b \in Blocks : ClientWrite(b.p, b.size)
  \/ Halted

Spec == Init /\ [][Next]_vars
-----------------------------------------------------------------------------
(* The byte states and errno values the hooks produce; and no call returns *)
(* MAP_FAILED to its caller, since reserve's error() never returns (the    *)
(* allocator does not test reserve's result).                              *)
TypeOK ==
  /\ mem \in [Address -> {Unmapped, Zero, Data, Freed}]
  /\ errno \in CallerErrnos \cup {0, ENOMEM, EINVAL}
  /\ halted \in BOOLEAN
  /\ last.ret \in Address
  /\ halted <=> last.ret = MAP_FAILED

(* zero<page_aligned>(p, size), and notify_using<YesZero> through it: when *)
(* the call returns every byte of the block reads zero, whether the mmap   *)
(* path, its bzero fallback or bzero alone ran, including bytes advised    *)
(* MADV_FREE before; no byte outside the block changes (mmap(MAP_FIXED)    *)
(* replaces whole pages, so it must only be used on whole pages); and      *)
(* errno is either what the caller had or cleared, never the failure of    *)
(* the mmap that was recovered from.                                       *)
ZeroCall == last'.fn \in {"zero<true>", "zero<false>", "notify_using<YesZero>"}
ZeroContract ==
  [][ZeroCall =>
       /\ \A a \in Bytes(last'.p, last'.size) : mem'[a] = Zero
       /\ \A a \in Address \ Bytes(last'.p, last'.size) : mem'[a] = mem[a]
       /\ errno' \in {errno, 0}]_vars

(* reserve, as snmalloc_reserve_shared exports it to any caller: a         *)
(* returned block starts at a multiple of the alignment asked for (align 0 *)
(* meaning none), its request bytes were unmapped and are now fresh zero   *)
(* memory, and no other byte changed; the process aborts ("Out of memory") *)
(* only for a zero request, an alignment strictly between 2 and a page     *)
(* (which FreeBSD refuses for MAP_ALIGNED), or when no free run of pages   *)
(* with that alignment is left.                                            *)
FreeRun(len, A) ==
  \E q \in Address : /\ q % A = 0 /\ q % OS_PAGE_SIZE = 0 /\ q + len <= 2^BITS
                     /\ \A a \in Bytes(q, len) : mem[a] = Unmapped
ReserveContract ==
  [][last'.fn = "reserve" =>
       LET r == last'  A == IF r.align = 0 THEN 1 ELSE r.align
       IN  IF r.ret = MAP_FAILED
           THEN /\ halted'
                /\ \/ r.size = 0
                   \/ 2 < A /\ A < OS_PAGE_SIZE
                   \/ ~FreeRun(PageRound(r.size), A)
           ELSE /\ r.ret % A = 0
                /\ \A a \in Bytes(r.ret, r.size) : mem[a] = Unmapped /\ mem'[a] = Zero
                /\ \A a \in Address \ Bytes(r.ret, PageRound(r.size)) :
                     mem'[a] = mem[a]]_vars
==============================================================================
