---------------------------- MODULE ChunkMapCheri ----------------------------
(***************************************************************************)
(* PALCHERIBSD::PalChunkMap (pal_freebsd_cheri.h): the chunk map of the    *)
(* capability realization.  A cell holds a capability: the internal        *)
(* pointer of the slab or large allocation covering the granule, offset by *)
(* the byte code of the plain chunk map.  get reads the low 8 bits of its  *)
(* address; getp aligns it down to PAGEMAP_PTR_ALIGN to rederive the       *)
(* internal pointer from a pointer the application holds.                  *)
(*                                                                         *)
(* A capability is abstracted to its tag, its bounds [lo, hi) and its      *)
(* address; pointer arithmetic keeps tag and bounds.  The callers and the  *)
(* control structure (one cell of set_range per step) are those of         *)
(* ChunkMap, whose caller-side definitions are reused through the          *)
(* instance Plain, which is also the specification this module refines.   *)
(***************************************************************************)
EXTENDS ChunkMapEncoding, FiniteSets

CONSTANTS Threads, NumCells, LargeSizes, Debug, CallerCells(_)

(* PAGEMAP_PTR_ALIGN: the low bits of a stored address that hold the code. *)
PAGEMAP_PTR_ALIGN == 256

(* The stored address minus its code must be the region's base: granules  *)
(* are at least PAGEMAP_PTR_ALIGN bytes.                                   *)
ASSUME SUPERSLAB_SIZE >= PAGEMAP_PTR_ALIGN

VARIABLES
  cpagemap,  \* the global pagemap: one capability per cell
  regions,   \* as in ChunkMap
  op         \* as in ChunkMap

vars == <<cpagemap, regions, op>>

Cells == 0 .. NumCells - 1
Addr  == 0 .. NumCells * SUPERSLAB_SIZE

Cap == [tag : BOOLEAN, lo : Addr, hi : Addr, addr : Addr]

(* NULL: untagged, address 0, so its low byte reads CMNotOurs.             *)
NULL == [tag |-> FALSE, lo |-> 0, hi |-> 0, addr |-> 0]

(* address_cast, pointer_offset and pointer_align_down (address.h).        *)
address_cast(p) == p.addr
pointer_offset(p, diff) == [p EXCEPT !.addr = @ + diff]
pointer_align_down(p, granule) == [p EXCEPT !.addr = @ - (@ % granule)]

(* get: the low 8 bits of the stored address, a uint8_t.                   *)
get(c) == address_cast(cpagemap[c]) % 256

(* The byte map the cells encode, for the refinement of ChunkMap.          *)
Plain == INSTANCE ChunkMap WITH pagemap <- [c \in Cells |-> get(c)]

(* The internal pointer the slab or large-allocation manager holds for a   *)
(* region: tagged, bounded to the memory it reserved, at its base.         *)
RegionCap(r) ==
  LET lo == r.base * SUPERSLAB_SIZE
  IN  [tag |-> TRUE, lo |-> lo, addr |-> lo,
       hi |-> lo + Cardinality(Plain!Footprint(r)) * SUPERSLAB_SIZE]

(* getp<offset>(p): the stored capability aligned down to                  *)
(* PAGEMAP_PTR_ALIGN, moved to p when offset is TRUE.                      *)
getp(p, offset) ==
  LET pmp == pointer_align_down(cpagemap[p \div SUPERSLAB_SIZE], PAGEMAP_PTR_ALIGN)
  IN  IF offset THEN pointer_offset(pmp, p - address_cast(pmp)) ELSE pmp

set(c, x) == cpagemap' = [cpagemap EXCEPT ![c] = x]

-----------------------------------------------------------------------------
(* Mutant: both overloads of set_slab store CMSuperslab.                   *)
SetSlabOneTag(t, kind, c) ==
  /\ op[t].pc = "idle"
  /\ c \notin Plain!Claimed
  /\ set(c, pointer_offset(RegionCap([kind |-> kind, base |-> c,
                                      size |-> SUPERSLAB_SIZE]), CMSuperslab))
  /\ regions' = [regions EXCEPT ![t] = @ \cup
                   {[kind |-> kind, base |-> c, size |-> SUPERSLAB_SIZE]}]
  /\ UNCHANGED op

(* set_slab, both overloads: the slab pointer offset by its kind.  The     *)
(* alignment assertion holds of every slab base.                           *)
set_slab(t, kind, c) ==
  LET r == [kind |-> kind, base |-> c, size |-> SUPERSLAB_SIZE]
  IN  /\ op[t].pc = "idle"
      /\ c \notin Plain!Claimed
      /\ set(c, pointer_offset(RegionCap(r), Plain!Tag[kind]))
      /\ regions' = [regions EXCEPT ![t] = @ \cup {r}]
      /\ UNCHANGED op

(* clear_slab, both overloads: store NULL.  Unlike DefaultChunkMap, the    *)
(* stored kind is not asserted.                                            *)
clear_slab(t, r) ==
  /\ op[t].pc = "idle"
  /\ r \in regions[t]
  /\ r.kind \in Plain!SlabKinds
  /\ set(r.base, NULL)
  /\ regions' = [regions EXCEPT ![t] = @ \ {r}]
  /\ UNCHANGED op

(* Mutant: the head stores vp offset by size rather than size_bits.        *)
SetLargeSizeByteOffset(t, size, p) ==
  LET r == [kind |-> Plain!Large, base |-> p, size |-> size]
  IN  /\ op[t].pc = "idle"
      /\ Plain!Footprint(r) \subseteq Cells \ Plain!Claimed
      /\ p + ClearCount(size) <= NumCells
      /\ set(p, pointer_offset(RegionCap(r), size))
      /\ op' = [op EXCEPT ![t] = [pc |-> "slide", r |-> r, i |-> 0,
                                  ss |-> p + 1, j |-> 0, count |-> 0]]
      /\ UNCHANGED regions

(* set_large_size(vp, size), first statement: the head stores vp offset by *)
(* size_bits; the cursor ss starts one granule after vp.                   *)
set_large_size(t, size, p) ==
  LET r == [kind |-> Plain!Large, base |-> p, size |-> size]
  IN  /\ op[t].pc = "idle"
      /\ Plain!Footprint(r) \subseteq Cells \ Plain!Claimed
      /\ p + ClearCount(size) <= NumCells
      /\ set(p, pointer_offset(RegionCap(r), NextPow2Bits(size)))
      /\ op' = [op EXCEPT ![t] = [pc |-> "slide", r |-> r, i |-> 0,
                                  ss |-> p + 1, j |-> 0, count |-> 0]]
      /\ UNCHANGED regions

(* Mutant: the slide stores the cursor offset by the code, not vp.         *)
SlideStepCursorCap(t) ==
  LET o == op[t]  run == 2^o.i
      ss == pointer_offset(RegionCap(o.r), (o.ss - o.r.base) * SUPERSLAB_SIZE)
  IN  /\ o.pc = "slide"
      /\ o.i < NextPow2Bits(o.r.size) - SUPERSLAB_BITS
      /\ set(o.ss + o.j, pointer_offset(ss, SlideCode(o.i)))
      /\ op' = [op EXCEPT ![t] =
                  IF o.j + 1 = run
                  THEN [o EXCEPT !.i = o.i + 1, !.ss = o.ss + run, !.j = 0]
                  ELSE [o EXCEPT !.j = o.j + 1]]
      /\ UNCHANGED regions

(* One cell of set_range(ss, pointer_offset(vp, 64 + i + SUPERSLAB_BITS),  *)
(* run); after the run ss advances by SUPERSLAB_SIZE * run and i by one.   *)
(* ss is kept as a cell index.                                             *)
slide_step(t) ==
  LET o == op[t]  run == 2^o.i
  IN  /\ o.pc = "slide"
      /\ o.i < NextPow2Bits(o.r.size) - SUPERSLAB_BITS
      /\ set(o.ss + o.j, pointer_offset(RegionCap(o.r), SlideCode(o.i)))
      /\ op' = [op EXCEPT ![t] =
                  IF o.j + 1 = run
                  THEN [o EXCEPT !.i = o.i + 1, !.ss = o.ss + run, !.j = 0]
                  ELSE [o EXCEPT !.j = o.j + 1]]
      /\ UNCHANGED regions

slide_done(t) ==
  /\ op[t].pc = "slide"
  /\ op[t].i >= NextPow2Bits(op[t].r.size) - SUPERSLAB_BITS
  /\ regions' = [regions EXCEPT ![t] = @ \cup {op[t].r}]
  /\ op' = [op EXCEPT ![t] = Plain!Idle]
  /\ UNCHANGED cpagemap

(* clear_large_size(vp, size): assert the head's low byte, then            *)
(* set_range(p, NULL, count).                                              *)
clear_large_size(t, r) ==
  /\ op[t].pc = "idle"
  /\ r \in regions[t]
  /\ r.kind = Plain!Large
  /\ Debug => Assert(get(r.base) = NextPow2Bits(r.size),
                     "clear_large_size: head mismatch")
  /\ regions' = [regions EXCEPT ![t] = @ \ {r}]
  /\ op' = [op EXCEPT ![t] = [Plain!Idle EXCEPT !.pc = "clear", !.r = r,
                                                !.count = ClearCount(r.size)]]
  /\ UNCHANGED cpagemap

clear_step(t) ==
  LET o == op[t]
  IN  /\ o.pc = "clear"
      /\ o.j < o.count
      /\ set(o.r.base + o.j, NULL)
      /\ op' = [op EXCEPT ![t].j = o.j + 1]
      /\ UNCHANGED regions

clear_done(t) ==
  /\ op[t].pc = "clear"
  /\ op[t].j = op[t].count
  /\ op' = [op EXCEPT ![t] = Plain!Idle]
  /\ UNCHANGED <<cpagemap, regions>>

-----------------------------------------------------------------------------
(* The pagemap of the capability realization is instantiated with NULL     *)
(* as its default value.                                                   *)
Init ==
  /\ cpagemap = [c \in Cells |-> NULL]
  /\ regions = [t \in Threads |-> {}]
  /\ op = [t \in Threads |-> Plain!Idle]

InCall(t) == slide_step(t) \/ slide_done(t) \/ clear_step(t) \/ clear_done(t)

Next ==
  \E t \in Threads :
    \/ \E kind \in Plain!SlabKinds, c \in Cells : set_slab(t, kind, c)
    \/ \E r \in regions[t] : clear_slab(t, r)
    \/ \E size \in LargeSizes, p \in Cells : set_large_size(t, size, p)
    \/ \E r \in regions[t] : clear_large_size(t, r)
    \/ InCall(t)

Fairness == \A t \in Threads : WF_vars(InCall(t))

Spec == Init /\ [][Next]_vars /\ Fairness

-----------------------------------------------------------------------------
(* Every stored capability is NULL, or tagged with its address inside its  *)
(* bounds: the offsets added to the internal pointers stay representable.  *)
TypeOK ==
  /\ cpagemap \in [Cells -> Cap]
  /\ \A c \in Cells :
       \/ cpagemap[c] = NULL
       \/ /\ cpagemap[c].tag
          /\ cpagemap[c].lo <= cpagemap[c].addr
          /\ cpagemap[c].addr < cpagemap[c].hi
  /\ regions \in [Threads -> SUBSET Plain!Region]

(* Rederivation: for every address a a thread's region covers, getp<false> *)
(* returns the internal pointer of that region (the slab, or the head of   *)
(* the large allocation, with the bounds its manager holds) and           *)
(* getp<true> the same capability at a.  This is what lets free and        *)
(* realloc reach metadata outside the bounds of the pointer the            *)
(* application was given; a wrong capability here grants access to, or    *)
(* writes the metadata of, another region.                                 *)
RederiveRecoversRegion ==
  \A t \in Threads : \A r \in regions[t] :
    \A c \in r.base .. r.base + ClearCount(r.size) - 1 :
      \A a \in {c * SUPERSLAB_SIZE, (c + 1) * SUPERSLAB_SIZE - 1} :
        /\ getp(a, FALSE) = RegionCap(r)
        /\ getp(a, TRUE) = [RegionCap(r) EXCEPT !.addr = a]

(* The capability realization classifies every cell as DefaultChunkMap     *)
(* does, step for step: the low bytes of the stored addresses behave as    *)
(* the plain byte map under the same calls.                                *)
PlainChunkMapRefined == Plain!Spec
=============================================================================
