------------------------------ MODULE PagemapTree ------------------------------
(***************************************************************************)
(* The pagemap storage under the sharing mixins of PagemapSharing.         *)
(* chunkmap.h picks the storage of a pagemap type T at build time:         *)
(*                                                                         *)
(*   use_flatpagemap<T>  the platform commits lazily, or the flat array    *)
(*                       fits under SNMALLOC_MAX_FLATPAGEMAP_SIZE          *)
(*   FlatPagemap         one array, every cell present from construction   *)
(*   Pagemap             a tree whose leaves are allocated, zeroed and     *)
(*                       linked on the first set below them                *)
(*                                                                         *)
(* pagemap.h is not in this repository: the tree follows spec sections     *)
(* 4.1 and 5.  A set into an absent leaf is three steps of the writing     *)
(* thread: see the leaf absent and allocate a zeroed one, install it with  *)
(* a compare-and-swap on the parent slot (the loser frees its own and      *)
(* uses the winner's), and store the cell.  One level of interior nodes    *)
(* stands for the tree.  The modules of PagemapSharing are the threads.    *)
(*                                                                         *)
(* The module refines PagemapSharing, whose tables are flat functions: a   *)
(* cell of an absent leaf reads as CMNotOurs (get does not allocate).      *)
(***************************************************************************)
EXTENDS Naturals

CONSTANTS
  Modules, Layouts, Layout, Provider, Exporter, Cells, ConstructBeforeUse,
  LazyCommit,   \* pal_supports<LazyCommit> of the platform
  FlatFits,     \* FlatFits[T]: sizeof(FlatPagemap<T>) within the maximum
  Leaves,       \* the leaf slots of the root node
  LeafOf        \* LeafOf[c]: the leaf holding cell c (the high index bits)

ASSUME /\ LazyCommit \in BOOLEAN
       /\ FlatFits \in [Layouts -> BOOLEAN]
       /\ LeafOf \in [Cells -> Leaves]

NotOurs == "notours"
Absent == [c \in {} |-> NotOurs]   \* a root slot with no leaf linked
Idle == [pc |-> "idle"]           \* a thread with no set in progress

VARIABLES
  root,        \* root[T][l]: Absent, or the leaf (a function on its cells)
  pending,     \* pending[m]: the set thread m is in the middle of
  landed,      \* landed[T][c]: the value of the last set of cell c of T to
               \* complete (a history variable, not program state)
  external, constructed, aborted, fault

vars == <<root, pending, landed, external, constructed, aborted, fault>>

CellsOf(l) == {c \in Cells : LeafOf[c] = l}

ZeroLeaf(l) == [c \in CellsOf(l) |-> NotOurs]

(* use_flatpagemap<T>.                                                    *)
use_flatpagemap(T) == LazyCommit \/ FlatFits[T]

(* The flat function the chunk map sees: Pagemap::get on a cell of an      *)
(* absent leaf returns the default cell.                                   *)
View == [T \in Layouts |->
          [c \in Cells |-> IF root[T][LeafOf[c]] = Absent
                           THEN NotOurs ELSE root[T][LeafOf[c]][c]]]

Sharing == INSTANCE PagemapSharing WITH tables <- View

(* Construction of ExternalGlobalPagemap<T>, as in PagemapSharing.        *)
construct(m) ==
  /\ UNCHANGED <<root, pending, landed>>
  /\ Sharing!construct(m)

(* Pagemap::set, first step: find the leaf of c through pagemap().  A      *)
(* present leaf (always, for a flat map) takes the store at once; an       *)
(* absent one makes the thread allocate a zeroed leaf to install.          *)
set(m, c, v) ==
  /\ pending[m] = Idle
  /\ ~aborted /\ ~fault
  /\ ConstructBeforeUse /\ Provider[m] = "external" => m \in constructed
  /\ LET T == Sharing!pagemap(m)
         l == LeafOf[c]
     IN  IF T = Sharing!NULL
         THEN /\ fault' = TRUE
              /\ UNCHANGED <<root, pending, landed>>
         ELSE /\ UNCHANGED fault
              /\ \/ /\ root[T][l] # Absent
                    /\ root' = [root EXCEPT ![T][l][c] = v]
                    /\ landed' = [landed EXCEPT ![T][c] = v]
                    /\ UNCHANGED pending
                 \/ /\ root[T][l] = Absent
                    /\ pending' = [pending EXCEPT
                                     ![m] = [T |-> T, c |-> c, v |-> v, pc |-> "install"]]
                    /\ UNCHANGED <<root, landed>>
  /\ UNCHANGED <<external, constructed, aborted>>

(* Mutant: the new leaf is linked with a plain store.                     *)
InstallStore(m) ==
  LET s == pending[m] IN
  /\ s.pc = "install"
  /\ ~aborted /\ ~fault
  /\ root' = [root EXCEPT ![s.T][LeafOf[s.c]] = ZeroLeaf(LeafOf[s.c])]
  /\ pending' = [pending EXCEPT ![m].pc = "store"]
  /\ UNCHANGED <<landed, external, constructed, aborted, fault>>

(* Second step: compare-and-swap the zeroed leaf into the empty slot.  If  *)
(* another thread linked a leaf first, the own one is freed and the        *)
(* store goes to the winner's.                                             *)
install(m) ==
  LET s == pending[m]
      l == LeafOf[s.c]
  IN
  /\ s.pc = "install"
  /\ ~aborted /\ ~fault
  /\ root' = IF root[s.T][l] = Absent
             THEN [root EXCEPT ![s.T][l] = ZeroLeaf(l)]
             ELSE root
  /\ pending' = [pending EXCEPT ![m].pc = "store"]
  /\ UNCHANGED <<landed, external, constructed, aborted, fault>>

(* Third step: the cell store into the linked leaf.                       *)
store(m) ==
  LET s == pending[m] IN
  /\ s.pc = "store"
  /\ ~aborted /\ ~fault
  /\ root' = [root EXCEPT ![s.T][LeafOf[s.c]][s.c] = s.v]
  /\ pending' = [pending EXCEPT ![m] = Idle]
  /\ landed' = [landed EXCEPT ![s.T][s.c] = s.v]
  /\ UNCHANGED <<external, constructed, aborted, fault>>

Halted ==
  /\ aborted \/ fault
  /\ UNCHANGED vars

(* DefaultChunkmapPagemapTemplate: a flat map has every cell from the      *)
(* start; a tree starts with no leaves.                                    *)
Init ==
  /\ root = [T \in Layouts |->
               [l \in Leaves |-> IF use_flatpagemap(T) THEN ZeroLeaf(l)
                                                      ELSE Absent]]
  /\ pending = [m \in Modules |-> Idle]
  /\ landed = [T \in Layouts |-> [c \in Cells |-> NotOurs]]
  /\ external = [T \in Layouts |-> Sharing!NULL]
  /\ constructed = {}
  /\ aborted = FALSE
  /\ fault = FALSE

Next ==
  \/ \E m \in Modules : construct(m)
  \/ \E m \in Modules, c \in Cells :
       \E v \in {Layout[m], NotOurs} : set(m, c, v)
  \/ \E m \in Modules : install(m)
  \/ \E m \in Modules : store(m)
  \/ Halted

Spec == Init /\ [][Next]_vars

-----------------------------------------------------------------------------
Pending == [T : Layouts, c : Cells, v : Layouts \cup {NotOurs},
            pc : {"install", "store"}]

TypeOK ==
  /\ \A T \in Layouts, l \in Leaves :
       root[T][l] \in {Absent} \cup [CellsOf(l) -> Layouts \cup {NotOurs}]
  /\ pending \in [Modules -> {Idle} \cup Pending]
  /\ landed \in [Layouts -> [Cells -> Layouts \cup {NotOurs}]]
  /\ Sharing!TypeOK

(* The sharing invariants of PagemapSharing, read through the tree.       *)
NoLayoutConfusion == Sharing!NoLayoutConfusion
NoNullPagemapUse == Sharing!NoNullPagemapUse

(* No set is lost (spec section 5): every cell get reads holds the value  *)
(* of the last set of that cell to complete, whatever the threads'         *)
(* interleaving.  It fails if the thread that loses the race to link an     *)
(* absent leaf replaces the winner's leaf after the winner stored into it, *)
(* and if a leaf is linked in a state other than zeroed.                   *)
NoSetLost == View = landed
==============================================================================
