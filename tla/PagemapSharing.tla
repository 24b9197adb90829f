---------------------------- MODULE PagemapSharing ----------------------------
(***************************************************************************)
(* Where the chunk map finds its pagemap (chunkmap.h): the two provider     *)
(* mixins, and the accessor malloc.cc exports.                              *)
(*                                                                         *)
(*   GlobalPagemapTemplate<T>   one static pagemap per pagemap type T        *)
(*   ExternalGlobalPagemap<T>   a static pointer per T, set by the           *)
(*                              constructor from snmalloc_pagemap_global_get *)
(*                              and cast_to_pagemap; Pal::error on mismatch  *)
(*                                                                         *)
(* A pagemap type stands for its PagemapConfig: granule, cell layout,      *)
(* flat or hierarchical.  Tables are named by the type of their static,    *)
(* and a cell records the layout of the module that wrote it.  The         *)
(* modules of one process run their static constructors and their chunk   *)
(* map calls in an order no code in this repository fixes.                 *)
(***************************************************************************)
EXTENDS Naturals

CONSTANTS
  Modules,            \* separately built allocators in one process
  Layouts,            \* pagemap types (their PagemapConfig)
  Layout,             \* Layout[m]: the pagemap type module m is built with
  Provider,           \* Provider[m] \in {"global", "external"}
  Exporter,           \* the module whose malloc.cc exports its pagemap
  Cells,
  ConstructBeforeUse  \* whether every module constructs its provider first

ASSUME /\ Layout \in [Modules -> Layouts]
       /\ Provider \in [Modules -> {"global", "external"}]
       /\ Exporter \in Modules /\ Provider[Exporter] = "global"
       /\ ConstructBeforeUse \in BOOLEAN

NULL == "null"
NotOurs == "notours"   \* CMNotOurs: 0 in every layout

VARIABLES
  tables,     \* tables[T]: GlobalPagemapTemplate<T>::global_pagemap
  external,   \* external[T]: ExternalGlobalPagemap<T>::external_pagemap
  constructed,\* the modules whose provider object has been constructed
  aborted,    \* Pal::error has ended the process
  fault       \* a module dereferenced a null pagemap pointer

vars == <<tables, external, constructed, aborted, fault>>

(* snmalloc_pagemap_global_get: the exporter's GlobalPagemap and its       *)
(* config.                                                                 *)
snmalloc_pagemap_global_get == [pm |-> Layout[Exporter], config |-> Layout[Exporter]]

(* Mutant: the config is not compared.                                    *)
CastNoCheck(T, pm, config) == pm

(* T::cast_to_pagemap(pm, config): pm when config is T's own, else null.   *)
cast_to_pagemap(T, pm, config) == IF config = T THEN pm ELSE NULL

(* Mutant: a failed cast is stored without calling Pal::error.            *)
ConstructNoError(m) ==
  LET g == snmalloc_pagemap_global_get
      p == cast_to_pagemap(Layout[m], g.pm, g.config)
  IN  /\ external' = [external EXCEPT ![Layout[m]] = p]
      /\ UNCHANGED aborted

(* The constructor of ExternalGlobalPagemap<T>.                            *)
Construct(m) ==
  LET g == snmalloc_pagemap_global_get
      p == cast_to_pagemap(Layout[m], g.pm, g.config)
  IN  /\ external' = [external EXCEPT ![Layout[m]] = p]
      /\ aborted' = (p = NULL)

(* PagemapProvider::pagemap() of module m: the table it reaches, or NULL.  *)
pagemap(m) ==
  IF Provider[m] = "global" THEN Layout[m] ELSE external[Layout[m]]

(* Mutant: the constructor runs for a module that imports nothing.        *)
constructAny(m) ==
  /\ ~aborted /\ ~fault
  /\ m \notin constructed
  /\ Construct(m)
  /\ constructed' = constructed \cup {m}
  /\ UNCHANGED <<tables, fault>>

construct(m) ==
  /\ ~aborted /\ ~fault
  /\ Provider[m] = "external" /\ m \notin constructed
  /\ Construct(m)
  /\ constructed' = constructed \cup {m}
  /\ UNCHANGED <<tables, fault>>

(* A chunk-map set (a cell in m's layout) or clear (CMNotOurs) through     *)
(* PagemapProvider::pagemap().                                             *)
write(m, c, v) ==
  /\ ~aborted /\ ~fault
  /\ ConstructBeforeUse /\ Provider[m] = "external" => m \in constructed
  /\ IF pagemap(m) = NULL
     THEN /\ fault' = TRUE
          /\ UNCHANGED tables
     ELSE /\ tables' = [tables EXCEPT ![pagemap(m)][c] = v]
          /\ UNCHANGED fault
  /\ UNCHANGED <<external, constructed, aborted>>

(* The process has ended; nothing more happens.                            *)
Halted ==
  /\ aborted \/ fault
  /\ UNCHANGED vars

Init ==
  /\ tables = [T \in Layouts |-> [c \in Cells |-> NotOurs]]
  /\ external = [T \in Layouts |-> NULL]
  /\ constructed = {}
  /\ aborted = FALSE
  /\ fault = FALSE

Next ==
  \/ \E m \in Modules : construct(m)
  \/ \E m \in Modules, c \in Cells :
       \E v \in {Layout[m], NotOurs} : write(m, c, v)
  \/ Halted

Spec == Init /\ [][Next]_vars

-----------------------------------------------------------------------------
TypeOK ==
  /\ tables \in [Layouts -> [Cells -> Layouts \cup {NotOurs}]]
  /\ external \in [Layouts -> Layouts \cup {NULL}]
  /\ constructed \subseteq {m \in Modules : Provider[m] = "external"}
  /\ aborted \in BOOLEAN /\ fault \in BOOLEAN

(* No pagemap holds a cell written in another layout: a module built with  *)
(* an incompatible configuration never reaches a table it would corrupt,   *)
(* which is what the config check of the constructor is for.               *)
NoLayoutConfusion ==
  \A T \in Layouts, c \in Cells : tables[T][c] \in {NotOurs, T}

(* No module ever calls through a null pagemap pointer: spec section 4.2   *)
(* has the importer fetch and check the pagemap at first use, and fail     *)
(* through Pal::error on a mismatch.                                       *)
NoNullPagemapUse == ~fault
==============================================================================
