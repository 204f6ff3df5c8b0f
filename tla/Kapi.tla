-------------------------------- MODULE Kapi --------------------------------
(***************************************************************************)
(* The allocator stages of experiments/kapi/kapi.c: what insmod allocates, *)
(* how a failing stage is undone, and what rmmod frees.  The globals that  *)
(* remember an allocation (held) are kept apart from what the kernel's     *)
(* allocators have handed out (live), which is what can leak.              *)
(***************************************************************************)
EXTENDS Naturals, Sequences, SequencesExt

CONSTANTS CacheObjects,  \* CUSTOM_CACHE_OBJECTS
          MaxLoads       \* bound: how often the module is inserted

ASSUME KapiAssumption == CacheObjects \in Nat \ {0} /\ MaxLoads \in Nat \ {0}

CustomObjects == [n \in 1 .. CacheObjects |-> <<"custom_object", n>>]
Obj(name)     == <<name, 0>>

(* What each stage of kapi_init() allocates, in order. *)
PageAllocs    == <<Obj("one_page"), Obj("zero_page"), Obj("order_pages"), Obj("page_desc"),
                   Obj("exact_pages")>>
SlabAllocs    == <<Obj("slab_buf"), Obj("slab_context")>>
CustomAllocs  == <<Obj("custom_cache")>> \o CustomObjects
VmallocAllocs == <<Obj("vbuf"), Obj("vzbuf")>>
AllocOrder    == <<PageAllocs, SlabAllocs, CustomAllocs, VmallocAllocs>>

(* The pointers free_page_memory(), free_slab_memory(), free_custom_slab_cache() and
   free_vmalloc_memory() look at, in order. *)
PageFrees    == <<Obj("exact_pages"), Obj("page_desc"), Obj("order_pages"), Obj("zero_page"),
                  Obj("one_page")>>
SlabFrees    == <<Obj("slab_context"), Obj("slab_buf")>>
CustomFrees  == CustomObjects \o <<Obj("custom_cache")>>
VmallocFrees == <<Obj("vzbuf"), Obj("vbuf")>>
FreeOrder    == <<PageFrees, SlabFrees, CustomFrees, VmallocFrees>>

Objects == UNION {ToSet(AllocOrder[s]) : s \in DOMAIN AllocOrder}

VARIABLES
  mod,          \* "absent", "init", "loaded", "undo" (init failed), "exit"
  stage, item,    \* kapi_init()'s position
  todo,         \* the pointers the clean-up has still to look at
  held,         \* the non-NULL pointers
  live,         \* live[o]: how many allocations of o the kernel still counts
  loads

kapi_vars == <<mod, stage, item, todo, held, live, loads>>

KapiInit ==
  /\ mod = "absent" /\ stage = 1 /\ item = 1 /\ todo = <<>>
  /\ held = {} /\ live = [o \in Objects |-> 0]
  /\ loads = 0

(* A freshly loaded module image has NULL pointers. *)
Insmod ==
  /\ mod = "absent" /\ loads < MaxLoads
  /\ mod' = "init" /\ stage' = 1 /\ item' = 1
  /\ held' = {}
  /\ loads' = loads + 1
  /\ UNCHANGED <<todo, live>>

Current == AllocOrder[stage][item]

NextStage ==
  IF item < Len(AllocOrder[stage])
    THEN item' = item + 1 /\ UNCHANGED <<stage, mod>>
    ELSE IF stage < Len(AllocOrder)
      THEN stage' = stage + 1 /\ item' = 1 /\ UNCHANGED mod
      ELSE mod' = "loaded" /\ UNCHANGED <<stage, item>>

Allocate ==
  /\ mod = "init"
  /\ live' = [live EXCEPT ![Current] = @ + 1]
  /\ held' = held \cup {Current}
  /\ NextStage
  /\ UNCHANGED <<todo, loads>>

(* What kapi_init() frees after a failure in stage s: the failing stage frees its own
   pointers unless its first allocation failed, then the stages before it, last first. *)
FreesBefore ==
  <<<<>>, PageFrees, SlabFrees \o PageFrees, CustomFrees \o (SlabFrees \o PageFrees)>>

UndoPlan(s, first) == (IF first THEN <<>> ELSE FreeOrder[s]) \o FreesBefore[s]

(* Mutant: a failing stage leaves what it had allocated itself. *)
AllocateFailsPartly ==
  /\ mod = "init"
  /\ mod' = "undo"
  /\ todo' = UndoPlan(stage, TRUE)
  /\ UNCHANGED <<stage, item, held, live, loads>>

AllocateFails ==
  /\ mod = "init"
  /\ mod' = "undo"
  /\ todo' = UndoPlan(stage, item = 1)
  /\ UNCHANGED <<stage, item, held, live, loads>>

(* page_address() of the fourth page allocation fails: the allocation exists already. *)
NoDirectMapping ==
  /\ mod = "init" /\ Current = Obj("page_desc")
  /\ live' = [live EXCEPT ![Current] = @ + 1]
  /\ held' = held \cup {Current}
  /\ mod' = "undo"
  /\ todo' = UndoPlan(stage, FALSE)
  /\ UNCHANGED <<stage, item, loads>>

Rmmod ==
  /\ mod = "loaded"
  /\ mod' = "exit"
  /\ todo' = VmallocFrees \o FreesBefore[4]
  /\ UNCHANGED <<stage, item, held, live, loads>>

(* Free a pointer that is set, and forget it. *)
FreeOne ==
  /\ mod \in {"undo", "exit"} /\ todo # <<>>
  /\ LET o == Head(todo)
     IN \/ /\ o \in held
           /\ live' = [live EXCEPT ![o] = @ - 1]
           /\ held' = held \ {o}
        \/ o \notin held /\ UNCHANGED <<live, held>>
  /\ todo' = Tail(todo)
  /\ UNCHANGED <<mod, stage, item, loads>>

CleanedUp ==
  /\ mod \in {"undo", "exit"} /\ todo = <<>>
  /\ mod' = "absent"
  /\ UNCHANGED <<stage, item, todo, held, live, loads>>

-----------------------------------------------------------------------------
(* Properties *)

(* Whichever allocation of whichever stage fails, and after a normal rmmod, the kernel gets
   everything back: a failed insmod calls no exit function that could do it later.  On the
   way an object of the custom cache exists only inside the cache: kmem_cache_destroy() never
   meets a live object and kmem_cache_free() never a destroyed cache. *)
NoLeak ==
  /\ mod = "absent" => \A o \in Objects : live[o] = 0
  /\ \A n \in 1 .. CacheObjects :
       live[CustomObjects[n]] > 0 => live[Obj("custom_cache")] = 1
=============================================================================
