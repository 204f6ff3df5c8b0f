----------------------------- MODULE KapiModule -----------------------------
(***************************************************************************)
(* The kapi module from insmod to rmmod: kapi_init() first prints the      *)
(* address-space table (KapiLayout), then runs the allocator stages        *)
(* (Kapi).  The bounds of the table's regions are those of the kernel the  *)
(* module is loaded into; the table goes with the module.                  *)
(***************************************************************************)
EXTENDS Kapi, KapiLayout

Unset == [k \in 1 .. Count |-> [start |-> 0, end |-> 0]]

module_vars == <<kapi_vars, layout_vars>>

ModuleInit == KapiInit /\ LayoutInit /\ regions = Unset

Load ==
  /\ Insmod
  /\ regions' \in [1 .. Count -> Region]
  /\ UNCHANGED <<i, cursor, gaps, spans, done>>

PrintTable == mod = "init" /\ LayoutNext /\ UNCHANGED kapi_vars

(* The stages follow the table; everything after kapi_init() leaves it alone. *)
RunStages ==
  /\ done
  /\ Allocate \/ AllocateFails \/ NoDirectMapping \/ Rmmod \/ FreeOne
  /\ UNCHANGED layout_vars

Unload ==
  /\ CleanedUp
  /\ regions' = Unset
  /\ i' = 1 /\ cursor' = 0
  /\ gaps' = {} /\ spans' = {}
  /\ done' = FALSE

ModuleNext == Load \/ PrintTable \/ RunStages \/ Unload

ModuleSpec == ModuleInit /\ [][ModuleNext]_module_vars
=============================================================================
