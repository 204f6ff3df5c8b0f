----------------------------- MODULE MCVirtioRng -----------------------------
(* The run of guest.S with small addresses, for TLC. *)
EXTENDS VirtioTrace

FixedGpas == [desc |-> 1, driver |-> 2, device |-> 3]
=============================================================================
