-------------------------------- MODULE Bpf --------------------------------
(***************************************************************************)
(* What the eBPF programs of the experiments share: hash maps of limited   *)
(* size, the ring buffer, and common/observer_bpf.h, which counts every    *)
(* update and every record that did not find room.  The state of one       *)
(* program is a record b: a field per map (a function on the keys that are *)
(* present), out (the records of the current step), full (the ring has no  *)
(* room) and lost (lab_dropped or lab_failures is not 0).                  *)
(*                                                                         *)
(* A hook is an operator from b to b: everything one BPF program does when *)
(* it fires.  It sees the thread it fires in and its arguments, never what *)
(* the traced program is really doing; whether its records agree with that *)
(* is what the modules that use it check.                                  *)
(***************************************************************************)
EXTENDS Naturals, FiniteSets, Sequences, SequencesExt, TLC

CONSTANT MaxEntries   \* max_entries of the hash maps (64 and more in the code)

ASSUME MaxEntriesAssumption == MaxEntries \in Nat \ {0}

Empty == [k \in {} |-> 0]

(* A program that was just loaded, with these maps. *)
Loaded(maps) ==
  [f \in maps \cup {"out", "full", "lost"} |->
     CASE f \in maps -> Empty [] f = "out" -> <<>> [] OTHER -> FALSE]

Has(b, m, k) == k \in DOMAIN b[m]
Get(b, m, k, default) == IF Has(b, m, k) THEN b[m][k] ELSE default

bpf_map_update_elem(b, m, k, v) ==
  [b EXCEPT ![m] = [x \in DOMAIN b[m] \cup {k} |-> IF x = k THEN v ELSE b[m][x]]]

lab_map_update(b, m, k, v) ==
  IF Has(b, m, k) \/ Cardinality(DOMAIN b[m]) < MaxEntries
  THEN bpf_map_update_elem(b, m, k, v)
  ELSE [b EXCEPT !.lost = TRUE]

bpf_map_delete_elem(b, m, k) ==
  [b EXCEPT ![m] = [x \in DOMAIN b[m] \ {k} |-> b[m][x]]]

lab_output(b, r) ==
  IF b.full THEN [b EXCEPT !.lost = TRUE] ELSE [b EXCEPT !.out = Append(@, r)]

(* The next value of the counter map m for key k. *)
Bump(b, m, k) == Get(b, m, k, 0) + 1

(* The hooks of one step of the traced program, one after the other; the singletons make
   TLC evaluate the state between two of them once. *)
RunHooks(Hook(_, _), b, events) ==
  LET after[n \in 0 .. Len(events)] ==
        IF n = 0 THEN b ELSE CHOOSE x \in {Hook(p, events[n]) : p \in {after[n - 1]}} : TRUE
  IN after[Len(events)]
=============================================================================
