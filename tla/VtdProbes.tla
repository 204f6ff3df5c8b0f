----------------------------- MODULE VtdProbes -----------------------------
(***************************************************************************)
(* The BPF programs of experiments/virt-vtd/vtd.bpf.c, one operator per    *)
(* program.  On the host they follow QEMU's KVM and VFIO calls and the     *)
(* IOMMU and interrupt remapping work inside them, in the guest the        *)
(* loopback test of the assigned card.  t is the thread, a the arguments.  *)
(* bpf_ringbuf_reserve() that finds no room counts a drop as lab_output()  *)
(* does; the two are one operator here.                                    *)
(***************************************************************************)
EXTENDS Bpf

CONSTANT Qemu    \* the threads of QEMU

VtdMaps == {"active_operations", "host_pending_states", "guest_pending_states"}

(* The arrays of one entry are fields of their own. *)
VtdLoaded ==
  [f \in {"request_counter", "guest_control"} \cup DOMAIN Loaded(VtdMaps) |->
     CASE f = "request_counter" -> 0
       [] f = "guest_control" -> [episode_counter |-> 0, once |-> {}, phase |-> "none",
                                  active |-> FALSE]
       [] OTHER -> Loaded(VtdMaps)[f]]

current_process_is_qemu(t) == t \in Qemu

None == "none"
NoOperation == [op |-> None, id |-> 0, status |-> None, iova |-> 0, size |-> 0, all |-> FALSE]

Event(b, kind) ==
  [kind |-> kind, operation |-> NoOperation, args |-> <<>>, result |-> None,
   phase |-> b.guest_control.phase]

reserve_event(b, t, r) == IF current_process_is_qemu(t) THEN lab_output(b, r) ELSE b
reserve_unfiltered_event(b, r) == lab_output(b, r)

-----------------------------------------------------------------------------
(* Host: the calls *)

is_tracked_ioctl(cmd) == cmd \in {"MAP", "UNMAP", "SET_IRQS", "REGION"}

(* What the request says is sampled at the entry, if it can be read. *)
Sample(a, id) ==
  IF ~a.readable THEN [NoOperation EXCEPT !.op = a.cmd, !.id = id, !.status = "read_failed"]
  ELSE [op |-> a.cmd, id |-> id, iova |-> a.iova, size |-> a.size, all |-> a.all,
        status |-> IF a.short /\ a.cmd # "REGION" THEN "invalid_argument" ELSE "complete"]

enter_ioctl(b, t, a) ==
  LET id    == b.request_counter + 1
      op    == Sample(a, id)
      saved == lab_map_update([b EXCEPT !.request_counter = id], "active_operations", t, op)
  IN IF ~current_process_is_qemu(t) \/ ~is_tracked_ioctl(a.cmd) THEN b
     ELSE reserve_event(saved, t, [Event(b, "IOCTL_ENTER") EXCEPT !.operation = op])

exit_ioctl(b, t, result) ==
  IF ~Has(b, "active_operations", t) THEN b
  ELSE bpf_map_delete_elem(
         reserve_event(b, t, [Event(b, "IOCTL_EXIT") EXCEPT !.operation = b.active_operations[t],
                                                            !.result = result]),
         "active_operations", t)

(* Inside the request's range, without an addition that could wrap. *)
Within(op, a) == ~(a.iova < op.iova \/ a.size > op.size \/ a.iova - op.iova > op.size - a.size)

CompleteOperation(b, t, cmd) ==
  /\ Has(b, "active_operations", t)
  /\ b.active_operations[t].op = cmd /\ b.active_operations[t].status = "complete"

iommu_map(b, t, a) ==
  IF ~CompleteOperation(b, t, "MAP") \/ ~Within(b.active_operations[t], a) THEN b
  ELSE reserve_event(b, t, [Event(b, "IOMMU_MAP") EXCEPT !.operation = b.active_operations[t],
                                                         !.args = <<a.iova, a.size>>])

(* A request to unmap everything has no range of its own. *)
iommu_unmap(b, t, a) ==
  IF ~CompleteOperation(b, t, "UNMAP") THEN b
  ELSE LET op == b.active_operations[t]
       IN IF ~op.all /\ ~Within(op, a) THEN b
          ELSE reserve_event(b, t, [Event(b, "IOMMU_UNMAP") EXCEPT !.operation = op,
                                                                   !.args = <<a.iova, a.size>>])

attach_device(b, t) == reserve_event(b, t, Event(b, "DEVICE_ATTACH"))

-----------------------------------------------------------------------------
(* Host: three pairs of probes share one map of pending calls *)

host_domain_attach_enter(b, t, a) ==
  IF ~current_process_is_qemu(t) THEN b
  ELSE reserve_event(lab_map_update(b, "host_pending_states", t, a), t,
                     [Event(b, "DOMAIN_ATTACH_ENTER") EXCEPT !.args = a])

host_domain_attach_exit(b, t, result) ==
  IF ~Has(b, "host_pending_states", t) THEN b
  ELSE bpf_map_delete_elem(
         reserve_event(b, t, [Event(b, "DOMAIN_ATTACH_EXIT")
                                EXCEPT !.args = b.host_pending_states[t], !.result = result]),
         "host_pending_states", t)

(* Mutant: every invalidation of the thread is followed. *)
host_qi_submitAny(b, t, a) ==
  IF ~current_process_is_qemu(t) THEN b
  ELSE reserve_event(lab_map_update(b, "host_pending_states", t, a), t,
                     [Event(b, "QI_SUBMIT")
                        EXCEPT !.operation = Get(b, "active_operations", t, NoOperation),
                               !.args = a])

(* Only the invalidations of a mapping call. *)
host_qi_submit(b, t, a) ==
  IF ~Has(b, "active_operations", t) \/ b.active_operations[t].op \notin {"MAP", "UNMAP"} THEN b
  ELSE reserve_event(lab_map_update(b, "host_pending_states", t, a), t,
                     [Event(b, "QI_SUBMIT") EXCEPT !.operation = b.active_operations[t],
                                                   !.args = a])

host_qi_complete(b, t, result) ==
  IF ~Has(b, "host_pending_states", t) \/ ~Has(b, "active_operations", t) THEN b
  ELSE bpf_map_delete_elem(
         reserve_event(b, t, [Event(b, "QI_COMPLETE")
                                EXCEPT !.operation = b.active_operations[t],
                                       !.args = b.host_pending_states[t], !.result = result]),
         "host_pending_states", t)

host_irte_activate(b, t) == reserve_event(b, t, Event(b, "IRTE_ACTIVATE"))

(* The message is composed by the call: it is read at its return. *)
host_ir_msi_entry(b, t, a) ==
  IF ~current_process_is_qemu(t) THEN b ELSE lab_map_update(b, "host_pending_states", t, a)

host_ir_msi_exit(b, t) ==
  IF ~Has(b, "host_pending_states", t) THEN b
  ELSE bpf_map_delete_elem(
         reserve_event(b, t, [Event(b, "IR_MSI_MESSAGE") EXCEPT !.args = b.host_pending_states[t]]),
         "host_pending_states", t)

host_kvm_pi_irte_update(b, t) == reserve_event(b, t, Event(b, "KVM_PI_IRTE_UPDATE"))

-----------------------------------------------------------------------------
(* Guest *)

claimed(b, bit) == bit \in b.guest_control.once
claim_guest_once(b, bit) == [b EXCEPT !.guest_control.once = @ \cup {bit}]
set_guest_phase(b, phase) == [b EXCEPT !.guest_control.phase = phase]

guest_run_entry(b) ==
  LET b1 == set_guest_phase([b EXCEPT !.guest_control.active = TRUE], "loopback_run")
  IN IF claimed(b, 0) THEN b1
     ELSE reserve_unfiltered_event(claim_guest_once(b1, 0), Event(b1, "GUEST_RUN_ENTRY"))

(* The phase goes back only with the record. *)
guest_run_exit(b, result) ==
  LET b1 == [b EXCEPT !.guest_control.active = FALSE]
      b2 == reserve_unfiltered_event(claim_guest_once(b1, 1),
                                     [Event(b1, "GUEST_RUN_EXIT") EXCEPT !.result = result])
  IN IF claimed(b, 1) THEN b1 ELSE IF b.full THEN b2 ELSE set_guest_phase(b2, "none")

(* The first mapping made while a test runs, in whichever thread. *)
guest_dma_map_entry(b, t, a) ==
  LET b1 == claim_guest_once(b, 2)
  IN IF ~b.guest_control.active \/ claimed(b, 2) THEN b
     ELSE reserve_unfiltered_event(lab_map_update(b1, "guest_pending_states", t, a),
                                   [Event(b, "GUEST_DMA_MAP_ENTRY") EXCEPT !.args = a])

guest_dma_map_exit(b, t, result) ==
  IF ~Has(b, "guest_pending_states", t) THEN b
  ELSE bpf_map_delete_elem(
         reserve_unfiltered_event(b, [Event(b, "GUEST_DMA_MAP_EXIT")
                                        EXCEPT !.args = b.guest_pending_states[t],
                                               !.result = result]),
         "guest_pending_states", t)

guest_irq_name_matches(irq) == irq = "card"

(* key: the CPU and the interrupt. *)
guest_irq_entry(b, key) ==
  LET id    == b.guest_control.episode_counter + 1
      state == [episode |-> id, phase |-> b.guest_control.phase, irq |-> key[2]]
      b1    == lab_map_update([b EXCEPT !.guest_control.episode_counter = id],
                              "guest_pending_states", key, state)
  IN IF ~guest_irq_name_matches(key[2]) THEN b
     ELSE reserve_unfiltered_event(b1, [Event(b, "GUEST_IRQ_ENTRY") EXCEPT !.args = state])

(* copy_guest_episode() puts the phase of the entry over the current one. *)
guest_irq_exit(b, key) ==
  IF ~Has(b, "guest_pending_states", key) THEN b
  ELSE LET state == b.guest_pending_states[key]
       IN bpf_map_delete_elem(
            reserve_unfiltered_event(b, [Event(b, "GUEST_IRQ_EXIT")
                                           EXCEPT !.args = state, !.phase = state.phase]),
            "guest_pending_states", key)
=============================================================================
