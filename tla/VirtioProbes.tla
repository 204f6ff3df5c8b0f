---------------------------- MODULE VirtioProbes ----------------------------
(***************************************************************************)
(* The BPF programs of experiments/virt-virtio/virtio.bpf.c, one operator  *)
(* per program.  t is the thread a program fires in, a its arguments,      *)
(* value what struct kvm_run holds for an access or what a function        *)
(* returned, u the memory of the process: the device registers, the rings  *)
(* and where the queue registers say they are, the entropy buffers.  The   *)
(* times are left out.                                                     *)
(***************************************************************************)
EXTENDS Bpf

VirtioMaps == {"active_process", "active_mmio", "active_ioeventfd", "active_irqfd",
               "active_ioctl", "ioctl_counters", "operation_counters"}

None == "none"

(* The worker thread has the name of the process that made it. *)
is_vmm_comm(t) == t \in {"vmm", "worker", "stray"}

new_event(t, event) ==
  [event |-> event, t |-> t, id |-> 0, args |-> <<>>, value |-> None, result |-> None,
   device |-> None, queue |-> None, preview |-> None]

(* The rings are sampled only where the fixed layout says they are. *)
sample_queue_memory(u) == IF u.fixed THEN u.rings ELSE None
Sampled(r, u) == [r EXCEPT !.device = u.device, !.queue = sample_queue_memory(u)]

next_operation_id(b, t) == Bump(b, "operation_counters", t)

observe_ioctl_enter(b, t, a) ==
  LET next  == Bump(b, "ioctl_counters", t)
      saved == lab_map_update(lab_map_update(b, "ioctl_counters", t, next),
                              "active_ioctl", t, [id |-> next, args |-> a])
  IN IF ~is_vmm_comm(t) THEN b
     ELSE lab_output(saved, [new_event(t, <<"ioctl", "call">>) EXCEPT !.id = next, !.args = a])

observe_ioctl_exit(b, t, result) ==
  IF ~Has(b, "active_ioctl", t) THEN b
  ELSE bpf_map_delete_elem(
         lab_output(b, [new_event(t, <<"ioctl", "return">>)
                          EXCEPT !.id = b.active_ioctl[t].id, !.args = b.active_ioctl[t].args,
                                 !.result = result]),
         "active_ioctl", t)

(* The entry of a function of the VMM: number it, save its arguments, sample and tell. *)
Enter(b, t, active, saved, r, u) ==
  LET id == next_operation_id(b, t)
      b1 == lab_map_update(b, "operation_counters", t, id)
      b2 == lab_map_update(b1, active, t, [id |-> id, args |-> saved])
  IN lab_output(b2, [Sampled(r, u) EXCEPT !.id = id])

(* Its return, told only if the entry was saved; the saved entry is dropped. *)
Leave(b, t, active, r, u) ==
  IF ~Has(b, active, t) THEN b
  ELSE bpf_map_delete_elem(lab_output(b, [Sampled(r, u) EXCEPT !.id = b[active][t].id]),
                           active, t)

(* struct kvm_run is read again at the return: only then has a read its value. *)
observe_do_mmio(b, t, a, value, u) ==
  Enter(b, t, "active_mmio", <<>>,
        [new_event(t, <<"do_mmio", "call">>)
           EXCEPT !.args = a, !.value = IF a[2] = "write" THEN value ELSE None], u)

observe_do_mmio_end(b, t, a, value, result, u) ==
  Leave(b, t, "active_mmio",
        [new_event(t, <<"do_mmio", "return">>)
           EXCEPT !.args = a, !.value = value, !.result = result], u)

observe_process_queue_begin(b, t, u) ==
  Enter(b, t, "active_process", <<>>,
        new_event(t, <<"process_queue", "call">>), u)

(* This one is told in any case, and forgotten in any case. *)
observe_process_queue_end(b, t, result, u) ==
  LET r == [new_event(t, <<"process_queue", "return">>) EXCEPT !.result = result]
      full == [Sampled(r, u) EXCEPT !.id = b.active_process[t].id,
                                    !.preview = IF result = 0 THEN u.preview ELSE None]
  IN bpf_map_delete_elem(lab_output(b, IF Has(b, "active_process", t) THEN full ELSE r),
                         "active_process", t)

SavedCount(b, active, t) == IF Has(b, active, t) THEN b[active][t].args ELSE <<>>

observe_ioeventfd_kick(b, t, a, u) ==
  Enter(b, t, "active_ioeventfd", a,
        [new_event(t, <<"process_ioeventfd_kick", "call">>) EXCEPT !.args = a], u)

observe_ioeventfd_kick_end(b, t, result, u) ==
  Leave(b, t, "active_ioeventfd",
        [new_event(t, <<"process_ioeventfd_kick", "return">>)
           EXCEPT !.args = SavedCount(b, "active_ioeventfd", t), !.result = result], u)

(* Mutant: the arguments go into the other helper's map, which has the same type. *)
observe_irqfd_signalOther(b, t, a, u) ==
  Enter(b, t, "active_ioeventfd", a,
        [new_event(t, <<"signal_irqfd_completion", "call">>) EXCEPT !.args = a], u)

observe_irqfd_signal(b, t, a, u) ==
  Enter(b, t, "active_irqfd", a,
        [new_event(t, <<"signal_irqfd_completion", "call">>) EXCEPT !.args = a], u)

observe_irqfd_signal_end(b, t, result, u) ==
  Leave(b, t, "active_irqfd",
        [new_event(t, <<"signal_irqfd_completion", "return">>)
           EXCEPT !.args = SavedCount(b, "active_irqfd", t), !.result = result], u)
=============================================================================
