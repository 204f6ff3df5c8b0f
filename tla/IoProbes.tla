------------------------------ MODULE IoProbes ------------------------------
(***************************************************************************)
(* The BPF programs of experiments/virt-io/io.bpf.c, one operator per      *)
(* program.  t is the thread a program fires in, a the arguments it sees.  *)
(* The samples of LAPIC and IOAPIC registers and the times are left out; a *)
(* record keeps what ties it to the run: the VM exit, the device command   *)
(* and the ioctl it belongs to, and the arguments.                         *)
(***************************************************************************)
EXTENDS Bpf

IoMaps == {"current_vcpu", "ioctl_calls", "ioctl_counters", "vmexit_counters",
           "current_vmexit", "operation_counters", "active_operation",
           "command_calls", "dma_calls"}

is_vmm_comm(t) == t = "vmm"

vcpu_from_map(b, t) == Has(b, "current_vcpu", t)

(* snapshot_base() with the event name and the two fields most records leave at 0. *)
snapshot_base(b, t, event) ==
  [event |-> event, vmexit |-> Get(b, "current_vmexit", t, 0),
   op |-> Get(b, "active_operation", t, 0), call |-> 0, args |-> <<>>]

emit_boundary(b, t, event) ==
  IF is_vmm_comm(t) THEN lab_output(b, snapshot_base(b, t, event)) ELSE b

(* The boundaries that are dropped while the thread's vCPU is not known. *)
emit_for_vcpu(b, t, event, a) ==
  IF is_vmm_comm(t) /\ vcpu_from_map(b, t)
  THEN lab_output(b, [snapshot_base(b, t, event) EXCEPT !.args = a]) ELSE b

(* The association is made for every vCPU thread of the machine. *)
kvm_entry_snapshot(b, t) ==
  LET seeded == lab_map_update(b, "current_vcpu", t, t)
  IN IF is_vmm_comm(t)
     THEN lab_output(seeded, snapshot_base(seeded, t, "KVM_ENTRY")) ELSE seeded

kvm_exit_snapshot(b, t) ==
  LET next    == Bump(b, "vmexit_counters", t)
      counted == lab_map_update(lab_map_update(b, "vmexit_counters", t, next),
                                "current_vmexit", t, next)
  IN IF is_vmm_comm(t)
     THEN lab_output(counted, snapshot_base(counted, t, "KVM_EXIT")) ELSE counted

kvm_userspace_exit_snapshot(b, t) == emit_boundary(b, t, "KVM_USERSPACE_EXIT")
kvm_apic_snapshot(b, t) == emit_boundary(b, t, "KVM_APIC")

kvm_apic_accept_irq_snapshot(b, t) == emit_for_vcpu(b, t, "KVM_APIC_ACCEPT_IRQ", <<>>)
kvm_inj_virq_snapshot(b, t) == emit_for_vcpu(b, t, "KVM_INJ_VIRQ", <<>>)
kvm_ioapic_set_irq_snapshot(b, t, a) == emit_for_vcpu(b, t, "KVM_IOAPIC_SET_IRQ", a)
kvm_msi_set_irq_snapshot(b, t, a) == emit_for_vcpu(b, t, "KVM_MSI_SET_IRQ", a)
kvm_eoi_snapshot(b, t) == emit_for_vcpu(b, t, "KVM_EOI", <<>>)

sys_enter_ioctl_snapshot(b, t, a) ==
  LET next  == Bump(b, "ioctl_counters", t)
      saved == lab_map_update(lab_map_update(b, "ioctl_counters", t, next),
                              "ioctl_calls", t, [call |-> next, args |-> a])
  IN IF ~is_vmm_comm(t) THEN b
     ELSE lab_output(saved, [snapshot_base(b, t, "SYS_ENTER_IOCTL")
                               EXCEPT !.call = next, !.args = a])

(* Mutant: the record carries the newest call id instead of the saved call's arguments. *)
sys_exit_ioctl_snapshotUnsaved(b, t) ==
  IF ~is_vmm_comm(t) \/ ~Has(b, "ioctl_calls", t) THEN b
  ELSE lab_output(b, [snapshot_base(b, t, "SYS_EXIT_IOCTL")
                        EXCEPT !.call = Bump(b, "ioctl_counters", t),
                               !.args = b.ioctl_calls[t].args])

sys_exit_ioctl_snapshot(b, t) ==
  IF ~is_vmm_comm(t) \/ ~Has(b, "ioctl_calls", t) THEN b
  ELSE bpf_map_delete_elem(
         lab_output(b, [snapshot_base(b, t, "SYS_EXIT_IOCTL")
                          EXCEPT !.call = b.ioctl_calls[t].call,
                                 !.args = b.ioctl_calls[t].args]),
         "ioctl_calls", t)

(* A write of COMMAND opens an operation, also before the name of the process is looked at. *)
device_mmio_write(b, t, a) ==
  LET next   == Bump(b, "operation_counters", t)
      opened == lab_map_update(lab_map_update(b, "operation_counters", t, next),
                               "active_operation", t, next)
      now    == IF a[1] = "REG_COMMAND" THEN opened ELSE b
  IN IF vcpu_from_map(b, t) THEN emit_for_vcpu(now, t, "DEVICE_MMIO_WRITE", a) ELSE b

device_execute_command(b, t, a) ==
  LET saved == lab_map_update(b, "command_calls", t, Get(b, "active_operation", t, 0))
  IN IF ~is_vmm_comm(t) \/ ~vcpu_from_map(b, t) THEN b
     ELSE emit_for_vcpu(saved, t, "DEVICE_EXECUTE_COMMAND", a)

device_execute_command_return(b, t, a) ==
  IF ~is_vmm_comm(t) \/ ~vcpu_from_map(b, t) \/ ~Has(b, "command_calls", t) THEN b
  ELSE LET told == lab_output(b, [snapshot_base(b, t, "DEVICE_EXECUTE_COMMAND_RETURN")
                                    EXCEPT !.op = b.command_calls[t], !.args = a])
       IN bpf_map_delete_elem(bpf_map_delete_elem(told, "command_calls", t),
                              "active_operation", t)

device_dma_transfer_entry(b, t, a) ==
  IF ~is_vmm_comm(t) \/ ~vcpu_from_map(b, t) THEN b
  ELSE emit_for_vcpu(lab_map_update(b, "dma_calls", t, a), t, "DEVICE_DMA_TRANSFER", a)

device_dma_transfer_return(b, t) ==
  IF ~is_vmm_comm(t) \/ ~vcpu_from_map(b, t) \/ ~Has(b, "dma_calls", t) THEN b
  ELSE bpf_map_delete_elem(
         emit_for_vcpu(b, t, "DEVICE_DMA_TRANSFER_RETURN", b.dma_calls[t]),
         "dma_calls", t)
=============================================================================
