----------------------------- MODULE EptProbes -----------------------------
(***************************************************************************)
(* The BPF programs of experiments/virt-ept/ept.bpf.c, one operator per    *)
(* program.  t is the thread, a the arguments a program sees, tree the EPT *)
(* in kernel memory.  A record keeps the operation or call id, the control *)
(* command, the arguments and the walks of the sampled guest frames (none  *)
(* while the thread's vCPU is not known).                                  *)
(*                                                                         *)
(* An EPT of Levels levels with two entries per table: the entry of frame  *)
(* g at level l is tree[Node(l, g)], and it means something only if every  *)
(* entry above it points to a table.                                       *)
(***************************************************************************)
EXTENDS Bpf

CONSTANT Levels    \* EPT_LEVELS

ASSUME LevelsAssumption == Levels \in Nat \ {0, 1, 2}

Gfns       == 0 .. 2 ^ Levels - 1
Span(l)    == 2 ^ (l - 1)                       \* frames below one entry of level l
Node(l, g) == <<l, g \div Span(l)>>
Nodes      == {Node(l, g) : l \in 1 .. Levels, g \in Gfns}
Entry(kind, pfn) == [kind |-> kind, pfn |-> pfn]

SLOT0_GFN_SAMPLES == 4
HUGE_GFN_BASE     == 4
HUGE_GFN_STRIDE   == 1
MAX_GFN_SAMPLES   == 6

sampled_gfn(slot) ==
  IF slot < SLOT0_GFN_SAMPLES THEN slot
  ELSE HUGE_GFN_BASE + (slot - SLOT0_GFN_SAMPLES) * HUGE_GFN_STRIDE

Sampled == {sampled_gfn(slot) : slot \in 0 .. MAX_GFN_SAMPLES - 1}

(* Mutant: the offset inside a large page is forgotten. *)
ept_leaf_pfnBase(e, g, level) == e.pfn

ept_leaf_pfn(e, g, level) == e.pfn + (g % Span(level))

Unmapped == [mapped |-> FALSE, mmio |-> FALSE, level |-> 0, pfn |-> 0]

(* From the root down; after a leaf, a hole or an MMIO marker no further table is read. *)
walk_gfn(tree, g) ==
  LET at[i \in 0 .. Levels] ==
        IF i = 0 THEN [table |-> TRUE, found |-> Unmapped]
        ELSE LET above == at[i - 1]
                 level == Levels + 1 - i
                 e     == tree[Node(level, g)]
             IN CASE ~above.table -> above
                  [] above.table /\ e.kind = "mmio" ->
                       [table |-> FALSE, found |-> [Unmapped EXCEPT !.mmio = TRUE]]
                  [] above.table /\ e.kind = "none" -> [above EXCEPT !.table = FALSE]
                  [] above.table /\ e.kind = "leaf" ->
                       [table |-> FALSE,
                        found |-> [mapped |-> TRUE, mmio |-> FALSE, level |-> level,
                                   pfn |-> ept_leaf_pfn(e, g, level)]]
                  [] OTHER -> above
  IN at[Levels].found

-----------------------------------------------------------------------------
EptMaps == {"current_vcpu", "active_control", "active_memslot", "active_ioctl",
            "active_madvise", "active_mmap", "operation_counters", "ioctl_counters",
            "madvise_counters", "mmap_counters", "experiment_tasks"}

is_vmm_comm(t) == t = "vmm"
experiment_started(b, t) == Has(b, "experiment_tasks", t)

observe_vmm_main(b, t) == lab_map_update(b, "experiment_tasks", t, 1)

sample_current_state(b, t, tree) ==
  IF Has(b, "current_vcpu", t) THEN [g \in Sampled |-> walk_gfn(tree, g)] ELSE <<>>

(* A new event with the state of the thread's vCPU. *)
new_event(b, t, tree, event) ==
  [event |-> event, id |-> 0, control |-> 0, args |-> <<>>,
   walk |-> sample_current_state(b, t, tree)]

next_operation_id(b, t) == Bump(b, "operation_counters", t)

snapshot_current_mm(b, t, tree, event) ==
  IF is_vmm_comm(t) THEN lab_output(b, new_event(b, t, tree, event)) ELSE b

(* Only the experiment's own task makes the association. *)
snapshot_vcpu_mm(b, t, tree, event) ==
  LET seeded == lab_map_update(b, "current_vcpu", t, t)
  IN IF ~is_vmm_comm(t) THEN b
     ELSE lab_output(seeded, [new_event(seeded, t, tree, event)
                                EXCEPT !.walk = [g \in Sampled |-> walk_gfn(tree, g)]])

(* The entry of ioctl, madvise and mmap: counted, saved and told. *)
SyscallEnter(b, t, tree, event, counters, active, a) ==
  LET next  == Bump(b, counters, t)
      saved == lab_map_update(lab_map_update(b, counters, t, next),
                              active, t, [id |-> next, args |-> a])
  IN IF ~experiment_started(b, t) \/ ~is_vmm_comm(t) THEN b
     ELSE lab_output(saved, [new_event(b, t, tree, event) EXCEPT !.id = next, !.args = a])

(* Their exit: told with what was saved, and forgotten in any case. *)
SyscallExit(b, t, tree, event, active) ==
  IF ~Has(b, active, t) THEN b
  ELSE bpf_map_delete_elem(
         IF is_vmm_comm(t)
         THEN lab_output(b, [new_event(b, t, tree, event)
                               EXCEPT !.id = b[active][t].id, !.args = b[active][t].args])
         ELSE b, active, t)

observe_ioctl_enter(b, t, tree, a) ==
  SyscallEnter(b, t, tree, "SYS_ENTER_IOCTL", "ioctl_counters", "active_ioctl", a)
observe_ioctl_exit(b, t, tree) == SyscallExit(b, t, tree, "SYS_EXIT_IOCTL", "active_ioctl")
observe_madvise_enter(b, t, tree, a) ==
  SyscallEnter(b, t, tree, "SYS_ENTER_MADVISE", "madvise_counters", "active_madvise", a)
observe_madvise_exit(b, t, tree) == SyscallExit(b, t, tree, "SYS_EXIT_MADVISE", "active_madvise")
observe_mmap_enter(b, t, tree, a) ==
  SyscallEnter(b, t, tree, "SYS_ENTER_MMAP", "mmap_counters", "active_mmap", a)
observe_mmap_exit(b, t, tree) == SyscallExit(b, t, tree, "SYS_EXIT_MMAP", "active_mmap")

observe_control_begin(b, t, tree, command) ==
  LET id    == next_operation_id(b, t)
      saved == lab_map_update(lab_map_update(b, "operation_counters", t, id),
                              "active_control", t, [id |-> id, command |-> command])
  IN IF ~is_vmm_comm(t) THEN b
     ELSE lab_output(saved, [new_event(b, t, tree, "CONTROL_BEGIN")
                               EXCEPT !.id = id, !.control = command])

observe_control_end(b, t, tree) ==
  IF ~Has(b, "active_control", t) THEN b
  ELSE bpf_map_delete_elem(
         IF is_vmm_comm(t)
         THEN lab_output(b, [new_event(b, t, tree, "CONTROL_END")
                               EXCEPT !.id = b.active_control[t].id,
                                      !.control = b.active_control[t].command])
         ELSE b, "active_control", t)

(* A region belongs to the control command its thread is in, 0 outside. *)
observe_memslot_begin(b, t, tree, a) ==
  LET id      == next_operation_id(b, t)
      command == IF Has(b, "active_control", t) THEN b.active_control[t].command ELSE 0
      saved   == lab_map_update(lab_map_update(b, "operation_counters", t, id),
                                "active_memslot", t, [id |-> id, command |-> command, args |-> a])
  IN IF ~is_vmm_comm(t) THEN b
     ELSE lab_output(saved, [new_event(b, t, tree, "MEMSLOT_BEGIN")
                               EXCEPT !.id = id, !.control = command, !.args = a])

observe_memslot_end(b, t, tree) ==
  IF ~Has(b, "active_memslot", t) THEN b
  ELSE bpf_map_delete_elem(
         IF is_vmm_comm(t)
         THEN lab_output(b, [new_event(b, t, tree, "MEMSLOT_END")
                               EXCEPT !.id = b.active_memslot[t].id,
                                      !.control = b.active_memslot[t].command,
                                      !.args = b.active_memslot[t].args])
         ELSE b, "active_memslot", t)

(* The tracepoints of KVM.  Those that carry no vCPU are silent until it is known. *)
IfVcpu(b, t, tree, event) ==
  IF Has(b, "current_vcpu", t) THEN snapshot_vcpu_mm(b, t, tree, event) ELSE b

kvm_entry_snapshot(b, t, tree) == snapshot_vcpu_mm(b, t, tree, "KVM_ENTRY")
kvm_exit_snapshot(b, t, tree) == IfVcpu(b, t, tree, "KVM_EXIT")
kvm_page_fault_snapshot(b, t, tree) == snapshot_current_mm(b, t, tree, "KVM_PAGE_FAULT")
kvm_userspace_exit_snapshot(b, t, tree) == IfVcpu(b, t, tree, "KVM_USERSPACE_EXIT")
kvm_unmap_hva_range_snapshot(b, t, tree) == IfVcpu(b, t, tree, "KVM_UNMAP_HVA_RANGE")
kvm_mmu_spte_requested_snapshot(b, t, tree) == IfVcpu(b, t, tree, "KVM_MMU_SPTE_REQUESTED")
kvm_mmu_set_spte_snapshot(b, t, tree) == IfVcpu(b, t, tree, "KVM_MMU_SET_SPTE")
kvm_mmu_split_huge_page_snapshot(b, t, tree) ==
  snapshot_current_mm(b, t, tree, "KVM_MMU_SPLIT_HUGE_PAGE")
mark_mmio_spte_snapshot(b, t, tree) == snapshot_current_mm(b, t, tree, "MARK_MMIO_SPTE")
kvm_flush_remote_tlbs_snapshot(b, t, tree) == IfVcpu(b, t, tree, "KVM_FLUSH_REMOTE_TLBS")
=============================================================================
