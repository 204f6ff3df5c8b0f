------------------------------- MODULE EptVmm -------------------------------
(***************************************************************************)
(* The virt-ept experiment: the VMM that reshapes its guest's memory on    *)
(* request (vmm.c), the guest that asks for it (guest.S), and the BPF      *)
(* programs that watch the EPT (EptProbes).  KVM is external: it refuses a *)
(* region that moves or overlaps a slot, maps a frame on the first access, *)
(* and unmaps what the host or the VMM takes away.                         *)
(*                                                                         *)
(* ept.tree is the page table in memory, with whatever freed tables still  *)
(* hold below an entry that is no longer a table; ept.flat is what the     *)
(* processor translates.  A record is true when its walk is ept.flat at    *)
(* the moment of its hook.  The layout is scaled down: slot 0 is frames 0  *)
(* (code) and 1 (data), frame 2 a gap, 3 MMIO, and slot 1 frames 4 and 5,  *)
(* one large page.                                                         *)
(***************************************************************************)
EXTENDS EptProbes

CONSTANT MaxFaults    \* system calls that fail

ASSUME EptAssumption == MaxFaults \in Nat /\ Levels = 3

VARIABLES
  vmm,       \* main(): pc, call of the set-up, command in progress, its calls to come, result
  guest,     \* place in guest.S
  slots,     \* KVM's memory slots that exist: number -> backing memory and dirty logging
  active_mem,
  thp,       \* the kernel backs the 2 MiB mapping with one large page
  host,      \* <<memory, page>> -> host frame, 0 if none
  page,      \* host frame -> contents
  ept,
  count,     \* calls of each kind and operations so far
  expected,  \* what the guest must find in its frames
  happened, bpf, faults

ept_vars == <<vmm, guest, slots, active_mem, thp, host, page, ept, count, expected,
              happened, bpf, faults>>

DATA_GFN == 1
MMIO_GFN == 3
HUGE_GFN == 4
SlotOf(g) == IF g < 2 THEN 0 ELSE 1
PageOf(g) == g % 2
ZERO == 0          \* contents of a frame: nothing yet, a step of the guest, or
CODE == 100        \* the image,
FILL == 101        \* what the VMM fills the large page with
Backed    == {0, DATA_GFN, HUGE_GFN, HUGE_GFN + 1}

(* The calls of main() before its loop. *)
Calls == <<"open", "KVM_GET_API_VERSION", "KVM_CREATE_VM", "mmap", "mmap", "fopen", "region",
           "KVM_CREATE_VCPU", "KVM_GET_VCPU_MMAP_SIZE", "mmap", "KVM_GET_SREGS",
           "KVM_SET_SREGS", "KVM_SET_REGS">>

Op(op, arg) == [op |-> op, arg |-> arg]
Program == <<
  Op("cpuid", 0), Op("write", DATA_GFN), Op("control", 1), Op("write", DATA_GFN),
  Op("control", 2), Op("write", DATA_GFN), Op("control", 3), Op("write", DATA_GFN),
  Op("mmio", MMIO_GFN), Op("control", 4), Op("write", HUGE_GFN), Op("control", 5),
  Op("write", HUGE_GFN + 1), Op("close", 0) >>

EptInit ==
  /\ vmm = [pc |-> "loader", i |-> 1, command |-> 0, op |-> 0, todo |-> <<>>, failed |-> FALSE]
  /\ guest = 1
  /\ slots = Empty
  /\ active_mem = "guest"
  /\ thp \in BOOLEAN
  /\ host = [p \in {"guest", "replacement", "huge"} \X {0, 1} |-> 0]
  /\ page = [f \in 1 .. 8 |-> ZERO]
  /\ ept = [tree |-> [n \in Nodes |-> Entry("none", 0)], flat |-> [g \in Gfns |-> Unmapped]]
  /\ count = [ioctl |-> 0, madvise |-> 0, mmap |-> 0, ops |-> 0, entries |-> 0]
  /\ expected = [g \in {0, DATA_GFN} |-> IF g = 0 THEN CODE ELSE ZERO]
  /\ happened = <<>> /\ bpf = Loaded(EptMaps)
  /\ faults = 0

-----------------------------------------------------------------------------
(* KVM's page table *)

(* The entry of frame g at this level; tables on the way are made, and are empty. *)
MapAt(e, g, level, kind, pfn) ==
  LET fresh(l) == \E k \in l .. Levels : e.tree[Node(k, g)].kind # "table"
      sibling(n) == n[1] < Levels /\ Node(n[1] + 1, n[2] * Span(n[1])) = Node(n[1] + 1, g)
      covered == {x \in Gfns : Node(level, x) = Node(level, g)}
      cut     == {x \in Gfns : \E l \in level .. Levels - 1 :
                     Node(l + 1, x) = Node(l + 1, g) /\ fresh(l + 1)}
  IN [tree |-> [n \in Nodes |->
        CASE n = Node(level, g) -> Entry(kind, pfn)
          [] n[1] > level /\ n = Node(n[1], g) -> Entry("table", 0)
          [] n # Node(n[1], g) /\ n[1] >= level /\ sibling(n) /\ fresh(n[1] + 1) -> Entry("none", 0)
          [] OTHER -> e.tree[n]],
      flat |-> [x \in Gfns |->
        CASE x \in covered /\ kind = "leaf" ->
               [mapped |-> TRUE, mmio |-> FALSE, level |-> level, pfn |-> pfn + (x % Span(level))]
          [] x \in covered /\ kind = "mmio" -> [Unmapped EXCEPT !.mmio = TRUE]
          [] x \in cut \ covered -> Unmapped
          [] OTHER -> e.flat[x]]]

(* The host takes one small page away. *)
Zap(e, g) ==
  IF ~e.flat[g].mapped THEN e
  ELSE [tree |-> [e.tree EXCEPT ![Node(1, g)] = Entry("none", 0)],
        flat |-> [e.flat EXCEPT ![g] = Unmapped]]

(* A slot is deleted: the roots go, what they pointed to stays in memory. *)
ZapAll(e) ==
  [tree |-> [n \in Nodes |-> IF n[1] = Levels THEN Entry("none", 0) ELSE e.tree[n]],
   flat |-> [g \in Gfns |-> Unmapped]]

(* A large leaf becomes a table of small ones. *)
Split(e) ==
  LET pfn == e.flat[HUGE_GFN].pfn
  IN MapAt(MapAt(e, HUGE_GFN, 1, "leaf", pfn), HUGE_GFN + 1, 1, "leaf", pfn + 1)

-----------------------------------------------------------------------------
(* The hooks of a step: e is the page table at that moment, the rest a true record. *)
Ev(hook, e, id, control, args) ==
  [hook |-> hook, ept |-> e, id |-> id, control |-> control, args |-> args]
Plain(hook, e) == Ev(hook, e, 0, 0, <<>>)

Hook(b, e) ==
  CASE e.hook = "main" -> observe_vmm_main(b, "vmm")
    [] e.hook = "SYS_ENTER_IOCTL" -> observe_ioctl_enter(b, "vmm", e.ept.tree, e.args)
    [] e.hook = "SYS_EXIT_IOCTL" -> observe_ioctl_exit(b, "vmm", e.ept.tree)
    [] e.hook = "SYS_ENTER_MADVISE" -> observe_madvise_enter(b, "vmm", e.ept.tree, e.args)
    [] e.hook = "SYS_EXIT_MADVISE" -> observe_madvise_exit(b, "vmm", e.ept.tree)
    [] e.hook = "SYS_ENTER_MMAP" -> observe_mmap_enter(b, "vmm", e.ept.tree, e.args)
    [] e.hook = "SYS_EXIT_MMAP" -> observe_mmap_exit(b, "vmm", e.ept.tree)
    [] e.hook = "CONTROL_BEGIN" -> observe_control_begin(b, "vmm", e.ept.tree, e.control)
    [] e.hook = "CONTROL_END" -> observe_control_end(b, "vmm", e.ept.tree)
    [] e.hook = "MEMSLOT_BEGIN" -> observe_memslot_begin(b, "vmm", e.ept.tree, e.args)
    [] e.hook = "MEMSLOT_END" -> observe_memslot_end(b, "vmm", e.ept.tree)
    [] e.hook = "KVM_ENTRY" -> kvm_entry_snapshot(b, "vmm", e.ept.tree)
    [] e.hook = "KVM_EXIT" -> kvm_exit_snapshot(b, "vmm", e.ept.tree)
    [] e.hook = "KVM_USERSPACE_EXIT" -> kvm_userspace_exit_snapshot(b, "vmm", e.ept.tree)
    [] e.hook = "KVM_PAGE_FAULT" -> kvm_page_fault_snapshot(b, "vmm", e.ept.tree)
    [] e.hook = "KVM_MMU_SPTE_REQUESTED" -> kvm_mmu_spte_requested_snapshot(b, "vmm", e.ept.tree)
    [] e.hook = "KVM_MMU_SET_SPTE" -> kvm_mmu_set_spte_snapshot(b, "vmm", e.ept.tree)
    [] e.hook = "KVM_MMU_SPLIT_HUGE_PAGE" -> kvm_mmu_split_huge_page_snapshot(b, "vmm", e.ept.tree)
    [] e.hook = "MARK_MMIO_SPTE" -> mark_mmio_spte_snapshot(b, "vmm", e.ept.tree)
    [] e.hook = "KVM_UNMAP_HVA_RANGE" -> kvm_unmap_hva_range_snapshot(b, "vmm", e.ept.tree)
    [] e.hook = "KVM_FLUSH_REMOTE_TLBS" -> kvm_flush_remote_tlbs_snapshot(b, "vmm", e.ept.tree)

(* Nothing is told before main(); walks are told once the vCPU has been entered. *)
Fire(events) ==
  LET told == SelectSeq(events, LAMBDA e : e.hook # "main")
  IN /\ happened' = IF vmm.pc = "loader" THEN <<>>
                    ELSE [n \in DOMAIN told |->
                      [event |-> told[n].hook, id |-> told[n].id, control |-> told[n].control,
                       args |-> told[n].args,
                       walk |-> IF count.entries = 0 /\ told[n].hook # "KVM_ENTRY" THEN <<>>
                                ELSE [g \in Sampled |-> told[n].ept.flat[g]]]]
     /\ bpf' = RunHooks(Hook, [bpf EXCEPT !.out = <<>>], events)

Fault(ok) == faults' = faults + (IF ok THEN 0 ELSE 1) /\ faults' <= MaxFaults

(* One system call; during it the page table goes from ept to after. *)
Syscall(name, id, args, inside, after) ==
  <<Ev("SYS_ENTER_" \o name, ept, id, 0, args)>> \o inside
    \o <<Ev("SYS_EXIT_" \o name, after, id, 0, args)>>

-----------------------------------------------------------------------------
(* vmm.c *)

Region(slot, mem, log) == [call |-> "region", slot |-> slot, mem |-> mem, log |-> log]

(* KVM_SET_USER_MEMORY_REGION: delete, create, or change the flags of a slot that stays. *)
Accepts(r) ==
  \/ r.mem = "none" /\ r.slot \in DOMAIN slots
  \/ r.mem # "none" /\ (r.slot \in DOMAIN slots => slots[r.slot].mem = r.mem)

Applied(r) ==
  IF r.mem = "none" THEN [s \in DOMAIN slots \ {r.slot} |-> slots[s]]
  ELSE [s \in DOMAIN slots \cup {r.slot} |->
          IF s = r.slot THEN [mem |-> r.mem, log |-> r.log] ELSE slots[s]]

(* What the change does to the EPT; a large page is split at once or left for the next write. *)
Reshaped(r, eager) ==
  CASE r.mem = "none" -> ZapAll(ept)
    [] r.slot = 1 /\ r.log /\ eager /\ ept.flat[HUGE_GFN].level = 2 -> Split(ept)
    [] OTHER -> ept

(* The records of one set_memory_region(): the function, and the ioctl in it. *)
set_memory_region(r, ok, eager) ==
  LET after == IF ok THEN Reshaped(r, eager) ELSE ept
      id    == count.ops + 1
      inside == CASE ~ok \/ count.entries = 0 -> <<>>
                  [] ok /\ after # ept /\ r.mem # "none" ->
                       <<Plain("KVM_MMU_SPLIT_HUGE_PAGE", ept), Plain("KVM_FLUSH_REMOTE_TLBS", after)>>
                  [] OTHER -> <<Plain("KVM_FLUSH_REMOTE_TLBS", after)>>
  IN <<Ev("MEMSLOT_BEGIN", ept, id, vmm.command, r)>>
       \o Syscall("IOCTL", count.ioctl + 1, <<"KVM_SET_USER_MEMORY_REGION">>, inside, after)
       \o <<Ev("MEMSLOT_END", after, id, vmm.command, r)>>

SetRegion(r, ok, eager) ==
  /\ ok => Accepts(r)
  /\ faults' = faults + (IF ok \/ ~Accepts(r) THEN 0 ELSE 1) /\ faults' <= MaxFaults
  /\ slots' = IF ok THEN Applied(r) ELSE slots
  /\ ept' = IF ok THEN Reshaped(r, eager) ELSE ept
  /\ count' = [count EXCEPT !.ioctl = @ + 1, !.ops = @ + 1]
  /\ Fire(set_memory_region(r, ok, eager))

(* The dynamic loader maps libraries before main() runs. *)
Loader ==
  /\ vmm.pc = "loader"
  /\ \/ Fire(Syscall("MMAP", 0, <<"library">>, <<>>, ept)) /\ UNCHANGED vmm
     \/ Fire(<<Plain("main", ept)>>) /\ vmm' = [vmm EXCEPT !.pc = "setup"]
  /\ UNCHANGED <<guest, slots, active_mem, thp, host, page, ept, count, expected, faults>>

(* Every call before the loop ends main() if it fails. *)
SetUpMoves(ok) ==
  vmm' = CASE ~ok -> [vmm EXCEPT !.pc = "failed"]
           [] ok /\ vmm.i = Len(Calls) -> [vmm EXCEPT !.pc = "loop"]
           [] OTHER -> [vmm EXCEPT !.i = @ + 1]

SetUp(ok) ==
  LET c == Calls[vmm.i]
  IN /\ vmm.pc = "setup" /\ c # "region"
     /\ Fault(ok) /\ SetUpMoves(ok)
     /\ count' = CASE c = "mmap" -> [count EXCEPT !.mmap = @ + 1]
                   [] c \in {"open", "fopen"} -> count
                   [] OTHER -> [count EXCEPT !.ioctl = @ + 1]
     /\ IF c = "fopen" /\ ok       \* fread() of the guest image
        THEN /\ host' = [host EXCEPT ![<<"guest", 0>>] = 1]
             /\ page' = [page EXCEPT ![1] = CODE]
        ELSE UNCHANGED <<host, page>>
     /\ Fire(CASE c = "mmap" -> Syscall("MMAP", count.mmap + 1, <<c>>, <<>>, ept)
               [] c \in {"open", "fopen"} -> <<>>
               [] OTHER -> Syscall("IOCTL", count.ioctl + 1, <<c>>, <<>>, ept))
     /\ UNCHANGED <<guest, slots, active_mem, thp, ept, expected>>

SetUpRegion(ok) ==
  /\ vmm.pc = "setup" /\ Calls[vmm.i] = "region"
  /\ SetRegion(Region(0, active_mem, FALSE), ok, FALSE) /\ SetUpMoves(ok)
  /\ UNCHANGED <<guest, active_mem, thp, host, page, expected>>

KvmRun(ok) ==
  /\ vmm.pc = "loop"
  /\ Fault(ok)
  /\ vmm' = [vmm EXCEPT !.pc = IF ok THEN "guest" ELSE "failed"]
  /\ count' = [count EXCEPT !.ioctl = @ + 1, !.entries = IF ok THEN 1 ELSE @]
  /\ Fire(LET enter == Ev("SYS_ENTER_IOCTL", ept, count.ioctl + 1, 0, <<"KVM_RUN">>)
          IN IF ok THEN <<enter, Plain("KVM_ENTRY", ept)>>
             ELSE <<enter, Ev("SYS_EXIT_IOCTL", ept, count.ioctl + 1, 0, <<"KVM_RUN">>)>>)
  /\ UNCHANGED <<guest, slots, active_mem, thp, host, page, ept, expected>>

(* The steps of the five commands, in order; the first that fails is the last one. *)
Call(c) == [call |-> c]
Steps == <<
  <<Call("dontneed")>>,
  <<Call("memcpy"), Region(0, "none", FALSE), Region(0, "replacement", FALSE), Call("switch")>>,
  <<Region(0, active_mem, TRUE), Call("clear")>>,
  <<Call("mmap"), Call("align"), Call("hugepage"), Region(1, "huge", FALSE)>>,
  <<Region(1, "huge", TRUE)>> >>

(* Mutant: the replacement is registered without a copy of the guest. *)
handle_control_commandNoCopy(command) == [Steps EXCEPT ![2] = Tail(@)][command]

(* Mutant: the slot is moved in one call. *)
handle_control_commandMove(command) ==
  [Steps EXCEPT ![2] = <<Call("memcpy"), Region(0, "replacement", FALSE), Call("switch")>>][command]

handle_control_command(command) == Steps[command]

ControlBegin ==
  /\ vmm.pc = "exit" /\ Program[guest - 1].op = "control"
  /\ vmm' = [vmm EXCEPT !.pc = "control", !.command = Program[guest - 1].arg,
                        !.op = count.ops + 1,
                        !.todo = handle_control_command(Program[guest - 1].arg), !.failed = FALSE]
  /\ count' = [count EXCEPT !.ops = @ + 1]
  /\ Fire(<<Ev("CONTROL_BEGIN", ept, count.ops + 1, Program[guest - 1].arg, <<>>)>>)
  /\ UNCHANGED <<guest, slots, active_mem, thp, host, page, ept, expected, faults>>

Step(ok) == vmm' = IF ok THEN [vmm EXCEPT !.todo = Tail(@)]
                   ELSE [vmm EXCEPT !.todo = <<>>, !.failed = TRUE]
AtStep(call) == vmm.pc = "control" /\ vmm.todo # <<>> /\ Head(vmm.todo).call = call

SlotStep(ok, eager) ==
  /\ AtStep("region")
  /\ SetRegion(Head(vmm.todo), ok, eager) /\ Step(ok)
  /\ UNCHANGED <<guest, active_mem, thp, host, page, expected>>

(* madvise(MADV_DONTNEED) of the data page: the host drops it with its contents, KVM's
   notifier unmaps it, and from here on the page is to read as zero. *)
DontNeed(ok) ==
  LET after == IF ok THEN Zap(ept, DATA_GFN) ELSE ept
  IN /\ AtStep("dontneed") /\ Fault(ok) /\ Step(ok)
     /\ host' = IF ok THEN [host EXCEPT ![<<active_mem, DATA_GFN>>] = 0] ELSE host
     /\ expected' = IF ok THEN [expected EXCEPT ![DATA_GFN] = ZERO] ELSE expected
     /\ ept' = after
     /\ count' = [count EXCEPT !.madvise = @ + 1]
     /\ Fire(Syscall("MADVISE", count.madvise + 1, <<"dontneed">>,
               IF after = ept THEN <<>>
               ELSE <<Plain("KVM_UNMAP_HVA_RANGE", ept), Plain("KVM_FLUSH_REMOTE_TLBS", after)>>,
               after))
     /\ UNCHANGED <<guest, slots, active_mem, thp, page>>

Contents(mem, p) == IF host[<<mem, p>>] = 0 THEN ZERO ELSE page[host[<<mem, p>>]]

Memcpy ==
  /\ AtStep("memcpy") /\ Step(TRUE)
  /\ host' = [host EXCEPT ![<<"replacement", 0>>] = 4, ![<<"replacement", 1>>] = 5]
  /\ page' = [page EXCEPT ![4] = Contents(active_mem, 0), ![5] = Contents(active_mem, 1)]
  /\ Fire(<<>>)
  /\ UNCHANGED <<guest, slots, active_mem, thp, ept, count, expected, faults>>

Switch ==
  /\ AtStep("switch") /\ Step(TRUE)
  /\ active_mem' = "replacement"
  /\ Fire(<<>>)
  /\ UNCHANGED <<guest, slots, thp, host, page, ept, count, expected, faults>>

ClearDirtyLog(ok) ==
  /\ AtStep("clear") /\ Fault(ok) /\ Step(ok)
  /\ count' = [count EXCEPT !.ioctl = @ + 1]
  /\ Fire(Syscall("IOCTL", count.ioctl + 1, <<"KVM_CLEAR_DIRTY_LOG">>,
                  IF ok THEN <<Plain("KVM_FLUSH_REMOTE_TLBS", ept)>> ELSE <<>>, ept))
  /\ UNCHANGED <<guest, slots, active_mem, thp, host, page, ept, expected>>

MmapHuge(ok) ==
  /\ AtStep("mmap") /\ Fault(ok) /\ Step(ok)
  /\ count' = [count EXCEPT !.mmap = @ + 1]
  /\ Fire(Syscall("MMAP", count.mmap + 1, <<"mmap">>, <<>>, ept))
  /\ UNCHANGED <<guest, slots, active_mem, thp, host, page, ept, expected>>

(* The munmap() calls around the aligned 2 MiB. *)
Align(ok) ==
  /\ AtStep("align") /\ Fault(ok) /\ Step(ok)
  /\ Fire(<<>>)
  /\ UNCHANGED <<guest, slots, active_mem, thp, host, page, ept, count, expected>>

(* madvise(MADV_HUGEPAGE) may fail; then every page is written once. *)
HugePage(ok) ==
  /\ AtStep("hugepage") /\ Fault(ok) /\ Step(TRUE)
  /\ thp' = (ok /\ thp)
  /\ host' = [host EXCEPT ![<<"huge", 0>>] = 6, ![<<"huge", 1>>] = IF thp' THEN 7 ELSE 8]
  /\ page' = [page EXCEPT ![6] = FILL, ![IF thp' THEN 7 ELSE 8] = FILL]
  /\ expected' = [g \in DOMAIN expected \cup {HUGE_GFN, HUGE_GFN + 1} |->
                    IF g \in {HUGE_GFN, HUGE_GFN + 1} THEN FILL ELSE expected[g]]
  /\ count' = [count EXCEPT !.madvise = @ + 1]
  /\ Fire(Syscall("MADVISE", count.madvise + 1, <<"hugepage">>, <<>>, ept))
  /\ UNCHANGED <<guest, slots, active_mem, ept>>

ControlEnd ==
  /\ vmm.pc = "control" /\ vmm.todo = <<>>
  /\ vmm' = [vmm EXCEPT !.pc = IF vmm.failed THEN "failed" ELSE "loop", !.command = 0]
  /\ Fire(<<Ev("CONTROL_END", ept, vmm.op, vmm.command, <<>>)>>)
  /\ UNCHANGED <<guest, slots, active_mem, thp, host, page, ept, count, expected, faults>>

(* Port 0x82 ends the run; MMIO is left to the guest. *)
Exit ==
  /\ vmm.pc = "exit" /\ Program[guest - 1].op \in {"mmio", "close"}
  /\ vmm' = [vmm EXCEPT !.pc = IF Program[guest - 1].op = "close" THEN "done" ELSE "loop"]
  /\ Fire(<<>>)
  /\ UNCHANGED <<guest, slots, active_mem, thp, host, page, ept, count, expected, faults>>

-----------------------------------------------------------------------------
(* guest.S: an instruction runs when the frames it needs are mapped. *)
At(op)    == vmm.pc = "guest" /\ Program[guest].op = op
Writable(g) == ept.flat[g].mapped /\ ~(slots[SlotOf(g)].log /\ ept.flat[g].level > 1)
Needs     == {0} \cup (IF Program[guest].op = "write" THEN {Program[guest].arg} ELSE {})
Ready(op) == At(op) /\ \A g \in Needs : Writable(g)

(* The exit of an instruction that KVM hands to the VMM. *)
ToUserspace(events) ==
  /\ vmm' = [vmm EXCEPT !.pc = "exit"]
  /\ guest' = guest + 1
  /\ Fire(<<Plain("KVM_EXIT", ept)>> \o events
            \o <<Plain("KVM_USERSPACE_EXIT", ept'),
                 Ev("SYS_EXIT_IOCTL", ept', count.ioctl, 0, <<"KVM_RUN">>)>>)
  /\ UNCHANGED <<slots, active_mem, thp, host, page, count, expected, faults>>

(* EPT violation: KVM faults the host page in and maps it. *)
PageFault(g) ==
  LET mem   == slots[SlotOf(g)].mem
      new   == IF mem = "replacement" THEN 4 + PageOf(g)
               ELSE IF count.madvise = 0 THEN 2 ELSE 3
      pfn   == IF host[<<mem, PageOf(g)>>] = 0 THEN new ELSE host[<<mem, PageOf(g)>>]
      large == mem = "huge" /\ thp /\ ~slots[1].log
      after == MapAt(ept, g, IF large THEN 2 ELSE 1, "leaf", IF large THEN pfn - PageOf(g) ELSE pfn)
  IN /\ vmm.pc = "guest" /\ g \in Needs /\ ~Writable(g)
     /\ host' = [host EXCEPT ![<<mem, PageOf(g)>>] = pfn]
     /\ ept' = after
     /\ Fire(<<Plain("KVM_EXIT", ept), Plain("KVM_PAGE_FAULT", ept),
               Plain("KVM_MMU_SPTE_REQUESTED", ept), Plain("KVM_MMU_SET_SPTE", after),
               Plain("KVM_ENTRY", after)>>)
     /\ UNCHANGED <<vmm, guest, slots, active_mem, thp, page, count, expected, faults>>

Cpuid ==
  /\ Ready("cpuid")
  /\ guest' = guest + 1
  /\ Fire(<<Plain("KVM_EXIT", ept), Plain("KVM_ENTRY", ept)>>)
  /\ UNCHANGED <<vmm, slots, active_mem, thp, host, page, ept, count, expected, faults>>

Write ==
  LET g == Program[guest].arg
  IN /\ Ready("write")
     /\ guest' = guest + 1
     /\ page' = [page EXCEPT ![ept.flat[g].pfn] = guest]
     /\ expected' = [expected EXCEPT ![g] = guest]
     /\ Fire(<<>>)
     /\ UNCHANGED <<vmm, slots, active_mem, thp, host, ept, count, faults>>

Out ==
  /\ Ready("control") \/ Ready("close")
  /\ UNCHANGED ept
  /\ ToUserspace(<<>>)

MmioAccess ==
  /\ Ready("mmio")
  /\ ept' = MapAt(ept, MMIO_GFN, 1, "mmio", 0)
  /\ ToUserspace(<<Plain("KVM_PAGE_FAULT", ept), Plain("MARK_MMIO_SPTE", ept)>>)

-----------------------------------------------------------------------------
(* Another virtual machine on the host, and a ring that fills up. *)
OtherVm ==
  /\ bpf' = kvm_exit_snapshot(kvm_entry_snapshot(
              observe_ioctl_enter([bpf EXCEPT !.out = <<>>], "other", ept.tree, <<"KVM_RUN">>),
              "other", ept.tree), "other", ept.tree)
  /\ happened' = <<>>
  /\ UNCHANGED <<vmm, guest, slots, active_mem, thp, host, page, ept, count, expected, faults>>

RingTurns ==
  /\ bpf' = [bpf EXCEPT !.full = ~@, !.out = <<>>]
  /\ happened' = <<>>
  /\ UNCHANGED <<vmm, guest, slots, active_mem, thp, host, page, ept, count, expected, faults>>

VmmStep ==
  \/ \E ok \in BOOLEAN :
       \/ SetUp(ok) \/ SetUpRegion(ok) \/ KvmRun(ok) \/ DontNeed(ok) \/ ClearDirtyLog(ok)
       \/ MmapHuge(ok) \/ Align(ok) \/ HugePage(ok)
       \/ \E eager \in BOOLEAN : SlotStep(ok, eager)
  \/ Loader \/ ControlBegin \/ Memcpy \/ Switch \/ ControlEnd \/ Exit

GuestStep == Cpuid \/ Write \/ Out \/ MmioAccess \/ \E g \in Backed : PageFault(g)

EptNext == VmmStep \/ GuestStep \/ OtherVm \/ RingTurns

(* The kernel schedules the VMM thread and the guest in it; the loader gets to main(). *)
EptSpec ==
  /\ EptInit /\ [][EptNext]_ept_vars
  /\ WF_ept_vars(VmmStep \/ GuestStep)
  /\ SF_ept_vars(Loader /\ vmm'.pc = "setup")

-----------------------------------------------------------------------------
(* Properties *)

(* The records of ept.bpf.c are those of what happened, in order: each return has the id,
   the command and the arguments of its call, a region has the command it is made by, and
   the walk of every sampled frame is what the EPT translated at that moment, whatever a
   freed table still holds.  What does not fit is counted. *)
EptTraceExact == ~bpf.lost => bpf.out = happened

(* Whatever commands have run, the guest finds its code and what it last wrote, but for the
   page that command 1 discards: that one loses its contents by design (MADV_DONTNEED of
   anonymous memory) and reads as zero until the guest writes it again.  Moving the slot to
   the replacement, dirty logging and splitting the large page lose nothing, and no command
   leaves a translation to a frame that is no longer the one behind the slot: after the
   discard, too, the guest never sees the old contents. *)
GuestMemorySurvives ==
  vmm.pc = "guest" =>
    \A g \in DOMAIN expected :
      /\ SlotOf(g) \in DOMAIN slots
      /\ expected[g] = IF ept.flat[g].mapped THEN page[ept.flat[g].pfn]
                       ELSE Contents(slots[SlotOf(g)].mem, PageOf(g))

(* Without a failing call the guest reaches port 0x82: no sequence of regions that the
   commands ask KVM for is refused. *)
EptRunCompletes == <>(vmm.pc = "done" \/ faults > 0)
=============================================================================
