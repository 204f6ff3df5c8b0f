------------------------------- MODULE ToyIo -------------------------------
(***************************************************************************)
(* The virt-io experiment: the toy VMM and its device (vmm.c, device.h),   *)
(* the guest that drives it (guest.S), and the BPF programs that watch     *)
(* them (IoProbes).  One vCPU, so the guest runs only while the VMM thread *)
(* is inside KVM_RUN.  KVM's irqchip is external: an edge on GSI 4 or an   *)
(* MSI sets a bit of the LAPIC's IRR, which is delivered before the next   *)
(* instruction if the guest's IF is set.  With the irqchip in the kernel a *)
(* halted vCPU waits there and KVM_RUN does not return.                    *)
(*                                                                         *)
(* happened is the truth about the last step: the records an observer      *)
(* without maps or limits would write of it.  bpf.out is what the BPF      *)
(* programs wrote.                                                         *)
(***************************************************************************)
EXTENDS IoProbes

CONSTANTS Others,      \* vCPU threads of other virtual machines
          MaxFaults    \* system calls that fail

ASSUME ToyAssumption ==
  "vmm" \notin Others /\ IsFiniteSet(Others) /\ MaxFaults \in Nat

VARIABLES
  vmm,       \* where main() is, and the call of the set-up it is at
  run,       \* the exit KVM_RUN reported
  dev,       \* struct toy_device
  ram,       \* what the two DMA buffers in guest RAM hold
  guest,     \* program counter, place in the ISR, IF, irq_count, halted
  irq,       \* GSI level, IRR and ISR of the LAPIC
  apicv,     \* LAPIC accesses and injections cause no exit
  count,     \* ioctls, VM exits and commands so far
  happened, bpf, faults

machine  == <<vmm, run, dev, ram, guest, irq, apicv, count, faults>>
toy_vars == <<machine, happened, bpf>>

DEVICE_VECTOR == 64
MSI_VECTOR    == 65
Commands == {"IRQ_ONLY", "DMA_TO_DEVICE", "DMA_FROM_DEVICE", "MSI_ONLY"}

(* The calls main() makes before its loop, in order; those that are no ioctl leave no record. *)
Calls == <<"open", "KVM_GET_API_VERSION", "KVM_CHECK_EXTENSION", "KVM_CREATE_VM",
           "KVM_CREATE_IRQCHIP", "mmap", "fopen", "KVM_SET_USER_MEMORY_REGION",
           "KVM_CREATE_VCPU", "KVM_GET_VCPU_MMAP_SIZE", "mmap", "KVM_GET_SREGS",
           "KVM_SET_SREGS", "KVM_SET_REGS">>
IsIoctl(c) == c \notin {"open", "mmap", "fopen"}

(* guest.S from protected_mode on. *)
Op(op, arg) == [op |-> op, arg |-> arg]
Program == <<
  Op("apic", "setup"), Op("marker", "APIC_READY"), Op("if", "sti"),                     \* A
  Op("command", "IRQ_ONLY"), Op("wait", 1),                                             \* B
  Op("if", "cli"), Op("command", "IRQ_ONLY"), Op("marker", "IRQ_PENDING_IF0"),
  Op("if", "sti"), Op("wait", 2),                                                       \* C
  Op("marker", "MSI"), Op("command", "MSI_ONLY"), Op("wait", 3),                        \* D
  Op("gpa", "src"), Op("command", "DMA_TO_DEVICE"), Op("wait", 4),
  Op("gpa", "dst"), Op("command", "DMA_FROM_DEVICE"), Op("wait", 5), Op("verify", "dst"), \* E
  Op("done", "DONE_PORT") >>

ToyInit ==
  /\ vmm = [pc |-> "setup", i |-> 1]
  /\ run = <<"none">>
  /\ dev = [command |-> "none", status |-> "idle", dma_gpa |-> "code", buffer |-> "device pattern"]
  /\ ram = [code |-> "code", src |-> "source bytes", dst |-> "zeros"]
  /\ guest = [pc |-> 1, isr |-> 0, if |-> FALSE, irq_count |-> 0, halted |-> FALSE]
  /\ irq = [line |-> 0, irr |-> {}, isr |-> {}]
  /\ apicv \in BOOLEAN
  /\ count = [calls |-> 0, exits |-> 0, ops |-> 0]
  /\ happened = <<>> /\ bpf = Loaded(IoMaps)
  /\ faults = 0

-----------------------------------------------------------------------------
(* The hooks a step fires, in order.  An event is the hook, what the hook can see, and
   the call id and arguments a true record has. *)
Ev(hook, see, call, args) == [hook |-> hook, see |-> see, call |-> call, args |-> args]
Plain(hook) == Ev(hook, <<>>, 0, <<>>)

Hook(b, e) ==
  CASE e.hook = "KVM_ENTRY" -> kvm_entry_snapshot(b, "vmm")
    [] e.hook = "KVM_EXIT" -> kvm_exit_snapshot(b, "vmm")
    [] e.hook = "KVM_USERSPACE_EXIT" -> kvm_userspace_exit_snapshot(b, "vmm")
    [] e.hook = "KVM_APIC" -> kvm_apic_snapshot(b, "vmm")
    [] e.hook = "KVM_APIC_ACCEPT_IRQ" -> kvm_apic_accept_irq_snapshot(b, "vmm")
    [] e.hook = "KVM_INJ_VIRQ" -> kvm_inj_virq_snapshot(b, "vmm")
    [] e.hook = "KVM_IOAPIC_SET_IRQ" -> kvm_ioapic_set_irq_snapshot(b, "vmm", e.see)
    [] e.hook = "KVM_MSI_SET_IRQ" -> kvm_msi_set_irq_snapshot(b, "vmm", e.see)
    [] e.hook = "KVM_EOI" -> kvm_eoi_snapshot(b, "vmm")
    [] e.hook = "SYS_ENTER_IOCTL" -> sys_enter_ioctl_snapshot(b, "vmm", e.see)
    [] e.hook = "SYS_EXIT_IOCTL" -> sys_exit_ioctl_snapshot(b, "vmm")
    [] e.hook = "DEVICE_MMIO_WRITE" -> device_mmio_write(b, "vmm", e.see)
    [] e.hook = "DEVICE_EXECUTE_COMMAND" -> device_execute_command(b, "vmm", e.see)
    [] e.hook = "DEVICE_EXECUTE_COMMAND_RETURN" -> device_execute_command_return(b, "vmm", e.see)
    [] e.hook = "DEVICE_DMA_TRANSFER" -> device_dma_transfer_entry(b, "vmm", e.see)
    [] e.hook = "DEVICE_DMA_TRANSFER_RETURN" -> device_dma_transfer_return(b, "vmm")

(* op is the command in progress during the step, 0 if there is none. *)
Fire(op, events) ==
  /\ happened' = [n \in DOMAIN events |->
       [event |-> events[n].hook, vmexit |-> count'.exits, op |-> op,
        call |-> events[n].call, args |-> events[n].args]]
  /\ bpf' = RunHooks(Hook, [bpf EXCEPT !.out = <<>>], events)

(* One whole ioctl of main(), with what KVM does in it. *)
Ioctl(request, inside) ==
  <<Ev("SYS_ENTER_IOCTL", <<request>>, count.calls + 1, <<request>>)>> \o inside
    \o <<Ev("SYS_EXIT_IOCTL", <<>>, count.calls + 1, <<request>>)>>

Fault(ok) == faults' = faults + (IF ok THEN 0 ELSE 1) /\ faults' <= MaxFaults

-----------------------------------------------------------------------------
(* vmm.c *)

(* Every call before the loop ends main() if it fails. *)
SetUp(ok) ==
  LET c == Calls[vmm.i]
  IN /\ vmm.pc = "setup"
     /\ Fault(ok)
     /\ vmm' = CASE ~ok -> [vmm EXCEPT !.pc = "failed"]
                 [] ok /\ vmm.i = Len(Calls) -> [vmm EXCEPT !.pc = "loop"]
                 [] OTHER -> [vmm EXCEPT !.i = @ + 1]
     /\ count' = [count EXCEPT !.calls = @ + (IF IsIoctl(c) THEN 1 ELSE 0)]
     /\ Fire(0, IF IsIoctl(c) THEN Ioctl(c, <<>>) ELSE <<>>)
     /\ UNCHANGED <<run, dev, ram, guest, irq, apicv>>

KvmRun(ok) ==
  /\ vmm.pc = "loop"
  /\ Fault(ok)
  /\ vmm' = [vmm EXCEPT !.pc = IF ok THEN "guest" ELSE "failed"]
  /\ count' = [count EXCEPT !.calls = @ + 1]
  /\ Fire(0, IF ok THEN <<Ev("SYS_ENTER_IOCTL", <<"KVM_RUN">>, count.calls + 1, <<"KVM_RUN">>),
                          Plain("KVM_ENTRY")>>
             ELSE Ioctl("KVM_RUN", <<>>))
  /\ UNCHANGED <<run, dev, ram, guest, irq, apicv>>

device_mmio_read ==
  /\ vmm.pc = "exit" /\ run = <<"mmio", "read", "REG_STATUS">>
  /\ vmm' = [vmm EXCEPT !.pc = "loop"]
  /\ UNCHANGED <<run, dev, ram, guest, irq, apicv, count, faults>>
  /\ Fire(0, <<>>)

(* DMA_GPA and IRQ_ACK; COMMAND is the next action. *)
RegisterWrite ==
  /\ vmm.pc = "exit" /\ run[1] = "mmio" /\ run[2] = "write" /\ run[3] # "REG_COMMAND"
  /\ dev' = CASE run[3] = "REG_DMA_GPA" -> [dev EXCEPT !.dma_gpa = run[4]]
              [] run[3] = "REG_IRQ_ACK" -> [dev EXCEPT !.status = IF @ = "DONE" THEN "idle" ELSE @]
  /\ vmm' = [vmm EXCEPT !.pc = "loop"]
  /\ UNCHANGED <<run, ram, guest, irq, apicv, count, faults>>
  /\ Fire(0, <<Ev("DEVICE_MMIO_WRITE", <<run[3], run[4]>>, 0, <<run[3], run[4]>>)>>)

IsDma(c) == c \in {"DMA_TO_DEVICE", "DMA_FROM_DEVICE"}

(* The copy, inside guest RAM or not at all. *)
device_dma_transfer(c, d, r) ==
  IF d.dma_gpa \notin DOMAIN r THEN [dev |-> d, ram |-> r, ret |-> -1]
  ELSE [dev |-> IF c = "DMA_TO_DEVICE" THEN [d EXCEPT !.buffer = r[d.dma_gpa]] ELSE d,
        ram |-> IF c = "DMA_FROM_DEVICE" THEN [r EXCEPT ![d.dma_gpa] = d.buffer] ELSE r,
        ret |-> 0]

DmaEvents(c) ==
  LET a == <<c, dev.dma_gpa>>
  IN IF IsDma(c) THEN <<Ev("DEVICE_DMA_TRANSFER", a, 0, a),
                        Ev("DEVICE_DMA_TRANSFER_RETURN", <<>>, 0, a)>> ELSE <<>>

(* Mutant: an MSI command goes on to the legacy line. *)
CommandWriteLegacy ==
  LET c == run[4]
      copied == device_dma_transfer(c, [dev EXCEPT !.command = c], ram)
  IN /\ vmm.pc = "exit" /\ run[1] = "mmio" /\ run[2] = "write" /\ run[3] = "REG_COMMAND"
     /\ dev' = [copied.dev EXCEPT !.status = "DONE"] /\ ram' = copied.ram
     /\ count' = [count EXCEPT !.ops = @ + 1]
     /\ vmm' = [vmm EXCEPT !.pc = IF c = "MSI_ONLY" THEN "return" ELSE "assert"]
     /\ Fire(count'.ops, <<Ev("DEVICE_MMIO_WRITE", <<"REG_COMMAND", c>>, 0, <<"REG_COMMAND", c>>),
                           Ev("DEVICE_EXECUTE_COMMAND", <<c>>, 0, <<c>>)>> \o DmaEvents(c))
     /\ UNCHANGED <<run, guest, irq, apicv, faults>>

(* device_mmio_write() of COMMAND and device_execute_command() up to the interrupt. *)
CommandWrite ==
  LET c == run[4]
      d == [dev EXCEPT !.command = c, !.status = "BUSY"]
      copied == IF IsDma(c) THEN device_dma_transfer(c, d, ram)
                ELSE [dev |-> d, ram |-> ram, ret |-> IF c \in Commands THEN 0 ELSE -1]
  IN /\ vmm.pc = "exit" /\ run[1] = "mmio" /\ run[2] = "write" /\ run[3] = "REG_COMMAND"
     /\ dev' = [copied.dev EXCEPT !.status = IF copied.ret = 0 THEN "DONE" ELSE "ERROR"]
     /\ ram' = copied.ram
     /\ count' = [count EXCEPT !.ops = @ + 1]
     /\ vmm' = [vmm EXCEPT !.pc = CASE copied.ret # 0 -> "return"
                                    [] copied.ret = 0 /\ c = "MSI_ONLY" -> "msi"
                                    [] OTHER -> "assert"]
     /\ Fire(count'.ops, <<Ev("DEVICE_MMIO_WRITE", <<"REG_COMMAND", c>>, 0, <<"REG_COMMAND", c>>),
                           Ev("DEVICE_EXECUTE_COMMAND", <<c>>, 0, <<c>>)>> \o DmaEvents(c))
     /\ UNCHANGED <<run, guest, irq, apicv, faults>>

(* The two KVM_IRQ_LINE calls; a failure is printed and nothing else.  The IOAPIC entry is
   edge-triggered: only a rising edge reaches the LAPIC. *)
device_raise_legacy_irq(level, ok) ==
  LET edge == ok /\ level = 1 /\ irq.line = 0
      told == <<Ev("KVM_IOAPIC_SET_IRQ", <<"rte 4">>, 0, <<"rte 4">>)>>
      inside == CASE ~ok -> <<>>
                  [] edge -> told \o <<Plain("KVM_APIC_ACCEPT_IRQ")>>
                  [] OTHER -> told
  IN /\ vmm.pc = (IF level = 1 THEN "assert" ELSE "deassert")
     /\ Fault(ok)
     /\ irq' = [irq EXCEPT !.line = IF ok THEN level ELSE @,
                           !.irr = @ \cup (IF edge THEN {DEVICE_VECTOR} ELSE {})]
     /\ vmm' = [vmm EXCEPT !.pc = IF level = 1 THEN "deassert" ELSE "return"]
     /\ count' = [count EXCEPT !.calls = @ + 1]
     /\ Fire(count.ops, Ioctl("KVM_IRQ_LINE", inside))
     /\ UNCHANGED <<run, dev, ram, guest, apicv>>

(* A message that is not delivered ends the process. *)
device_signal_msi(ok) ==
  LET inside == <<Ev("KVM_MSI_SET_IRQ", <<"fee00000", "41">>, 0, <<"fee00000", "41">>),
                  Plain("KVM_APIC_ACCEPT_IRQ")>>
  IN /\ vmm.pc = "msi"
     /\ Fault(ok)
     /\ irq' = [irq EXCEPT !.irr = @ \cup (IF ok THEN {MSI_VECTOR} ELSE {})]
     /\ vmm' = [vmm EXCEPT !.pc = IF ok THEN "return" ELSE "failed"]
     /\ count' = [count EXCEPT !.calls = @ + 1]
     /\ Fire(count.ops, Ioctl("KVM_SIGNAL_MSI", IF ok THEN inside ELSE <<>>))
     /\ UNCHANGED <<run, dev, ram, guest, apicv>>

CommandReturns ==
  /\ vmm.pc = "return"
  /\ vmm' = [vmm EXCEPT !.pc = "loop"]
  /\ UNCHANGED <<run, dev, ram, guest, irq, apicv, count, faults>>
  /\ Fire(count.ops, <<Ev("DEVICE_EXECUTE_COMMAND_RETURN", <<dev.command>>, 0, <<dev.command>>)>>)

(* A marker goes back into the guest, the done port ends the run. *)
PortWrite ==
  /\ vmm.pc = "exit" /\ run[1] = "io"
  /\ vmm' = [vmm EXCEPT !.pc = IF run[2] = "DONE_PORT" THEN "done" ELSE "loop"]
  /\ UNCHANGED <<run, dev, ram, guest, irq, apicv, count, faults>>
  /\ Fire(0, <<>>)

-----------------------------------------------------------------------------
(* guest.S *)

Deliverable == guest.if /\ irq.irr # {} /\ irq.isr = {}
At(op) == /\ vmm.pc = "guest" /\ ~Deliverable
          /\ ~guest.halted /\ guest.isr = 0
          /\ Program[guest.pc].op = op
Arg == Program[guest.pc].arg

(* An exit that KVM_RUN returns with, the instruction being completed. *)
ToUserspace(exit) ==
  /\ run' = exit
  /\ vmm' = [vmm EXCEPT !.pc = "exit"]
  /\ count' = [count EXCEPT !.exits = @ + 1]
  /\ Fire(0, <<Plain("KVM_EXIT"), Plain("KVM_USERSPACE_EXIT"),
               Ev("SYS_EXIT_IOCTL", <<>>, count.calls, <<"KVM_RUN">>)>>)
  /\ UNCHANGED <<dev, ram, apicv, faults>>

(* An exit that KVM handles itself. *)
InKernel(events) ==
  /\ count' = [count EXCEPT !.exits = @ + 1]
  /\ Fire(0, <<Plain("KVM_EXIT")>> \o events)
  /\ UNCHANGED <<vmm, run, dev, ram, apicv, faults>>

NoExit == UNCHANGED <<vmm, run, dev, ram, apicv, count, faults>> /\ Fire(0, <<>>)

ApicSetup ==
  /\ At("apic")
  /\ guest' = [guest EXCEPT !.pc = @ + 1]
  /\ InKernel((IF apicv THEN <<>> ELSE <<Plain("KVM_APIC")>>) \o <<Plain("KVM_ENTRY")>>)
  /\ UNCHANGED irq

StiCli ==
  /\ At("if")
  /\ guest' = [guest EXCEPT !.if = (Arg = "sti"), !.pc = @ + 1]
  /\ NoExit /\ UNCHANGED irq

Marker ==
  /\ At("marker")
  /\ guest' = [guest EXCEPT !.pc = @ + 1]
  /\ ToUserspace(<<"io", "MARKER_PORT">>) /\ UNCHANGED irq

Command ==
  /\ At("command")
  /\ guest' = [guest EXCEPT !.pc = @ + 1]
  /\ ToUserspace(<<"mmio", "write", "REG_COMMAND", Arg>>) /\ UNCHANGED irq

SetGpa ==
  /\ At("gpa")
  /\ guest' = [guest EXCEPT !.pc = @ + 1]
  /\ ToUserspace(<<"mmio", "write", "REG_DMA_GPA", Arg>>) /\ UNCHANGED irq

WaitEnds ==
  /\ At("wait") /\ guest.irq_count = Arg
  /\ guest' = [guest EXCEPT !.pc = @ + 1]
  /\ NoExit /\ UNCHANGED irq

(* 400000 rounds without the interrupt, or a copy that differs: hlt. *)
Halt ==
  /\ \/ At("wait") /\ guest.irq_count # Arg
     \/ At("verify") /\ ram.dst # ram.src
  /\ guest' = [guest EXCEPT !.halted = TRUE]
  /\ InKernel(<<>>) /\ UNCHANGED irq

Verify ==
  /\ At("verify") /\ ram.dst = ram.src
  /\ guest' = [guest EXCEPT !.pc = @ + 1]
  /\ NoExit /\ UNCHANGED irq

Done ==
  /\ At("done")
  /\ ToUserspace(<<"io", "DONE_PORT">>) /\ UNCHANGED <<guest, irq>>

Inject ==
  /\ vmm.pc = "guest" /\ Deliverable
  /\ \E v \in irq.irr : irq' = [irq EXCEPT !.irr = @ \ {v}, !.isr = @ \cup {v}]
  /\ guest' = [guest EXCEPT !.isr = 1, !.if = FALSE]
  /\ UNCHANGED <<vmm, run, dev, ram, apicv, count, faults>>
  /\ Fire(0, IF apicv THEN <<>> ELSE <<Plain("KVM_INJ_VIRQ")>>)

InIsr(n) == vmm.pc = "guest" /\ guest.isr = n

IsrStatus ==
  /\ InIsr(1)
  /\ guest' = [guest EXCEPT !.isr = 2, !.irq_count = @ + 1]
  /\ ToUserspace(<<"mmio", "read", "REG_STATUS">>) /\ UNCHANGED irq

IsrAck ==
  /\ InIsr(2)
  /\ guest' = [guest EXCEPT !.isr = 3]
  /\ ToUserspace(<<"mmio", "write", "REG_IRQ_ACK", "1">>) /\ UNCHANGED irq

(* Mutant: the handler returns without the EOI. *)
IsrEoiNot ==
  /\ InIsr(3)
  /\ guest' = [guest EXCEPT !.isr = 0, !.if = TRUE]
  /\ NoExit /\ UNCHANGED irq

(* EOI and iret. *)
IsrEoi ==
  /\ InIsr(3)
  /\ guest' = [guest EXCEPT !.isr = 0, !.if = TRUE]
  /\ irq' = [irq EXCEPT !.isr = {}]
  /\ IF apicv THEN NoExit ELSE InKernel(<<Plain("KVM_APIC"), Plain("KVM_EOI"), Plain("KVM_ENTRY")>>)

-----------------------------------------------------------------------------
(* Around them: other virtual machines and a ring that the observer drains too slowly. *)

OtherVcpu(o) ==
  /\ ~Has(bpf, "vmexit_counters", o)
  /\ bpf' = kvm_exit_snapshot(kvm_entry_snapshot([bpf EXCEPT !.out = <<>>], o), o)
  /\ happened' = <<>>
  /\ UNCHANGED machine

RingTurns ==
  /\ bpf' = [bpf EXCEPT !.full = ~@, !.out = <<>>]
  /\ happened' = <<>>
  /\ UNCHANGED machine

VmmStep ==
  \/ \E ok \in BOOLEAN : SetUp(ok) \/ KvmRun(ok) \/ device_signal_msi(ok)
                           \/ \E level \in 0 .. 1 : device_raise_legacy_irq(level, ok)
  \/ device_mmio_read \/ RegisterWrite \/ CommandWrite \/ CommandReturns \/ PortWrite

GuestStep ==
  \/ ApicSetup \/ StiCli \/ Marker \/ Command \/ SetGpa \/ WaitEnds \/ Verify \/ Done
  \/ Halt \/ Inject \/ IsrStatus \/ IsrAck \/ IsrEoi

ToyNext ==
  \/ VmmStep
  \/ GuestStep
  \/ \E o \in Others : OtherVcpu(o)
  \/ RingTurns

(* The kernel schedules the VMM thread, and the guest in it. *)
ToySpec == ToyInit /\ [][ToyNext]_toy_vars /\ WF_toy_vars(VmmStep \/ GuestStep)

-----------------------------------------------------------------------------
(* Properties *)

(* The records of io.bpf.c are those of what happened, in order, each with the VM exit, the
   device command and the ioctl it belongs to and with the arguments of the call that
   returns; whatever does not fit into a map or the ring is counted. *)
TraceExact == ~bpf.lost => bpf.out = happened

(* Every command of the guest is answered by exactly one interrupt, by the transport its
   command asks for, and the ISR has consumed it before the next command is written. *)
OneInterruptPerCommand ==
  /\ guest.irq_count + Cardinality(irq.irr \cup irq.isr) <= count.ops + (IF guest.isr > 1 THEN 1 ELSE 0)
  /\ vmm.pc = "loop" /\ count.ops > 0 /\ faults = 0 /\ dev.status = "DONE" /\ guest.isr = 0 =>
       irq.irr = {IF dev.command = "MSI_ONLY" THEN MSI_VECTOR ELSE DEVICE_VECTOR}

(* Without a failing system call the run reaches the done port: no interrupt is lost to the
   cli of phase C, to the edge-triggered line or to a missing EOI. *)
ToyRunCompletes == <>(vmm.pc = "done" \/ faults > 0)

(* vmm.c: "HLT is the guest's timeout fallback when an interrupt is never delivered";
   guest.S: "A failed DMA proof halts forever; the VMM treats the unexpected HLT as a failed
   run." *)
HaltEndsRun == guest.halted ~> vmm.pc = "failed"
=============================================================================
