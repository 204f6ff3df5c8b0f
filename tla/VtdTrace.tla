------------------------------ MODULE VtdTrace ------------------------------
(***************************************************************************)
(* The virt-vtd observer at work: QEMU's threads in the host's kernel, or  *)
(* the tasks and interrupts of the guest's kernel, seen through the        *)
(* programs of VtdProbes.  What the kernels do is external: each path      *)
(* names, in their order, the traced functions a call goes through.  told  *)
(* is what a complete trace of the step would hold.                        *)
(***************************************************************************)
EXTENDS VtdProbes, Integers

CONSTANTS MaxIoctls,   \* ioctl(2) calls, of all threads
          MaxRuns, MaxMaps, MaxIrqs   \* loopback tests, DMA mappings, interrupts

ASSUME VtdTraceAssumption ==
  {MaxIoctls, MaxRuns, MaxMaps, MaxIrqs} \subseteq Nat /\ "other" \notin Qemu

VARIABLES
  mode,       \* current_mode: the machine the observer runs on
  attached,   \* the optional pairs of probes that could be attached
  vtd_bpf, told,
  host,       \* per thread: the call it is in, the functions still to come
  requests,   \* the calls made, and how many of them were QEMU's and tracked
  guest

vtd_trace_vars == <<mode, attached, vtd_bpf, told, host, requests, guest>>

HostThreads == Qemu \cup {"other"}
Cpus == {"cpu 0", "cpu 1"}
Task(cpu) == IF cpu = "cpu 0" THEN <<"task", "ethtool">> ELSE <<"task", "net">>
Tasks == {Task(cpu) : cpu \in Cpus}
Optional == {"domain", "qi", "irte", "msi", "pi"}

NoCall == [cmd |-> None, id |-> 0, req |-> <<>>, path |-> <<>>, open |-> <<>>]
NoIrq  == [irq |-> None, episode |-> 0, phase |-> None, depth |-> 0]

(* The optional probes: all of them, or one pair is missing in this kernel. *)
VtdTraceInit ==
  /\ mode \in {"host", "guest"}
  /\ attached \in {o \in SUBSET Optional : Cardinality(o) >= 4 /\ (mode = "guest" => o = Optional)}
  /\ vtd_bpf = VtdLoaded /\ told = <<>>
  /\ host = [t \in HostThreads |-> NoCall] /\ requests = [made |-> 0, tracked |-> 0]
  /\ guest = [test |-> FALSE, runs |-> 0, sampled |-> 0, maps |-> 0, episodes |-> 0, irqs |-> 0,
              irq |-> [cpu \in Cpus |-> NoIrq], dma |-> [t \in Tasks |-> <<>>],
              mixed |-> FALSE]

Fire(Hook(_), expected) ==
  /\ vtd_bpf' = Hook([vtd_bpf EXCEPT !.out = <<>>])
  /\ told' = expected

-----------------------------------------------------------------------------
(* The host *)

F(fn, kind, a) == [fn |-> fn, kind |-> kind, a |-> a]
Flush == <<F("qi", "call", <<"descriptor">>), F("qi", "return", <<>>)>>

(* The functions a call goes through in the kernel; leaf: the part of the IOMMU's tables
   that changes. *)
PathOf(cmd, leaf) ==
  CASE cmd = "MAP" -> <<F("iommu_map", "", leaf)>> \o Flush
    [] cmd = "UNMAP" -> Flush \o <<F("iommu_unmap", "", leaf)>>
    [] cmd = "SET_IRQS" -> <<F("irte", "", <<>>)>> \o Flush
                           \o <<F("msi", "call", <<"message">>), F("msi", "return", <<>>),
                                F("pi", "", <<>>)>>
    [] cmd = "SET_IOMMU" -> <<F("attach", "", <<>>), F("domain", "call", <<"domain">>),
                              F("domain", "return", <<>>)>> \o Flush
    [] OTHER -> <<>>

(* The whole of a request, one that runs over its end, and one before it. *)
Leaves == {[iova |-> 1, size |-> 3], [iova |-> 2, size |-> 3], [iova |-> 0, size |-> 1]}
Good(cmd) == [cmd |-> cmd, iova |-> 1, size |-> 3, all |-> FALSE, readable |-> TRUE,
              short |-> FALSE]
Requests(cmd) ==
  {Good(cmd)}
  \cup (IF cmd \in {"MAP", "REGION"}
        THEN {[Good(cmd) EXCEPT !.readable = FALSE], [Good(cmd) EXCEPT !.short = TRUE]} ELSE {})
  \cup (IF cmd = "UNMAP" THEN {[Good(cmd) EXCEPT !.size = 0, !.all = TRUE]} ELSE {})

Commands == {"MAP", "UNMAP", "SET_IRQS", "REGION", "SET_IOMMU"}
LeavesOf(cmd) == IF cmd \in {"MAP", "UNMAP"} THEN Leaves ELSE {[iova |-> 1, size |-> 1]}

(* What a complete trace says. *)
Followed(t, cmd) == current_process_is_qemu(t) /\ is_tracked_ioctl(cmd)
Say(kind, operation, a, result, phase) ==
  [kind |-> kind, operation |-> operation, args |-> a, result |-> result, phase |-> phase]
Tell(cond, r) == IF cond THEN <<r>> ELSE <<>>
OperationOf(c) == Sample(c.req, c.id)
InRequest(c, leaf) ==
  c.req.all \/ leaf.iova .. leaf.iova + leaf.size - 1
                 \subseteq c.req.iova .. c.req.iova + c.req.size - 1

IoctlEnter(t) ==
  \E cmd \in Commands : \E a \in Requests(cmd), leaf \in LeavesOf(cmd) :
    LET tracked == requests.tracked + (IF Followed(t, cmd) THEN 1 ELSE 0)
        id == IF Followed(t, cmd) THEN tracked ELSE 0
    IN /\ mode = "host" /\ host[t].cmd = None /\ requests.made < MaxIoctls
       /\ host' = [host EXCEPT ![t] = [cmd |-> cmd, id |-> id, req |-> a,
                                       path |-> PathOf(cmd, leaf), open |-> <<>>]]
       /\ requests' = [made |-> requests.made + 1, tracked |-> tracked]
       /\ LET Hook(b) == enter_ioctl(b, t, a)
          IN Fire(Hook, Tell(Followed(t, cmd),
                             Say("IOCTL_ENTER", Sample(a, id), <<>>, None, "none")))
       /\ UNCHANGED <<mode, attached, guest>>

IoctlExit(t) ==
  LET c == host[t]
      Hook(b) == exit_ioctl(b, t, 0)
  IN /\ mode = "host" /\ c.cmd # None /\ c.path = <<>>
     /\ host' = [host EXCEPT ![t] = NoCall]
     /\ Fire(Hook, Tell(Followed(t, c.cmd),
                        Say("IOCTL_EXIT", OperationOf(c), <<>>, 0, "none")))
     /\ UNCHANGED <<mode, attached, requests, guest>>

(* The next traced function of the call: entered, or left with the arguments it was entered
   with. *)
Function(t, f) ==
  /\ mode = "host" /\ host[t].path # <<>>
  /\ f = Head(host[t].path)
  /\ host' = [host EXCEPT ![t].path = Tail(@),
                          ![t].open = IF f.kind = "call" THEN f.a ELSE @]
  /\ UNCHANGED <<mode, attached, requests, guest>>

MappingStep(t) ==
  LET c == host[t]
      f == Head(c.path)
      Hook(b) == IF f.fn = "iommu_map" THEN iommu_map(b, t, f.a) ELSE iommu_unmap(b, t, f.a)
      kind == IF f.fn = "iommu_map" THEN "IOMMU_MAP" ELSE "IOMMU_UNMAP"
  IN /\ Function(t, f) /\ f.fn \in {"iommu_map", "iommu_unmap"}
     /\ Fire(Hook, Tell(/\ Followed(t, c.cmd) /\ OperationOf(c).status = "complete"
                        /\ InRequest(c, f.a),
                        Say(kind, OperationOf(c), <<f.a.iova, f.a.size>>, None, "none")))

FlushStep(t) ==
  LET c == host[t]
      f == Head(c.path)
      Hook(b) == CASE "qi" \notin attached -> b
                   [] "qi" \in attached /\ f.kind = "call" -> host_qi_submit(b, t, f.a)
                   [] OTHER -> host_qi_complete(b, t, 0)
  IN /\ Function(t, f) /\ f.fn = "qi"
     /\ Fire(Hook, Tell(/\ "qi" \in attached /\ current_process_is_qemu(t)
                        /\ c.cmd \in {"MAP", "UNMAP"},
                        IF f.kind = "call"
                        THEN Say("QI_SUBMIT", OperationOf(c), f.a, None, "none")
                        ELSE Say("QI_COMPLETE", OperationOf(c), c.open, 0, "none")))

DomainStep(t) ==
  LET c == host[t]
      f == Head(c.path)
      Hook(b) == CASE f.fn = "attach" -> attach_device(b, t)
                   [] f.fn = "domain" /\ "domain" \notin attached -> b
                   [] f.fn = "domain" /\ "domain" \in attached /\ f.kind = "call" ->
                        host_domain_attach_enter(b, t, f.a)
                   [] OTHER -> host_domain_attach_exit(b, t, 0)
  IN /\ Function(t, f) /\ f.fn \in {"attach", "domain"}
     /\ Fire(Hook, Tell(/\ current_process_is_qemu(t)
                        /\ f.fn = "domain" => "domain" \in attached,
                        CASE f.fn = "attach" -> Say("DEVICE_ATTACH", NoOperation, <<>>, None, "none")
                          [] f.fn = "domain" /\ f.kind = "call" ->
                               Say("DOMAIN_ATTACH_ENTER", NoOperation, f.a, None, "none")
                          [] OTHER -> Say("DOMAIN_ATTACH_EXIT", NoOperation, c.open, 0, "none")))

InterruptStep(t) ==
  LET c == host[t]
      f == Head(c.path)
      Hook(b) == CASE f.fn \notin attached -> b
                   [] f.fn \in attached /\ f.fn = "irte" -> host_irte_activate(b, t)
                   [] f.fn \in attached /\ f.fn = "pi" -> host_kvm_pi_irte_update(b, t)
                   [] f.fn \in attached /\ f.fn = "msi" /\ f.kind = "call" ->
                        host_ir_msi_entry(b, t, f.a)
                   [] OTHER -> host_ir_msi_exit(b, t)
  IN /\ Function(t, f) /\ f.fn \in {"irte", "msi", "pi"}
     /\ Fire(Hook, Tell(/\ current_process_is_qemu(t) /\ f.fn \in attached
                        /\ f.kind # "call",
                        CASE f.fn = "irte" -> Say("IRTE_ACTIVATE", NoOperation, <<>>, None, "none")
                          [] f.fn = "pi" ->
                               Say("KVM_PI_IRTE_UPDATE", NoOperation, <<>>, None, "none")
                          [] OTHER -> Say("IR_MSI_MESSAGE", NoOperation, c.open, None, "none")))

HostStep ==
  \E t \in HostThreads :
    \/ IoctlEnter(t) \/ IoctlExit(t) \/ MappingStep(t) \/ FlushStep(t) \/ DomainStep(t)
    \/ InterruptStep(t)

-----------------------------------------------------------------------------
(* The guest: a task on each CPU; an interrupt runs in the context of the task below it *)

Phase(g) == IF g.test THEN "loopback_run" ELSE "none"
GuestOnly == mode = "guest" /\ UNCHANGED <<mode, attached, host, requests>>
Quiet(cpu) == guest.irq[cpu] = NoIrq /\ guest.dma[Task(cpu)] = <<>>

RunTest ==
  LET begins == ~guest.test
      Hook(b) == IF begins THEN guest_run_entry(b) ELSE guest_run_exit(b, 0)
  IN /\ GuestOnly /\ Quiet("cpu 0")
     /\ begins => guest.runs < MaxRuns
     /\ guest' = [guest EXCEPT !.test = begins, !.runs = @ + (IF begins THEN 1 ELSE 0)]
     /\ Fire(Hook, Tell(guest'.runs = 1,
                        IF begins
                        THEN Say("GUEST_RUN_ENTRY", NoOperation, <<>>, None, "loopback_run")
                        ELSE Say("GUEST_RUN_EXIT", NoOperation, <<>>, 0, "loopback_run")))

(* The task, or the handler above it, is between two mappings. *)
MayMap(cpu) ==
  Len(guest.dma[Task(cpu)]) = IF guest.irq[cpu] = NoIrq THEN 0 ELSE guest.irq[cpu].depth

DmaMapCall(cpu) ==
  LET n == guest.maps + 1
      sampled == guest.test /\ guest.sampled = 0
      Hook(b) == guest_dma_map_entry(b, Task(cpu), <<n>>)
  IN /\ GuestOnly /\ MayMap(cpu) /\ guest.maps < MaxMaps
     /\ guest' = [guest EXCEPT !.maps = n, !.dma[Task(cpu)] = Append(@, n),
                               !.sampled = IF sampled THEN n ELSE @]
     /\ Fire(Hook, Tell(sampled, Say("GUEST_DMA_MAP_ENTRY", NoOperation, <<n>>, None,
                                     "loopback_run")))

(* A mapping an interrupt makes above the sampled one returns first, in the same task. *)
DmaMapReturn(cpu) ==
  LET stack == guest.dma[Task(cpu)]
      n == Last(stack)
      Hook(b) == guest_dma_map_exit(b, Task(cpu), n)
  IN /\ GuestOnly /\ stack # <<>> /\ ~MayMap(cpu)
     /\ guest' = [guest EXCEPT !.dma[Task(cpu)] = Front(@),
                               !.mixed = @ \/ guest.sampled \in ToSet(Front(stack))]
     /\ Fire(Hook, Tell(n = guest.sampled,
                        Say("GUEST_DMA_MAP_EXIT", NoOperation, <<n>>, n, Phase(guest))))

IrqHandlerEntry(cpu) ==
  \E irq \in {"card", "disk"} :
    LET card == irq = "card"
        now == [irq |-> irq, episode |-> IF card THEN guest.episodes + 1 ELSE 0,
                phase |-> Phase(guest), depth |-> Len(guest.dma[Task(cpu)])]
        Hook(b) == guest_irq_entry(b, <<cpu, irq>>)
    IN /\ GuestOnly /\ guest.irq[cpu] = NoIrq /\ guest.irqs < MaxIrqs
       /\ guest' = [guest EXCEPT !.irqs = @ + 1, !.episodes = @ + (IF card THEN 1 ELSE 0),
                                 !.irq[cpu] = now]
       /\ Fire(Hook, Tell(card, Say("GUEST_IRQ_ENTRY", NoOperation,
                                    [episode |-> now.episode, phase |-> now.phase, irq |-> irq],
                                    None, now.phase)))

IrqHandlerExit(cpu) ==
  LET now == guest.irq[cpu]
      Hook(b) == guest_irq_exit(b, <<cpu, now.irq>>)
  IN /\ GuestOnly /\ now # NoIrq /\ MayMap(cpu)
     /\ guest' = [guest EXCEPT !.irq[cpu] = NoIrq]
     /\ Fire(Hook, Tell(now.irq = "card",
                        Say("GUEST_IRQ_EXIT", NoOperation,
                            [episode |-> now.episode, phase |-> now.phase, irq |-> now.irq],
                            None, now.phase)))

GuestKernel ==
  \/ RunTest
  \/ \E cpu \in Cpus : \/ DmaMapCall(cpu) \/ DmaMapReturn(cpu)
                       \/ IrqHandlerEntry(cpu) \/ IrqHandlerExit(cpu)

VtdRing ==
  /\ vtd_bpf' = [vtd_bpf EXCEPT !.full = ~@, !.out = <<>>] /\ told' = <<>>
  /\ UNCHANGED <<mode, attached, host, requests, guest>>

VtdTraceNext == HostStep \/ GuestKernel \/ VtdRing
VtdTraceSpec == VtdTraceInit /\ [][VtdTraceNext]_vtd_trace_vars

-----------------------------------------------------------------------------
(* Properties *)

(* As long as nothing was counted as lost, the trace is complete and true.  On the host,
   every record of a mapping, an invalidation, an attachment or a message belongs to the call
   its own thread is in and to the function it is about, though two threads of QEMU share the
   maps, one map serves three pairs of probes, any of the optional pairs may be missing, and
   other programs and untracked calls go through the same functions.  In the guest, an
   interrupt that returns is told with the number and the phase it was entered with, on its
   own CPU; the one sampled mapping is told twice, with its own address; and the phase is that
   of the moment.  Two cases of the guest are left out: a mapping made by an interrupt above
   the sampled one takes its place at the return, and from the end of a second test on the
   phase is not taken back, so that an interrupt entered then is told wrongly even when it
   returns during a third. *)
VtdTraceExact ==
  /\ ~vtd_bpf.lost
  /\ mode = "guest" => ~guest.mixed /\ (guest.runs > 1 => guest.runs = 2 /\ guest.test)
  => vtd_bpf.out = told
=============================================================================
