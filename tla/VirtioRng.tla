------------------------------ MODULE VirtioRng ------------------------------
(***************************************************************************)
(* One run of experiments/virt-virtio: the guest program of guest.S, the   *)
(* VMM thread that runs it (vmm.c's KVM_RUN loop and its shutdown), and    *)
(* the backend worker thread of rng_virtqueue.c.  KVM itself (ioeventfd,   *)
(* irqfd, the PIC) is external.                                            *)
(*                                                                         *)
(* The guest and the VMM share a thread: an MMIO or port exit is served    *)
(* before the guest goes on.  The worker runs beside them from the second  *)
(* doorbell on.                                                            *)
(***************************************************************************)
EXTENDS VirtioTransport

CONSTANTS RequestCount,  \* VIRTIO_RNG_REQUEST_COUNT, the requests of phase C
          Faults         \* the calls that may fail

TotalCount == RequestCount + 1   \* VIRTIO_TOTAL_REQUEST_COUNT

SetupPlan    == <<"kick_fd", "call_fd", "ioeventfd", "irqfd", "worker">>
ShutdownPlan == <<"drop_ioeventfd", "drop_irqfd", "stop", "wake", "join", "close", "verdict">>

ASSUME RngAssumption ==
  /\ RequestCount \in Nat
  /\ 2 <= RequestCount /\ RequestCount < QueueSizeMax
  /\ Faults \subseteq {"KVM_RUN", "read", "write", "wake", "drop_ioeventfd", "drop_irqfd"}
                        \cup ToSet(SetupPlan)

VARIABLES
  pc,                  \* the guest's next operation, an index of Program
  isr,                 \* its interrupt handler's next step
  completion,          \* VIRTIO_GUEST_COMPLETION_GPA
  irq,                 \* IRQ5 is pending in the PIC
  phase,               \* the VMM: running the guest, setting up, shutting down, exited
  step,                \* its position in SetupPlan or ShutdownPlan
  held,                \* the descriptors, registrations and thread the VMM holds
  queue_notify_exits, run_result,
  kick_count,          \* the counter of kick_fd
  worker,              \* the worker's next statement group
  count,               \* what its last read of kick_fd returned
  stop, guest_kicks, guest_calls, backend_result,
  exit_code,           \* what main() returned, 2 before it returns
  faulted              \* history: the calls that have failed

vmm_vars     == <<phase, step, held, queue_notify_exits, run_result, stop, exit_code>>
guest_vars   == <<pc, isr, completion>>
backend_vars == <<worker, count, guest_kicks, guest_calls, backend_result>>
rng_vars == <<reg_vars, vmm_vars, guest_vars, backend_vars, irq, kick_count, faulted>>

-----------------------------------------------------------------------------
(* guest.S as a list of operations *)

Write(reg, v)  == [op |-> "write", reg |-> reg, v |-> v]
Read(reg, v)   == [op |-> "read", reg |-> reg, v |-> v]   \* compare with v, or fail
Do(op, v)      == [op |-> op, reg |-> "none", v |-> v]
WriteArea(a)   == << [op |-> "low", reg |-> a, v |-> Gpa[a]],
                     [op |-> "high", reg |-> a, v |-> 0] >>

PhaseA == <<Write("STATUS", {}), Read("STATUS", {}),
            Write("STATUS", {"ACKNOWLEDGE"}), Write("STATUS", {"ACKNOWLEDGE", "DRIVER"}),
            Write("DEVICE_FEATURES_SEL", 0), Read("DEVICE_FEATURES", 0),
            Write("DEVICE_FEATURES_SEL", VERSION_1_WORD),
            Read("DEVICE_FEATURES", VERSION_1_MASK),
            Write("DRIVER_FEATURES_SEL", 0), Write("DRIVER_FEATURES", 0),
            Write("DRIVER_FEATURES_SEL", VERSION_1_WORD),
            Write("DRIVER_FEATURES", VERSION_1_MASK),
            Write("STATUS", Accepted), Read("STATUS", Accepted)>>

PhaseB == <<Write("QUEUE_SEL", RNG_QUEUE), Read("QUEUE_READY", 0),
            Read("QUEUE_SIZE_MAX", QueueSizeMax), Do("clear", 0),
            Write("QUEUE_SIZE", QueueSizeMax)>>
          \o WriteArea("desc") \o WriteArea("driver") \o WriteArea("device")
          \o <<Write("QUEUE_READY", 1), Read("QUEUE_READY", 1),
               Write("STATUS", Operational), Read("STATUS", Operational)>>

(* Requests from .. to-1: prepare each, publish them together, ring once. *)
Batch(from, to) ==
  [i \in 1 .. to - from |-> Do("prepare", from + i - 1)]
  \o <<Do("publish", to), Do("notify", RNG_QUEUE)>>

Polled(from, to) ==
  <<Do("poll", to)>> \o [i \in 1 .. to - from |-> Do("reap", from + i - 1)]

PhaseC == Batch(0, 1) \o Polled(0, 1) \o Batch(1, RequestCount) \o Polled(1, RequestCount)

PhaseD == <<Do("arm_irq", 0)>> \o Batch(RequestCount, TotalCount)
          \o <<Do("wait", 0), Do("halted", 0), Do("poll", TotalCount),
               Do("reap", RequestCount), Do("success", 0)>>

Program == PhaseA \o PhaseB \o PhaseC \o PhaseD

WaitPc  == CHOOSE i \in DOMAIN Program : Program[i].op = "wait"
HaltPc  == WaitPc + 1
AwakePc == WaitPc + 2

RngInit ==
  /\ TransportInit
  /\ pc = 1 /\ isr = "none" /\ completion = 0
  /\ irq = FALSE
  /\ phase = "run" /\ step = 1 /\ held = {}
  /\ queue_notify_exits = 0 /\ run_result = 1
  /\ kick_count = 0
  /\ worker = "none" /\ count = 0
  /\ stop = FALSE /\ guest_kicks = 0 /\ guest_calls = 0 /\ backend_result = 0
  /\ exit_code = 2
  /\ faulted = {}

-----------------------------------------------------------------------------
(* The guest, run by the VMM thread *)

Fails(call) == call \in Faults /\ faulted' = faulted \cup {call}

(* The break out of the run loop. *)
Break == phase' = "shutdown" /\ step' = 1

GuestRuns(op) ==
  phase = "run" /\ isr = "none" /\ pq["vmm"].pc = "idle" /\ Program[pc].op = op

(* The guest's checks: go on, or write the failure port, which ends the run loop. *)
OrFail(ok) ==
  /\ \/ ok /\ pc' = pc + 1 /\ UNCHANGED <<phase, step>>
     \/ ~ok /\ Break /\ UNCHANGED pc
  /\ UNCHANGED <<isr, completion, held, queue_notify_exits, run_result, stop, exit_code,
                 backend_vars, irq, kick_count>>

MmioWrite(reg, v) ==
  \/ reg = "STATUS" /\ WriteStatus(v)
  \/ reg = "DEVICE_FEATURES_SEL" /\ WriteDeviceFeaturesSel(v)
  \/ reg = "DRIVER_FEATURES_SEL" /\ WriteDriverFeaturesSel(v)
  \/ reg = "DRIVER_FEATURES" /\ WriteDriverFeatures(v)
  \/ reg = "QUEUE_SEL" /\ WriteQueueSel(v)
  \/ reg = "QUEUE_SIZE" /\ WriteQueueSize(v)
  \/ reg = "QUEUE_READY" /\ WriteQueueReady(v)

GuestWrite ==
  /\ GuestRuns("write")
  /\ MmioWrite(Program[pc].reg, Program[pc].v)
  /\ OrFail(alive')

GuestWriteAddr ==
  \E half \in {"low", "high"} :
    /\ GuestRuns(half)
    /\ WriteQueueAddr(Program[pc].reg, half, Program[pc].v)
    /\ OrFail(alive')

GuestRead ==
  /\ GuestRuns("read")
  /\ OrFail(ReadRegister(Program[pc].reg) = Program[pc].v)
  /\ UNCHANGED reg_vars

(* rep stosl over the three queue pages. *)
GuestClear ==
  /\ GuestRuns("clear")
  /\ desc' = [h \in Table |-> FALSE]
  /\ avail_ring' = [s \in Table |-> 0] /\ avail_idx' = 0
  /\ used_ring' = [s \in Table |-> 0] /\ used_idx' = 0
  /\ OrFail(TRUE)
  /\ UNCHANGED <<dev_vars, alive, filled, queue_size, queue_ready, last_avail_idx, pq,
                 staged, published, returned>>

GuestPrepare ==
  /\ GuestRuns("prepare")
  /\ Prepare(Program[pc].v, "good")
  /\ OrFail(TRUE)
  /\ UNCHANGED <<dev_vars, alive>>

(* avail.idx must still be where this batch began. *)
GuestPublish ==
  LET ok == avail_idx + Len(staged) = Program[pc].v
  IN /\ GuestRuns("publish")
     /\ \/ ok /\ Publish
        \/ ~ok /\ UNCHANGED queue_vars
     /\ OrFail(ok)
     /\ UNCHANGED <<dev_vars, alive>>

(* Mutant: a doorbell that is not intercepted is served by the VMM thread as before. *)
GuestNotifyExits ==
  /\ GuestRuns("notify")
  /\ queue_notify_exits' = IF "ioeventfd" \in held THEN 2 ELSE queue_notify_exits + 1
  /\ WriteQueueNotify(Program[pc].v)
  /\ UNCHANGED <<phase, step, kick_count, pc, isr, completion, held, run_result, stop,
                 exit_code, backend_vars, irq>>

(* QueueNotify: once the ioeventfd is registered, KVM adds to kick_fd without an exit. *)
GuestNotify ==
  /\ GuestRuns("notify")
  /\ \/ /\ "ioeventfd" \in held
        /\ kick_count' = kick_count + 1
        /\ pc' = pc + 1
        /\ UNCHANGED <<reg_vars, queue_notify_exits, phase, step>>
     \/ /\ "ioeventfd" \notin held
        /\ queue_notify_exits' = queue_notify_exits + 1
        /\ WriteQueueNotify(Program[pc].v)
        /\ \/ alive' /\ UNCHANGED <<phase, step>>
           \/ ~alive' /\ Break
        /\ UNCHANGED <<kick_count, pc>>
  /\ UNCHANGED <<isr, completion, held, run_result, stop, exit_code, backend_vars, irq>>

(* process_queue() inside the exit ... *)
NotifyWork ==
  /\ phase = "run"
  /\ PqStep("vmm")
  /\ UNCHANGED <<dev_vars, alive, vmm_vars, guest_vars, backend_vars, irq, kick_count>>

(* ... after which the second doorbell starts the set-up of phase D, if phase C is
   complete. *)
PhaseCComplete == {avail_idx, used_idx, last_avail_idx} = {RequestCount}

NotifyExit ==
  LET second == queue_notify_exits = 2
  IN /\ phase = "run"
     /\ NotifyReturns
     /\ \/ /\ alive'
           /\ second => PhaseCComplete
           /\ phase' = IF second THEN "setup" ELSE "run"
           /\ step' = 1
           /\ pc' = pc + 1
        \/ /\ ~alive' \/ (second /\ ~PhaseCComplete)
           /\ Break
           /\ UNCHANGED pc
     /\ UNCHANGED <<isr, completion, held, queue_notify_exits, run_result, stop, exit_code,
                    backend_vars, irq, kick_count>>

(* Phase C polls with nobody else running, so the bounded poll sees one value. *)
GuestPoll ==
  /\ GuestRuns("poll")
  /\ OrFail(used_idx = Program[pc].v)
  /\ UNCHANGED reg_vars

GuestReap ==
  LET ok == used_ring[Program[pc].v] = Program[pc].v
  IN /\ GuestRuns("reap")
     /\ \/ ok /\ Reap
        \/ ~ok /\ UNCHANGED queue_vars
     /\ OrFail(ok)
     /\ UNCHANGED <<dev_vars, alive>>

(* The IDT gate, the PICs, the completion flag; interrupts stay disabled. *)
GuestArmIrq ==
  /\ GuestRuns("arm_irq")
  /\ completion' = 0
  /\ pc' = pc + 1
  /\ UNCHANGED <<reg_vars, vmm_vars, isr, backend_vars, irq, kick_count>>

(* cli; test; sti; hlt: an interrupt is taken only in the hlt. *)
GuestWait ==
  /\ GuestRuns("wait")
  /\ \/ completion = 0 /\ pc' = HaltPc /\ UNCHANGED <<phase, step>>
     \/ completion = 1 /\ pc' = AwakePc /\ UNCHANGED <<phase, step>>
     \/ completion = 2 /\ Break /\ UNCHANGED pc
  /\ UNCHANGED <<reg_vars, isr, completion, held, queue_notify_exits, run_result, stop,
                 exit_code, backend_vars, irq, kick_count>>

TakeIrq ==
  /\ GuestRuns("halted")
  /\ irq
  /\ irq' = FALSE
  /\ isr' = "status"
  /\ UNCHANGED <<reg_vars, vmm_vars, pc, completion, backend_vars, kick_count>>

GuestSuccess ==
  /\ GuestRuns("success")
  /\ run_result' = 0
  /\ Break
  /\ UNCHANGED <<reg_vars, guest_vars, held, queue_notify_exits, stop, exit_code,
                 backend_vars, irq, kick_count>>

IsrStatus ==
  /\ phase = "run" /\ isr = "status"
  /\ \/ interrupt_status = 1 /\ isr' = "ack" /\ UNCHANGED completion
     \/ interrupt_status = 0 /\ isr' = "eoi" /\ completion' = 2
  /\ UNCHANGED <<reg_vars, vmm_vars, pc, backend_vars, irq, kick_count>>

IsrAck ==
  /\ phase = "run" /\ isr = "ack"
  /\ WriteInterruptAck(1)
  /\ completion' = 1
  /\ isr' = "eoi"
  /\ UNCHANGED <<vmm_vars, pc, backend_vars, irq, kick_count>>

(* Mutant: the handler returns into the hlt. *)
IsrReturnAsleep ==
  /\ phase = "run" /\ isr = "eoi"
  /\ isr' = "none"
  /\ pc' = HaltPc
  /\ UNCHANGED <<reg_vars, vmm_vars, completion, backend_vars, irq, kick_count>>

(* iret continues after the hlt, with the jump back to the test. *)
IsrReturn ==
  /\ phase = "run" /\ isr = "eoi"
  /\ isr' = "none"
  /\ pc' = WaitPc
  /\ UNCHANGED <<reg_vars, vmm_vars, completion, backend_vars, irq, kick_count>>

(* KVM_RUN returns an error, for instance because of a signal. *)
KvmRunFails ==
  /\ Fails("KVM_RUN")
  /\ phase = "run" /\ pq["vmm"].pc = "idle"
  /\ Break
  /\ UNCHANGED <<reg_vars, guest_vars, held, queue_notify_exits, run_result, stop,
                 exit_code, backend_vars, irq, kick_count>>

-----------------------------------------------------------------------------
(* The VMM: setting up phase D, one call after the other *)

SetupStep ==
  LET s    == SetupPlan[step]
      last == step = Len(SetupPlan)
  IN /\ phase = "setup"
     /\ held' = held \cup {s}
     /\ worker' = IF s = "worker" THEN "read" ELSE worker
     /\ phase' = IF last THEN "run" ELSE "setup"
     /\ step' = IF last THEN 1 ELSE step + 1
     /\ UNCHANGED <<reg_vars, guest_vars, queue_notify_exits, run_result, stop, exit_code,
                    count, guest_kicks, guest_calls, backend_result, irq, kick_count>>

(* A failed KVM_IOEVENTFD closes kick_fd on the spot; everything else is left to the
   shutdown path. *)
SetupFails ==
  LET s == SetupPlan[step]
  IN /\ phase = "setup" /\ Fails(s)
     /\ held' = IF s = "ioeventfd" THEN held \ {"kick_fd"} ELSE held
     /\ Break
     /\ UNCHANGED <<reg_vars, guest_vars, queue_notify_exits, run_result, stop, exit_code,
                    backend_vars, irq, kick_count>>

-----------------------------------------------------------------------------
(* The VMM: shutdown *)

Started == "worker" \in held

Shutdown(s) ==
  /\ phase = "shutdown" /\ ShutdownPlan[step] = s
  /\ step' = IF s = "verdict" THEN step ELSE step + 1
  /\ phase' = IF s = "verdict" THEN "exited" ELSE "shutdown"
  /\ UNCHANGED <<reg_vars, guest_vars, queue_notify_exits, backend_vars, irq>>

(* KVM_IOEVENTFD and KVM_IRQFD with DEASSIGN, if registered. *)
DeassignOf == [ioeventfd |-> "drop_ioeventfd", irqfd |-> "drop_irqfd"]

DropRegistration ==
  \E r \in {"ioeventfd", "irqfd"} :
    /\ Shutdown(DeassignOf[r])
    /\ held' = held \ {r}
    /\ UNCHANGED <<run_result, stop, exit_code, kick_count>>

DropFails ==
  \E r \in {"ioeventfd", "irqfd"} \cap held :
    /\ Shutdown(DeassignOf[r])
    /\ Fails(DeassignOf[r])
    /\ run_result' = 1
    /\ UNCHANGED <<held, stop, exit_code, kick_count>>

(* Mutant: the worker is woken without being told to stop. *)
StoreStopNot ==
  /\ Shutdown("stop")
  /\ UNCHANGED <<stop, held, run_result, exit_code, kick_count>>

StoreStop ==
  /\ Shutdown("stop")
  /\ stop' = (stop \/ Started)
  /\ UNCHANGED <<held, run_result, exit_code, kick_count>>

WakeWorker ==
  /\ Shutdown("wake")
  /\ kick_count' = IF Started THEN kick_count + 1 ELSE kick_count
  /\ UNCHANGED <<held, run_result, stop, exit_code>>

WakeFails ==
  /\ Shutdown("wake") /\ Started
  /\ Fails("wake")
  /\ run_result' = 1
  /\ UNCHANGED <<held, stop, exit_code, kick_count>>

(* Mutant: the worker is asked to stop but not waited for. *)
JoinWorkerNot ==
  /\ Shutdown("join")
  /\ held' = held \ {"worker"}
  /\ UNCHANGED <<run_result, stop, exit_code, kick_count>>

JoinWorker ==
  /\ Started => worker = "ended"
  /\ Shutdown("join")
  /\ held' = held \ {"worker"}
  /\ UNCHANGED <<run_result, stop, exit_code, kick_count>>

CloseFds ==
  /\ Shutdown("close")
  /\ held' = held \ {"kick_fd", "call_fd"}
  /\ UNCHANGED <<run_result, stop, exit_code, kick_count>>

(* main()'s last checks, on the device, on guest memory and on the counters. *)
DeviceAsExpected ==
  status = Operational /\ Negotiated /\ queue_sel = RNG_QUEUE /\ FixedQueue /\ queue_ready = 1

RingsAsExpected ==
  /\ \A i \in 0 .. TotalCount - 1 : desc[i] /\ avail_ring[i] = i /\ used_ring[i] = i
  /\ {last_avail_idx, avail_idx, used_idx} = {TotalCount}

CountersAsExpected ==
  queue_notify_exits = 2 /\ guest_kicks = 1 /\ guest_calls = 1 /\ interrupt_status = 0

Verdict ==
  LET good == /\ run_result = 0 /\ backend_result = 0
              /\ DeviceAsExpected /\ RingsAsExpected /\ CountersAsExpected
  IN /\ Shutdown("verdict")
     /\ exit_code' = IF good THEN 0 ELSE 1
     /\ UNCHANGED <<held, run_result, stop, kick_count>>

-----------------------------------------------------------------------------
(* The backend worker *)

WorkerUnchanged == UNCHANGED <<vmm_vars, guest_vars>>

WorkerFails == worker' = "ended" /\ backend_result' = 1

WorkerRead ==
  /\ worker = "read"
  /\ kick_count > 0
  /\ count' = kick_count /\ kick_count' = 0
  /\ worker' = "woken"
  /\ UNCHANGED <<reg_vars, guest_kicks, guest_calls, backend_result, irq>>
  /\ WorkerUnchanged

WorkerReadFails ==
  /\ worker = "read"
  /\ Fails("read")
  /\ WorkerFails
  /\ UNCHANGED <<reg_vars, count, guest_kicks, guest_calls, irq, kick_count>>
  /\ WorkerUnchanged

(* The stop flag is looked at after the wake; a wake that carries more than one kick is
   an error. *)
WorkerWoken ==
  /\ worker = "woken"
  /\ \/ /\ stop
        /\ worker' = "ended"
        /\ UNCHANGED <<queue_vars, guest_kicks, backend_result>>
     \/ /\ ~stop
        /\ guest_kicks' = guest_kicks + count
        /\ \/ count = 1 /\ PqCall("worker") /\ worker' = "queue" /\ UNCHANGED backend_result
           \/ count # 1 /\ WorkerFails /\ UNCHANGED queue_vars
  /\ UNCHANGED <<dev_vars, alive, count, guest_calls, irq, kick_count>>
  /\ WorkerUnchanged

WorkerQueue ==
  /\ worker = "queue"
  /\ \/ PqStep("worker") /\ UNCHANGED <<worker, backend_result>>
     \/ /\ PqReturn("worker")
        /\ \/ pq["worker"].pc = "done" /\ worker' = "check" /\ UNCHANGED backend_result
           \/ pq["worker"].pc = "failed" /\ WorkerFails
  /\ UNCHANGED <<dev_vars, alive, count, guest_kicks, guest_calls, irq, kick_count>>
  /\ WorkerUnchanged

WorkerCheck ==
  /\ worker = "check"
  /\ \/ /\ {last_avail_idx, used_idx} = {TotalCount}
        /\ worker' = "interrupt" /\ UNCHANGED backend_result
     \/ {last_avail_idx, used_idx} # {TotalCount} /\ WorkerFails
  /\ UNCHANGED <<reg_vars, count, guest_kicks, guest_calls, irq, kick_count>>
  /\ WorkerUnchanged

(* Mutant: InterruptStatus is not raised before the call. *)
WorkerInterruptNot ==
  /\ worker = "interrupt"
  /\ worker' = "call"
  /\ UNCHANGED <<reg_vars, count, guest_kicks, guest_calls, backend_result, irq, kick_count>>
  /\ WorkerUnchanged

(* InterruptStatus first, ... *)
WorkerInterrupt ==
  /\ worker = "interrupt"
  /\ interrupt_status' = 1
  /\ worker' = "call"
  /\ UNCHANGED <<status, device_features_sel, driver_features_sel, driver_features, queue_sel,
                 queue_addr, alive, queue_vars, count, guest_kicks, guest_calls,
                 backend_result, irq, kick_count>>
  /\ WorkerUnchanged

(* ... then call_fd, which the irqfd turns into IRQ5, ... *)
WorkerCall ==
  /\ worker = "call"
  /\ irq' = (irq \/ "irqfd" \in held)
  /\ worker' = "count"
  /\ UNCHANGED <<reg_vars, count, guest_kicks, guest_calls, backend_result, kick_count>>
  /\ WorkerUnchanged

WorkerCallFails ==
  /\ worker = "call"
  /\ Fails("write")
  /\ WorkerFails
  /\ UNCHANGED <<reg_vars, count, guest_kicks, guest_calls, irq, kick_count>>
  /\ WorkerUnchanged

(* ... then the statistics, when the guest may already be past its success port. *)
WorkerCount ==
  /\ worker = "count"
  /\ guest_calls' = guest_calls + 1
  /\ worker' = "read"
  /\ UNCHANGED <<reg_vars, count, guest_kicks, backend_result, irq, kick_count>>
  /\ WorkerUnchanged

-----------------------------------------------------------------------------
GuestStep ==
  /\ \/ GuestWrite \/ GuestWriteAddr \/ GuestRead \/ GuestClear \/ GuestPrepare
     \/ GuestPublish \/ GuestNotify \/ GuestPoll \/ GuestReap \/ GuestArmIrq \/ GuestWait
     \/ TakeIrq \/ GuestSuccess \/ IsrStatus \/ IsrAck \/ IsrReturn
  /\ UNCHANGED faulted

VmmStep ==
  /\ \/ NotifyWork \/ NotifyExit \/ SetupStep \/ DropRegistration \/ StoreStop
     \/ WakeWorker \/ JoinWorker \/ CloseFds \/ Verdict
  /\ UNCHANGED faulted

WorkerStep ==
  /\ \/ WorkerRead \/ WorkerWoken \/ WorkerQueue \/ WorkerCheck \/ WorkerInterrupt
     \/ WorkerCall \/ WorkerCount
  /\ UNCHANGED faulted

FaultStep ==
  KvmRunFails \/ SetupFails \/ DropFails \/ WakeFails \/ WorkerReadFails \/ WorkerCallFails

(* The process has returned from main(). *)
Exited == phase = "exited" /\ UNCHANGED rng_vars

RngNext == GuestStep \/ VmmStep \/ WorkerStep \/ FaultStep \/ Exited

RngSpec == RngInit /\ [][RngNext]_rng_vars

-----------------------------------------------------------------------------
(* Properties *)

(* The interrupt is never ahead of what it announces: once IRQ5 is pending the used ring
   holds all the requests and InterruptStatus was raised, so the handler always finds its
   cause and the guest never takes the fail_interrupt or fail_completion exits. *)
InterruptMeansCompletion ==
  /\ completion # 2
  /\ irq \/ isr # "none" \/ completion = 1 =>
       used_idx = TotalCount /\ used_ring[RequestCount] = RequestCount
                             /\ RequestCount \in filled

(* last_avail_idx is a plain variable that two threads' process_queue() may use: they never
   do at the same time, and never while the driver resets it. *)
OneConsumer ==
  /\ pq["vmm"].pc # "idle" => worker = "none"
  /\ worker # "none" => status = Operational /\ FixedQueue /\ queue_ready = 1

(* The shutdown undoes what was set up, whichever call failed before and whichever moment the
   run loop ended at: the worker's descriptors stay open as long as it can use them; main()
   returns with nothing left behind, except a registration KVM refused to drop; and its
   verdict, which reads counters the worker writes late, is the guest's and the backend's. *)
ShutdownExact ==
  /\ worker \notin {"none", "ended"} => {"kick_fd", "call_fd", "worker"} \subseteq held
  /\ phase = "exited" =>
       /\ held \subseteq {"ioeventfd", "irqfd"}
       /\ held # {} => run_result = 1
       /\ exit_code = 0 <=> run_result = 0 /\ backend_result = 0

(* Unless a call fails, getrandom() included, the run ends, and ends well: no wake-up of the
   worker or of the halted guest is lost. *)
RunSucceeds ==
  [](faulted = {} /\ \A p \in Callers : pq[p].pc # "failed") => <>(exit_code = 0)

(* Whatever set-up or shutdown step fails, if the guest's requests fail in phase C, and if
   KVM_RUN fails at any moment, main() returns. *)
RunEnds == [](backend_result = 0 /\ "wake" \notin faulted) => <>(phase = "exited")
=============================================================================
