---------------------------- MODULE VirtioTrace ----------------------------
(***************************************************************************)
(* The run of VirtioRng seen through the probes of VirtioProbes.  Every    *)
(* step of the VMM and of its worker says which functions and system calls *)
(* it enters and leaves; the probes see each of them with its thread, and  *)
(* a stack of calls per thread remembers what was really going on.  A      *)
(* second process of the same program ("stray", left by an earlier run)    *)
(* and one of another program share the machine.                           *)
(***************************************************************************)
EXTENDS VirtioRng, VirtioProbes

VARIABLES
  virtio_bpf,   \* the state of the BPF programs
  calls         \* history: the calls in progress, their numbers, what this step should tell

trace_vars == <<rng_vars, virtio_bpf, calls>>

Threads == {"vmm", "worker", "stray", "other"}

(* What the probes can read of the process. *)
Memory == [device |-> <<status, interrupt_status, device_features_sel, driver_features_sel,
                        driver_features, queue_sel, queue_size, queue_ready, last_avail_idx,
                        queue_addr>>,
           fixed |-> queue_addr = FixedAddr,
           rings |-> <<desc, avail_ring, avail_idx, used_ring, used_idx>>,
           preview |-> 0 \in filled]

-----------------------------------------------------------------------------
(* The calls a step makes.  value: the data of an access; result: of a return. *)
Call(t, fn, a, value, u) ==
  [t |-> t, fn |-> fn, kind |-> "call", args |-> a, value |-> value, result |-> None, u |-> u]
Ret(t, fn, a, value, result, u) ==
  [t |-> t, fn |-> fn, kind |-> "return", args |-> a, value |-> value, result |-> result,
   u |-> u]

Hook(b, e) ==
  CASE e.fn = "ioctl" /\ e.kind = "call" -> observe_ioctl_enter(b, e.t, e.args)
    [] e.fn = "ioctl" /\ e.kind = "return" -> observe_ioctl_exit(b, e.t, e.result)
    [] e.fn = "do_mmio" /\ e.kind = "call" -> observe_do_mmio(b, e.t, e.args, e.value, e.u)
    [] e.fn = "do_mmio" /\ e.kind = "return" ->
         observe_do_mmio_end(b, e.t, e.args, e.value, e.result, e.u)
    [] e.fn = "process_queue" /\ e.kind = "call" -> observe_process_queue_begin(b, e.t, e.u)
    [] e.fn = "process_queue" /\ e.kind = "return" ->
         observe_process_queue_end(b, e.t, e.result, e.u)
    [] e.fn = "process_ioeventfd_kick" /\ e.kind = "call" ->
         observe_ioeventfd_kick(b, e.t, e.args, e.u)
    [] e.fn = "process_ioeventfd_kick" /\ e.kind = "return" ->
         observe_ioeventfd_kick_end(b, e.t, e.result, e.u)
    [] e.fn = "signal_irqfd_completion" /\ e.kind = "call" ->
         observe_irqfd_signal(b, e.t, e.args, e.u)
    [] OTHER -> observe_irqfd_signal_end(b, e.t, e.result, e.u)

(* The truth: a return belongs to the innermost call of its thread. *)
Class(fn) == IF fn = "ioctl" THEN "ioctl" ELSE "operation"

Record(e, call) ==
  LET returned_ok == e.kind = "return" /\ e.fn = "process_queue" /\ e.result = 0
      silent == e.fn = "ioctl"
  IN [event |-> <<e.fn, e.kind>>, t |-> e.t, id |-> call.n, args |-> call.args,
      value |-> IF e.kind = "call" /\ e.fn = "do_mmio" /\ e.args[2] = "read"
                THEN None ELSE e.value,
      result |-> e.result,
      device |-> IF silent THEN None ELSE e.u.device,
      queue |-> IF silent \/ ~e.u.fixed THEN None ELSE e.u.rings,
      preview |-> IF returned_ok THEN e.u.preview ELSE None]

Really(s, e) ==
  LET n    == s.numbers[e.t][Class(e.fn)] + 1
      call == IF e.kind = "call" THEN [fn |-> e.fn, n |-> n, args |-> e.args]
              ELSE Last(s.stack[e.t])
  IN [stack |-> [s.stack EXCEPT ![e.t] = IF e.kind = "call" THEN Append(@, call) ELSE Front(@)],
      numbers |-> IF e.kind = "call" THEN [s.numbers EXCEPT ![e.t][Class(e.fn)] = n]
                  ELSE s.numbers,
      told |-> IF e.t = "other" THEN s.told ELSE Append(s.told, Record(e, call))]

Fire(events) ==
  /\ virtio_bpf' = RunHooks(Hook, [virtio_bpf EXCEPT !.out = <<>>], events)
  /\ calls' = RunHooks(Really, [calls EXCEPT !.told = <<>>], events)

-----------------------------------------------------------------------------
KvmRunCall      == Call("vmm", "ioctl", <<"KVM_RUN">>, None, <<>>)
KvmRunRet(ret)  == Ret("vmm", "ioctl", <<>>, None, ret, <<>>)
Ioctl(name, ret) == <<Call("vmm", "ioctl", <<name>>, None, <<>>),
                      Ret("vmm", "ioctl", <<>>, None, ret, <<>>)>>
Result(ok) == IF ok THEN 0 ELSE -1

(* An access that leaves the guest: do_mmio(), and KVM_RUN again if it was accepted. *)
Access(a, value) ==
  <<KvmRunRet(0), Call("vmm", "do_mmio", a, value, Memory),
    Ret("vmm", "do_mmio", a, value, Result(alive'), Memory')>>
  \o (IF alive' THEN <<KvmRunCall>> ELSE <<>>)

(* The guest's write to the failure or the success port ends KVM_RUN for good. *)
PortExit == IF phase' = "run" THEN <<>> ELSE <<KvmRunRet(0)>>

TraceInit ==
  /\ RngInit
  /\ virtio_bpf = Hook(Loaded(VirtioMaps), KvmRunCall)
  /\ calls = Really([stack |-> [t \in Threads |-> <<>>],
                     numbers |-> [t \in Threads |-> [ioctl |-> 0, operation |-> 0]],
                     told |-> <<>>], KvmRunCall)

(* guest.S *)
SeenWrite ==
  /\ GuestWrite
  /\ Fire(Access(<<Program[pc].reg, "write">>, Program[pc].v))

SeenWriteAddr ==
  /\ GuestWriteAddr
  /\ Fire(Access(<<Program[pc].reg \o Program[pc].op, "write">>, Program[pc].v))

SeenRead ==
  /\ GuestRead
  /\ Fire(Access(<<Program[pc].reg, "read">>, ReadRegister(Program[pc].reg)) \o PortExit)

SeenIsrStatus ==
  /\ IsrStatus
  /\ Fire(Access(<<"INTERRUPT_STATUS", "read">>, interrupt_status))

SeenIsrAck == IsrAck /\ Fire(Access(<<"INTERRUPT_ACK", "write">>, 1))

(* Without an exit, or with one to the success or the failure port. *)
SeenLocally ==
  /\ \/ GuestClear \/ GuestPrepare \/ GuestPublish \/ GuestPoll \/ GuestReap \/ GuestArmIrq
     \/ GuestWait \/ TakeIrq \/ GuestSuccess \/ IsrReturn
  /\ Fire(PortExit)

NotifyArgs == <<"QUEUE_NOTIFY", "write">>

SeenNotify ==
  /\ GuestNotify
  /\ Fire(CASE "ioeventfd" \in held -> <<>>
            [] "ioeventfd" \notin held /\ alive' ->
                 <<KvmRunRet(0), Call("vmm", "do_mmio", NotifyArgs, RNG_QUEUE, Memory),
                   Call("vmm", "process_queue", <<>>, None, Memory)>>
            [] OTHER -> Access(NotifyArgs, RNG_QUEUE))

(* vmm.c *)
SeenNotifyWork == NotifyWork /\ Fire(<<>>)

SeenNotifyExit ==
  /\ NotifyExit
  /\ Fire(<<Ret("vmm", "process_queue", <<>>, None, Result(alive'), Memory'),
            Ret("vmm", "do_mmio", NotifyArgs, RNG_QUEUE, Result(alive'), Memory')>>
          \o (IF phase' = "run" THEN <<KvmRunCall>> ELSE <<>>))

Registration(s) == s \in {"ioeventfd", "irqfd"}

SeenSetup ==
  LET s == SetupPlan[step]
  IN /\ SetupStep
     /\ Fire((IF Registration(s) THEN Ioctl(s, 0) ELSE <<>>)
             \o (IF phase' = "run" THEN <<KvmRunCall>> ELSE <<>>))

SeenSetupFails ==
  LET s == SetupPlan[step]
  IN SetupFails /\ Fire(IF Registration(s) THEN Ioctl(s, -1) ELSE <<>>)

SeenDrop ==
  /\ DropRegistration
  /\ Fire(IF held' = held THEN <<>> ELSE Ioctl("drop", 0))

SeenDropFails == DropFails /\ Fire(Ioctl("drop", -1))
SeenKvmRunFails == KvmRunFails /\ Fire(<<KvmRunRet(-1)>>)
SeenShutdown ==
  (StoreStop \/ WakeWorker \/ JoinWorker \/ CloseFds \/ Verdict) /\ Fire(<<>>)

(* rng_virtqueue.c *)
KickRet(ok) == Ret("worker", "process_ioeventfd_kick", <<>>, None, Result(ok), Memory')
SignalRet(ok) == Ret("worker", "signal_irqfd_completion", <<>>, None, Result(ok), Memory')

SeenWorkerWoken ==
  LET kick == Call("worker", "process_ioeventfd_kick", <<count>>, None, Memory)
  IN /\ WorkerWoken
     /\ Fire(CASE stop -> <<>>
               [] ~stop /\ count = 1 ->
                    <<kick, Call("worker", "process_queue", <<>>, None, Memory)>>
               [] OTHER -> <<kick, KickRet(FALSE)>>)

SeenWorkerQueue ==
  LET ok == pq["worker"].pc = "done"
      returns == Ret("worker", "process_queue", <<>>, None, Result(ok), Memory')
  IN /\ WorkerQueue
     /\ Fire(CASE pq'["worker"].pc # "idle" -> <<>>
               [] pq'["worker"].pc = "idle" /\ ok -> <<returns>>
               [] OTHER -> <<returns, KickRet(FALSE)>>)

SeenWorkerCheck ==
  WorkerCheck /\ Fire(IF worker' = "ended" THEN <<KickRet(FALSE)>> ELSE <<>>)

SeenWorkerInterrupt ==
  /\ WorkerInterrupt
  /\ Fire(<<Call("worker", "signal_irqfd_completion", <<1>>, None, Memory')>>)

SeenWorkerCount == WorkerCount /\ Fire(<<SignalRet(TRUE), KickRet(TRUE)>>)
SeenWorkerCallFails == WorkerCallFails /\ Fire(<<SignalRet(FALSE), KickRet(FALSE)>>)

(* The rest of the machine.  The stray process is seen like any vmm, and its keys in the
   counter maps stay; the ioctl(2) calls of other programs leave no trace. *)
StrayCalls ==
  /\ calls.numbers["stray"].ioctl = 0
  /\ Fire(<<Call("stray", "ioctl", <<"KVM_RUN">>, None, <<>>),
            Ret("stray", "ioctl", <<>>, None, 0, <<>>),
            Call("stray", "do_mmio", <<"STATUS", "read">>, 0, Memory)>>)
  /\ UNCHANGED rng_vars

StrayReturns ==
  /\ calls.stack["stray"] # <<>>
  /\ Fire(<<Ret("stray", "do_mmio", <<"STATUS", "read">>, 0, 0, Memory)>>)
  /\ UNCHANGED rng_vars

OtherIoctl ==
  /\ calls.numbers["other"].ioctl = 0
  /\ Fire(<<Call("other", "ioctl", <<"TIOCGWINSZ">>, None, <<>>),
            Ret("other", "ioctl", <<>>, None, 0, <<>>)>>)
  /\ UNCHANGED rng_vars

RingTurns ==
  /\ virtio_bpf' = [virtio_bpf EXCEPT !.full = ~@, !.out = <<>>]
  /\ calls' = [calls EXCEPT !.told = <<>>]
  /\ UNCHANGED rng_vars

-----------------------------------------------------------------------------
SeenGuest == /\ \/ SeenWrite \/ SeenWriteAddr \/ SeenRead \/ SeenIsrStatus \/ SeenIsrAck
                \/ SeenLocally \/ SeenNotify
             /\ UNCHANGED faulted
SeenVmm == /\ \/ SeenNotifyWork \/ SeenNotifyExit \/ SeenSetup \/ SeenDrop \/ SeenShutdown
           /\ UNCHANGED faulted
SeenWorker == /\ \/ SeenWorkerWoken \/ SeenWorkerQueue \/ SeenWorkerCheck
                 \/ SeenWorkerInterrupt \/ SeenWorkerCount
                 \/ (WorkerRead \/ WorkerCall) /\ Fire(<<>>)
              /\ UNCHANGED faulted
SeenFaults == \/ SeenSetupFails \/ SeenDropFails \/ SeenKvmRunFails \/ SeenWorkerCallFails
              \/ (WorkerReadFails \/ WakeFails) /\ Fire(<<>>)
Machine == StrayCalls \/ StrayReturns \/ OtherIoctl \/ RingTurns

TraceNext == SeenGuest \/ SeenVmm \/ SeenWorker \/ SeenFaults \/ Machine

TraceSpec == TraceInit /\ [][TraceNext]_trace_vars

(* The host schedules both threads; no call is forced to fail. *)
TraceFairSpec ==
  TraceSpec /\ WF_rng_vars(GuestStep \/ VmmStep) /\ WF_rng_vars(WorkerStep)

-----------------------------------------------------------------------------
(* Properties *)

(* As long as nothing was counted as lost, the records of a step are exactly the calls and
   returns it made: each return carries the number and the arguments of its own call, though
   two threads run, process_queue() is nested in do_mmio() in one and in the kick in the
   other, calls fail at every depth, and another process of the same name is about; and each
   carries the device and the rings of that moment. *)
VirtioTraceExact == ~virtio_bpf.lost => virtio_bpf.out = calls.told
=============================================================================
