----------------------------- MODULE Session -----------------------------
(***************************************************************************)
(* One capture session of framework/runtime.py, attempt after attempt, as  *)
(* the worker of framework/cli.py runs it: the workflow of an experiment   *)
(* acquires modules, a tracefs instance, an observer and a workload, each  *)
(* with its undo on an ExitStack, collects what they saw, closes the stack *)
(* and publishes one capture.  Every call of the workflow may fail or run  *)
(* into its timeout, the processes run at their own pace, and SIGTERM or   *)
(* SIGHUP raise an exception between any two steps of the controller.      *)
(***************************************************************************)
EXTENDS Observer, SequencesExt

CONSTANTS
    Workflows,    \* the run() functions: sequences of steps
    Careless,     \* those whose observer does not notice that a write has failed
    Modules,      \* kernel modules a workflow may load
    Leftovers,    \* what the attempts before the first one here may have left behind
    MaxEvents,    \* records a workload causes
    TraceSize,    \* records the tracefs buffer holds
    MaxAttempts,  \* number of the last run of the worker; they come one after the other
    MaxSignals    \* SIGTERM and SIGHUP delivered over all attempts

VARIABLES
    attempt, workflow,
    pc,           \* where Session.execute() is
    at, phase,    \* step of the workflow, and where inside the step or callback
    stack,        \* self.stack: the resources whose undo is registered
    cb,           \* the callback that runs, already popped from the stack
    raised,       \* a callback raised while the stack is being closed
    signals,      \* signals delivered so far
    workload, term, emitted,          \* the workload, SIGTERM sent to it, records caused
    module,       \* [Modules \union Kept -> attempt that brought it in, 0 if it is not there]
    trace, tracing, stopping, drain,  \* attempt that made the instance, and its reader
    buffer, overrun, text,            \* tracefs buffer, loss, what the reader wrote
    capture,      \* self.capture.events
    staged, target, temporary,        \* events.ndjson of the scratch, of captures/, .staging-
    outcome,      \* what the command reports
    previous,     \* history: target when the attempt began
    lost          \* history: resources whose undo was never registered, cut short or failed

control_vars == <<attempt, workflow, pc, at, phase, stack, cb, raised, signals, lost>>
workload_vars == <<workload, term, emitted>>
trace_vars == <<trace, tracing, stopping, drain, buffer, overrun, text>>
file_vars == <<staged, target, temporary, outcome, previous>>
session_vars == <<observer_vars, control_vars, workload_vars, module, trace_vars, capture, file_vars>>

None == "none"
NoFile == <<>>
FixedSteps == {"trace", "observer", "workload", "vm", "gate", "wait", "boot", "vmstop", "collect",
               "swapon", "modprobe", "audit", "own", "bind", "restore"}
Steps == FixedSteps \union Modules

\* What has an undo, and what a run mounts, loads or switches on for good.
Resources == {"trace", "observer", "workload"} \union Modules
Kept == {"tracefs", "vfio-pci", "vfio_iommu_type1", "swap"}

ASSUME SessionAssumption ==
    /\ \A w \in Workflows : w \in Seq(Steps)
    /\ Modules \intersect (FixedSteps \union Kept \union {None}) = {}
    /\ \A left \in Leftovers : left \subseteq Modules \union Kept \union {"trace", "profile"}
    /\ {MaxEvents, TraceSize, MaxAttempts, MaxSignals} \subseteq Nat

(***************************************************************************)
(* A run() starts each of its collectors once and before the workload, and *)
(* collects once, when the workload it has started has been waited for or  *)
(* stopped.                                                                *)
(***************************************************************************)
ASSUME CollectAssumption == \A w \in Workflows : \A i \in DOMAIN w :
    LET Earlier(steps) == \E j \in 1..(i - 1) : w[j] \in steps
    IN  /\ w[i] \in {"trace", "observer"} =>
              /\ ~Earlier({w[i], "workload", "vm", "collect"})
              /\ \E j \in DOMAIN w : w[j] = "collect"
        /\ w[i] \in {"workload", "vm", "collect"} => ~Earlier({"collect"})
        /\ w[i] = "collect" =>
              \A j \in 1..(i - 1) :
                 w[j] \in {"workload", "vm"} => \E k \in j..(i - 1) : w[k] \in {"wait", "vmstop"}

Uses(step) == \E i \in DOMAIN workflow : workflow[i] = step

Event(kind, who, n) == [kind |-> kind, who |-> who, n |-> n]
Records(who, seq) == [i \in DOMAIN seq |-> Event("record", who, seq[i])]
Count(events, kind, who) ==
    Cardinality({i \in DOMAIN events : events[i].kind = kind /\ events[i].who = who})

WorkloadEnded == {"ok", "failed"}
WorkloadAlive == workload \notin WorkloadEnded \union {None}

\* What this attempt has brought into the machine and has not taken away yet.
Present(r) ==
    \/ r \in Modules \union Kept /\ module[r] = attempt
    \/ r = "trace" /\ trace = attempt
    \/ r = "observer" /\ ObserverAlive
    \/ r = "workload" /\ WorkloadAlive

NothingPresent == \A r \in Resources : ~Present(r)

-----------------------------------------------------------------------------
(***************************************************************************)
(* Where the controller is.                                                *)
(***************************************************************************)
At(step, ph) == pc = "work" /\ at \in DOMAIN workflow /\ workflow[at] = step /\ phase = ph

Phase(ph) == phase' = ph /\ UNCHANGED <<attempt, workflow, pc, at, stack, cb, raised, signals, lost>>

NextStep ==
    /\ at' = at + 1 /\ phase' = "begin"
    /\ UNCHANGED <<attempt, workflow, pc, stack, cb, raised, signals, lost>>

\* self.stack.callback(...)
Register(r, ph) ==
    /\ stack' = Append(stack, r) /\ phase' = ph
    /\ UNCHANGED <<attempt, workflow, pc, at, cb, raised, signals, lost>>

Goto(label) ==
    /\ pc' = label /\ phase' = "begin"
    /\ UNCHANGED <<attempt, workflow, at, stack, cb, raised, signals, lost>>

\* An exception reaches execute()'s "except BaseException".
Raise(without) ==
    /\ pc' = "xclose" /\ phase' = "begin" /\ lost' = lost \union without
    /\ UNCHANGED <<attempt, workflow, at, stack, cb, raised, signals>>

lifecycle(kind, who) == capture' = Append(capture, Event(kind, who, 0))

-----------------------------------------------------------------------------
(***************************************************************************)
(* Attempt 1 is over.  It has published a capture, or it has failed and    *)
(* left something of what Leftovers allows.                                *)
(***************************************************************************)
OldCapture == <<Event("capture_started", "controller", 1), Event("record", "observer", 1),
                Event("capture_finished", "controller", 0)>>

SessionInit ==
    /\ ObserverAbsent
    /\ attempt = 1 /\ workflow = <<>>
    /\ pc = "idle" /\ at = 1 /\ phase = "begin"
    /\ stack = <<>> /\ cb = None /\ raised = FALSE /\ signals = 0
    /\ workload = None /\ term = FALSE /\ emitted = 0
    /\ lost \in Leftovers
    /\ module = [m \in Modules \union Kept |-> IF m \in lost THEN 1 ELSE 0]
    /\ trace = IF "trace" \in lost THEN 1 ELSE 0
    /\ tracing = FALSE /\ stopping = FALSE /\ drain = None
    /\ buffer = <<>> /\ overrun = FALSE /\ text = <<>>
    /\ capture = <<>> /\ staged = NoFile /\ temporary = FALSE
    /\ target = IF lost = {} THEN OldCapture ELSE NoFile
    /\ outcome = IF lost = {} THEN "published" ELSE "failed"
    /\ previous = NoFile

(***************************************************************************)
(* Session.__init__() and the head of execute().  Processes an earlier     *)
(* attempt left alive are nobody's any more; modules and the tracefs       *)
(* instance stay where they are.                                           *)
(***************************************************************************)
Begin ==
    /\ pc = "idle" /\ attempt < MaxAttempts
    /\ attempt' = attempt + 1
    /\ workflow' \in Workflows
    /\ pc' = "work" /\ at' = 1 /\ phase' = "begin"
    /\ stack' = <<>> /\ cb' = None /\ raised' = FALSE /\ lost' = {} /\ UNCHANGED signals
    /\ observer' = None /\ exiting' = FALSE /\ attached' = FALSE /\ ring' = <<>>
    /\ lab_dropped' = 0 /\ lab_failures' = 0 /\ drains' = 0 /\ err' = FALSE
    /\ out' = <<>> /\ control' = {} /\ unwritten' = FALSE
    /\ workload' = None /\ term' = FALSE /\ emitted' = 0
    /\ stopping' = FALSE /\ drain' = None /\ buffer' = <<>> /\ overrun' = FALSE /\ text' = <<>>
    /\ UNCHANGED <<module, trace, tracing>>
    /\ capture' = <<Event("capture_started", "controller", attempt')>>
    /\ staged' = NoFile /\ temporary' = FALSE /\ outcome' = None /\ previous' = target
    /\ UNCHANGED target

-----------------------------------------------------------------------------
(***************************************************************************)
(* Session.module()                                                        *)
(***************************************************************************)
\* A module found loaded is taken over instead of refused.
ModuleRefuseNot(m) ==
    /\ At(m, "begin") /\ module[m] # 0
    /\ Phase("register")
    /\ UNCHANGED <<observer_vars, workload_vars, module, trace_vars, capture, file_vars>>

ModuleRefuse(m) ==
    /\ At(m, "begin") /\ module[m] # 0
    /\ Raise({})
    /\ UNCHANGED <<observer_vars, workload_vars, module, trace_vars, capture, file_vars>>

ModuleInsert(m) ==
    /\ At(m, "begin") /\ module[m] = 0
    /\ module' = [module EXCEPT ![m] = attempt]
    /\ Phase("register")
    /\ UNCHANGED <<observer_vars, workload_vars, trace_vars, capture, file_vars>>

ModuleRegister(m) ==
    /\ At(m, "register")
    /\ stack' = Append(stack, m) /\ at' = at + 1 /\ phase' = "begin"
    /\ UNCHANGED <<attempt, workflow, pc, cb, raised, signals, lost>>
    /\ UNCHANGED <<observer_vars, workload_vars, module, trace_vars, capture, file_vars>>

-----------------------------------------------------------------------------
(***************************************************************************)
(* Commands without an undo: memory's swapon, and virt-vtd's modprobe and  *)
(* mount.  They leave alone what is there already.                         *)
(***************************************************************************)
Bring(r) == module' = [module EXCEPT ![r] = IF @ = 0 THEN attempt ELSE @]

Swapon ==
    /\ At("swapon", "begin")
    /\ Bring("swap")
    /\ NextStep
    /\ UNCHANGED <<observer_vars, workload_vars, trace_vars, capture, file_vars>>

Modprobe ==
    /\ \/ At("modprobe", "begin") /\ Bring("vfio-pci") /\ Phase("type1")
       \/ At("modprobe", "type1") /\ Bring("vfio_iommu_type1") /\ Phase("mount")
       \/ At("modprobe", "mount") /\ Bring("tracefs") /\ NextStep
    /\ UNCHANGED <<observer_vars, workload_vars, trace_vars, capture, file_vars>>

-----------------------------------------------------------------------------
(***************************************************************************)
(* Session.trace_start() and Trace.__init__(), enable(), start().          *)
(***************************************************************************)
TraceMount ==
    /\ At("trace", "begin")
    /\ Bring("tracefs")
    /\ Phase("make")
    /\ UNCHANGED <<observer_vars, workload_vars, trace_vars, capture, file_vars>>

TraceRefuse ==
    /\ At("trace", "make") /\ trace # 0
    /\ Raise({})
    /\ UNCHANGED <<observer_vars, workload_vars, module, trace_vars, capture, file_vars>>

TraceMake ==
    /\ At("trace", "make") /\ trace = 0
    /\ trace' = attempt
    /\ Phase("init")
    /\ UNCHANGED <<tracing, stopping, drain, buffer, overrun, text>>
    /\ UNCHANGED <<observer_vars, workload_vars, module, capture, file_vars>>

(***************************************************************************)
(* The first writes go wrong: __init__() closes the instance itself.  When *)
(* close() raises in turn the instance stays and has no undo.              *)
(***************************************************************************)
TraceInitFails ==
    /\ At("trace", "init")
    /\ \/ trace' = 0 /\ stopping' = TRUE /\ Raise({})
       \/ UNCHANGED trace /\ stopping' \in BOOLEAN /\ Raise({"trace"})
    /\ UNCHANGED <<tracing, drain, buffer, overrun, text>>
    /\ UNCHANGED <<observer_vars, workload_vars, module, capture, file_vars>>

TraceInit ==
    /\ At("trace", "init")
    /\ Phase("register")
    /\ UNCHANGED <<observer_vars, workload_vars, module, trace_vars, capture, file_vars>>

TraceRegister ==
    /\ At("trace", "register")
    /\ Register("trace", "enable")
    /\ UNCHANGED <<observer_vars, workload_vars, module, trace_vars, capture, file_vars>>

TraceStart ==
    /\ At("trace", "enable")
    /\ drain' = "reading" /\ tracing' = TRUE
    /\ UNCHANGED <<trace, stopping, buffer, overrun, text>>
    /\ lifecycle("collector_ready", "tracefs")
    /\ NextStep
    /\ UNCHANGED <<observer_vars, workload_vars, module, file_vars>>

(***************************************************************************)
(* The thread of Trace.start().  It ends when it was told to stop and its  *)
(* last read is a quarter of a second old.  A reader that had nothing to   *)
(* read, or did not get to run, for that long ends at once, whatever is in *)
(* the buffer by then.                                                     *)
(***************************************************************************)
DrainRead ==
    /\ drain = "reading" /\ buffer # <<>>
    /\ text' = text \o buffer /\ buffer' = <<>>
    /\ UNCHANGED <<trace, tracing, stopping, drain, overrun>>

DrainEnds ==
    /\ drain = "reading" /\ stopping
    /\ drain' = "ended"
    /\ UNCHANGED <<trace, tracing, stopping, buffer, overrun, text>>

DrainFails ==
    /\ drain = "reading"
    /\ drain' = "failed"
    /\ UNCHANGED <<trace, tracing, stopping, buffer, overrun, text>>

Drain ==
    /\ DrainRead \/ DrainEnds \/ DrainFails
    /\ UNCHANGED <<observer_vars, control_vars, workload_vars, module, capture, file_vars>>

-----------------------------------------------------------------------------
(***************************************************************************)
(* Session.observer() and Process.wait_control("LX_READY").                *)
(***************************************************************************)
ObserverStart ==
    /\ At("observer", "begin")
    /\ ObserverSpawn
    /\ Phase("register")
    /\ UNCHANGED <<workload_vars, module, trace_vars, capture, file_vars>>

ObserverRegister ==
    /\ At("observer", "register")
    /\ Register("observer", "ready")
    /\ UNCHANGED <<observer_vars, workload_vars, module, trace_vars, capture, file_vars>>

\* The workload is started without waiting for LX_READY.
ObserverIsReadyAnyway ==
    /\ At("observer", "ready")
    /\ UNCHANGED observer_vars
    /\ lifecycle("collector_ready", "observer")
    /\ NextStep
    /\ UNCHANGED <<workload_vars, module, trace_vars, file_vars>>

ObserverIsReady ==
    /\ At("observer", "ready") /\ "LX_READY" \in control
    /\ control' = control \ {"LX_READY"}
    /\ UNCHANGED <<observer, exiting, attached, ring, lab_dropped, lab_failures,
                   drains, err, out, unwritten>>
    /\ lifecycle("collector_ready", "observer")
    /\ NextStep
    /\ UNCHANGED <<workload_vars, module, trace_vars, file_vars>>

-----------------------------------------------------------------------------
(***************************************************************************)
(* Session.start_workload(), and the start of QEMU in virt-vtd's run().    *)
(***************************************************************************)
WorkloadStart ==
    /\ At("workload", "begin") \/ At("vm", "begin")
    /\ workload' = "starting" /\ term' = FALSE /\ UNCHANGED emitted
    /\ IF workflow[at] = "workload" THEN lifecycle("workload_started", "controller")
                                    ELSE UNCHANGED capture
    /\ Phase("register")
    /\ UNCHANGED <<observer_vars, module, trace_vars, file_vars>>

\* The undo goes to the other end of the stack.
WorkloadRegisterFirst ==
    /\ At("workload", "register") \/ At("vm", "register")
    /\ UNCHANGED capture
    /\ stack' = <<"workload">> \o stack /\ at' = at + 1 /\ phase' = "begin"
    /\ UNCHANGED <<attempt, workflow, pc, cb, raised, signals, lost>>
    /\ UNCHANGED <<observer_vars, workload_vars, module, trace_vars, file_vars>>

WorkloadRegister ==
    /\ At("workload", "register") \/ At("vm", "register")
    /\ IF workflow[at] = "vm" THEN lifecycle("QEMU_STARTED", "controller")
                              ELSE UNCHANGED capture
    /\ stack' = Append(stack, "workload") /\ at' = at + 1 /\ phase' = "begin"
    /\ UNCHANGED <<attempt, workflow, pc, cb, raised, signals, lost>>
    /\ UNCHANGED <<observer_vars, workload_vars, module, trace_vars, file_vars>>

(***************************************************************************)
(* The workload process: it stops itself where the workflow has a gate,    *)
(* causes records while it runs, and ends well or not.  QEMU does not end  *)
(* by itself.  SIGTERM reaches it when it runs, not while it is stopped.   *)
(***************************************************************************)
WorkloadRuns ==
    /\ workload = "starting"
    /\ workload' = IF Uses("gate") THEN "stopped" ELSE "running"
    /\ UNCHANGED <<term, emitted, buffer, overrun, ring, lab_dropped, lab_failures>>

WorkloadEnds ==
    /\ workload \in {"starting", "running"}
    /\ workload' \in IF workload = "running" /\ ~Uses("vm") THEN WorkloadEnded ELSE {"failed"}
    /\ UNCHANGED <<term, emitted, buffer, overrun, ring, lab_dropped, lab_failures>>

WorkloadTerminates ==
    /\ workload \in {"starting", "running"} /\ term
    /\ workload' = "failed"
    /\ UNCHANGED <<term, emitted, buffer, overrun, ring, lab_dropped, lab_failures>>

Emit ==
    /\ workload = "running" /\ emitted < MaxEvents
    /\ emitted' = emitted + 1
    /\ IF ~(tracing /\ trace = attempt) THEN UNCHANGED <<buffer, overrun>>
       ELSE IF Len(buffer) < TraceSize
            THEN buffer' = Append(buffer, emitted') /\ UNCHANGED overrun
            ELSE overrun' = TRUE /\ UNCHANGED buffer
    /\ lab_output(emitted') \/ lab_map_update \/ Unobserved
    /\ UNCHANGED <<workload, term>>

Workload ==
    /\ WorkloadRuns \/ WorkloadEnds \/ WorkloadTerminates \/ Emit
    /\ UNCHANGED <<observer, exiting, attached, drains, err, out, control, unwritten>>
    /\ UNCHANGED <<trace, tracing, stopping, drain, text>>
    /\ UNCHANGED <<control_vars, module, capture, file_vars>>

-----------------------------------------------------------------------------
(***************************************************************************)
(* stopped() and the SIGCONT that opens the gate.                          *)
(***************************************************************************)
OpenGate ==
    /\ At("gate", "begin") /\ workload = "stopped"
    /\ workload' = "running" /\ UNCHANGED <<term, emitted>>
    /\ NextStep
    /\ UNCHANGED <<observer_vars, module, trace_vars, capture, file_vars>>

(***************************************************************************)
(* Session.wait_workload(): it ends well.  A collector that ends before it *)
(* is noticed only if the poll sees it first (WorkFails).                  *)
(***************************************************************************)
WaitWorkload ==
    /\ At("wait", "begin") /\ workload = "ok"
    /\ lifecycle("workload_finished", "controller")
    /\ NextStep
    /\ UNCHANGED <<observer_vars, workload_vars, module, trace_vars, file_vars>>

\* virt-vtd: the guest answers over SSH and its part of the run succeeds.
GuestRuns ==
    /\ At("boot", "begin") /\ workload = "running"
    /\ lifecycle("CLEANUP_BEGIN", "controller")
    /\ NextStep
    /\ UNCHANGED <<observer_vars, workload_vars, module, trace_vars, file_vars>>

-----------------------------------------------------------------------------
(***************************************************************************)
(* Session.collect(): SIGINT, exit status, LX_DONE and LX_HEALTH, then the *)
(* records; the trace is stopped, joined, checked for loss and read.       *)
(***************************************************************************)
CollectSignal ==
    /\ At("collect", "begin")
    /\ IF ObserverAlive THEN ObserverInterrupted ELSE UNCHANGED observer_vars
    /\ Phase(IF Uses("observer") THEN "status" ELSE "trace")
    /\ UNCHANGED <<workload_vars, module, trace_vars, capture, file_vars>>

CollectObserver ==
    /\ At("collect", "status") /\ observer = "ok"
    /\ {"LX_DONE", "LX_HEALTH ok"} \subseteq control
    /\ control' = control \ {"LX_DONE", "LX_HEALTH ok"}
    /\ UNCHANGED <<observer, exiting, attached, ring, lab_dropped, lab_failures,
                   drains, err, out, unwritten>>
    /\ capture' = capture \o Records("observer", out)
                          \o <<Event("collector_finished", "observer", 0)>>
    /\ Phase("trace")
    /\ UNCHANGED <<workload_vars, module, trace_vars, file_vars>>

CollectNoTrace ==
    /\ At("collect", "trace") /\ ~Uses("trace")
    /\ NextStep
    /\ UNCHANGED <<observer_vars, workload_vars, module, trace_vars, capture, file_vars>>

TraceStop ==
    /\ At("collect", "trace") /\ Uses("trace")
    /\ tracing' = FALSE /\ stopping' = TRUE
    /\ UNCHANGED <<trace, drain, buffer, overrun, text>>
    /\ Phase("join")
    /\ UNCHANGED <<observer_vars, workload_vars, module, capture, file_vars>>

CollectTrace ==
    /\ At("collect", "join") /\ drain = "ended" /\ ~overrun
    /\ capture' = capture \o Records("tracefs", text)
                          \o <<Event("collector_finished", "tracefs", 0)>>
    /\ NextStep
    /\ UNCHANGED <<observer_vars, workload_vars, module, trace_vars, file_vars>>

(***************************************************************************)
(* Every other way a step of the workflow ends: a command or a write that  *)
(* fails, a process that ended when it should not have or with a bad       *)
(* status, a missing line, a loss counter, and every timeout.  The call    *)
(* that registers an undo cannot fail.                                     *)
(***************************************************************************)
WorkFails ==
    /\ pc = "work" /\ at \in DOMAIN workflow /\ phase \notin {"register", "init", "downed"}
    /\ ~At("vmstop", "wait")
    /\ Raise({})
    /\ UNCHANGED <<observer_vars, workload_vars, module, trace_vars, capture, file_vars>>

\* run() returns; execute() closes the stack.
WorkDone ==
    /\ pc = "work" /\ at = Len(workflow) + 1
    /\ Goto("close")
    /\ UNCHANGED <<observer_vars, workload_vars, module, trace_vars, capture, file_vars>>

-----------------------------------------------------------------------------
(***************************************************************************)
(* Process.stop(): SIGTERM, fifteen seconds, SIGKILL and an exception.     *)
(***************************************************************************)
Terminate(p) ==
    IF p = "observer"
    THEN /\ IF ObserverAlive THEN ObserverInterrupted ELSE UNCHANGED observer_vars
         /\ UNCHANGED workload_vars
    ELSE /\ term' = WorkloadAlive
         /\ UNCHANGED <<observer_vars, workload, emitted>>

Kill(p) ==
    IF p = "observer"
    THEN ObserverKilled /\ UNCHANGED workload_vars
    ELSE workload' = "failed" /\ UNCHANGED <<observer_vars, term, emitted>>

\* virt-vtd stops its virtual machine itself; the callback then finds it gone.
VmStop ==
    /\ At("vmstop", "begin")
    /\ Terminate("workload")
    /\ Phase("wait")
    /\ UNCHANGED <<module, trace_vars, capture, file_vars>>

VmStopped ==
    /\ At("vmstop", "wait") /\ ~WorkloadAlive
    /\ lifecycle("QEMU_STOPPED", "controller")
    /\ NextStep
    /\ UNCHANGED <<observer_vars, workload_vars, module, trace_vars, file_vars>>

VmKill ==
    /\ At("vmstop", "wait") /\ WorkloadAlive
    /\ Kill("workload")
    /\ Raise({})
    /\ UNCHANGED <<module, trace_vars, capture, file_vars>>

-----------------------------------------------------------------------------
(***************************************************************************)
(* ExitStack.close(), from the success path ("close") or from the handler  *)
(* ("xclose"): callbacks run last in, first out; one that raises does not  *)
(* keep the others from running.                                           *)
(***************************************************************************)
Closing == pc \in {"close", "xclose"}

PopCallback ==
    /\ Closing /\ cb = None /\ stack # <<>>
    /\ cb' = Last(stack) /\ stack' = Front(stack) /\ phase' = "begin"
    /\ UNCHANGED <<attempt, workflow, pc, at, raised, signals, lost>>
    /\ UNCHANGED <<observer_vars, workload_vars, module, trace_vars, capture, file_vars>>

Returns ==
    /\ cb' = None /\ phase' = "begin"
    /\ UNCHANGED <<attempt, workflow, pc, at, stack, raised, signals, lost>>

Raises(without) ==
    /\ cb' = None /\ phase' = "begin" /\ raised' = TRUE /\ lost' = lost \union without
    /\ UNCHANGED <<attempt, workflow, pc, at, stack, signals>>

StopSignal(p) ==
    /\ Closing /\ cb = p /\ phase = "begin"
    /\ Terminate(p)
    /\ Phase("wait")
    /\ UNCHANGED <<module, trace_vars, capture, file_vars>>

StopWait(p) ==
    /\ Closing /\ cb = p /\ phase = "wait" /\ ~Present(p)
    /\ Returns
    /\ UNCHANGED <<observer_vars, workload_vars, module, trace_vars, capture, file_vars>>

\* A process that does not answer SIGTERM is left alone.
StopKillNot(p) ==
    /\ Closing /\ cb = p /\ phase = "wait" /\ Present(p)
    /\ Raises({})
    /\ UNCHANGED <<observer_vars, workload_vars, module, trace_vars, capture, file_vars>>

\* It is waited for without a limit.
StopKillPatient(p) ==
    /\ Closing /\ cb = p /\ phase = "wait" /\ Present(p)
    /\ UNCHANGED session_vars

StopKill(p) ==
    /\ Closing /\ cb = p /\ phase = "wait" /\ Present(p)
    /\ Kill(p)
    /\ Raises({})
    /\ UNCHANGED <<module, trace_vars, capture, file_vars>>

(***************************************************************************)
(* Trace.close(): the instance can only be removed when the reader has let *)
(* go of trace_pipe.                                                       *)
(***************************************************************************)
TraceClose ==
    /\ Closing /\ cb = "trace" /\ phase = "begin"
    /\ tracing' = FALSE /\ stopping' = TRUE
    /\ Phase("wait")
    /\ UNCHANGED <<trace, drain, buffer, overrun, text>>
    /\ UNCHANGED <<observer_vars, workload_vars, module, capture, file_vars>>

TraceRemove ==
    /\ Closing /\ cb = "trace" /\ phase = "wait" /\ drain # "reading"
    /\ trace' = 0
    /\ Returns
    /\ UNCHANGED <<tracing, stopping, drain, buffer, overrun, text>>
    /\ UNCHANGED <<observer_vars, workload_vars, module, capture, file_vars>>

\* remove() of Session.module()
ModuleRemove(m) ==
    /\ Closing /\ cb = m
    /\ module' = [module EXCEPT ![m] = 0]
    /\ Returns
    /\ UNCHANGED <<observer_vars, workload_vars, trace_vars, capture, file_vars>>

\* A write to tracefs, the rmdir (the reader still reads) or rmmod fails.
CallbackFails ==
    /\ Closing /\ cb \in {"trace"} \union Modules
    /\ Raises({cb})
    /\ UNCHANGED <<observer_vars, workload_vars, module, trace_vars, capture, file_vars>>

\* What a callback raised is forgotten.
CloseDoneAnyway ==
    /\ Closing /\ cb = None /\ stack = <<>>
    /\ Goto(IF pc = "close" THEN "finish" ELSE "record")
    /\ UNCHANGED <<observer_vars, workload_vars, module, trace_vars, capture, file_vars>>

CloseDone ==
    /\ Closing /\ cb = None /\ stack = <<>>
    /\ Goto(IF pc = "close" /\ ~raised THEN "finish" ELSE "record")
    /\ UNCHANGED <<observer_vars, workload_vars, module, trace_vars, capture, file_vars>>

-----------------------------------------------------------------------------
(***************************************************************************)
(* validate() and validate_evidence(): the lifecycle is complete, nothing  *)
(* failed, something was observed, every collector that became ready has   *)
(* finished.                                                               *)
(***************************************************************************)
Collectors == {"observer", "tracefs"}

validate(events) ==
    /\ Len(events) >= 3
    /\ events[1].kind = "capture_started" /\ Last(events).kind = "capture_finished"
    /\ Count(events, "capture_failed", "controller") = 0
    /\ \E i \in DOMAIN events : events[i].kind = "record"
    /\ Count(events, "capture_started", "controller") = 1
    /\ Count(events, "capture_finished", "controller") = 1
    /\ \E c \in Collectors : Count(events, "collector_ready", c) > 0
    /\ \A c \in Collectors :
          Count(events, "collector_ready", c) = Count(events, "collector_finished", c)

\* execute(): "validated": True, "restored": True
Finish ==
    /\ pc = "finish"
    /\ lifecycle("capture_finished", "controller")
    /\ Goto("save")
    /\ UNCHANGED <<observer_vars, workload_vars, module, trace_vars, file_vars>>

\* Capture.save()
Save ==
    /\ pc = "save"
    /\ staged' = capture
    /\ Goto("validate")
    /\ UNCHANGED <<target, temporary, outcome, previous>>
    /\ UNCHANGED <<observer_vars, workload_vars, module, trace_vars, capture>>

\* publish(): what is published has been read back and validated.
Validate ==
    /\ pc = "validate" /\ validate(staged)
    /\ Goto("temporary")
    /\ UNCHANGED <<observer_vars, workload_vars, module, trace_vars, capture, file_vars>>

(***************************************************************************)
(* atomic_bytes(): a temporary file beside the target, os.replace(), and   *)
(* the fsync of the directory.                                             *)
(***************************************************************************)
WriteTemporary ==
    /\ pc = "temporary"
    /\ temporary' = TRUE
    /\ Goto("replace")
    /\ UNCHANGED <<staged, target, outcome, previous>>
    /\ UNCHANGED <<observer_vars, workload_vars, module, trace_vars, capture>>

Replace ==
    /\ pc = "replace"
    /\ target' = staged /\ temporary' = FALSE
    /\ Goto("sync")
    /\ UNCHANGED <<staged, outcome, previous>>
    /\ UNCHANGED <<observer_vars, workload_vars, module, trace_vars, capture>>

SyncDirectory ==
    /\ pc = "sync"
    /\ Goto("ownership")
    /\ UNCHANGED <<observer_vars, workload_vars, module, trace_vars, capture, file_vars>>

Publishing == pc \in {"save", "validate", "temporary", "replace", "sync"}

\* A write, the replace or an fsync fails, or validate() objects.
PublishFails ==
    /\ Publishing
    /\ temporary' = FALSE
    /\ Raise({})
    /\ UNCHANGED <<staged, target, outcome, previous>>
    /\ UNCHANGED <<observer_vars, workload_vars, module, trace_vars, capture>>

\* The handler's tail: capture_failed, save(), raise.
RecordFailure ==
    /\ pc = "record"
    /\ lifecycle("capture_failed", "controller")
    /\ staged' = capture'
    /\ outcome' = "failed"
    /\ Goto("ownership")
    /\ UNCHANGED <<target, temporary, previous>>
    /\ UNCHANGED <<observer_vars, workload_vars, module, trace_vars>>

\* cli.local_worker(): ownership() in its finally, then the command ends.
ReturnOwnership ==
    /\ pc = "ownership"
    /\ outcome' \in IF outcome = "failed" THEN {"failed"} ELSE {"published", "failed"}
    /\ Goto("idle")
    /\ UNCHANGED <<staged, target, temporary, previous>>
    /\ UNCHANGED <<observer_vars, workload_vars, module, trace_vars, capture>>

-----------------------------------------------------------------------------
(***************************************************************************)
(* signals(): SIGTERM and SIGHUP raise LabError wherever the controller    *)
(* is.  A resource that is acquired and not yet registered is then nobody's.*)
(***************************************************************************)
Delivered == signals < MaxSignals /\ signals' = signals + 1

Unregistered ==
    IF phase = "register" THEN {r \in Resources : Present(r) /\ r \notin Range(stack)} ELSE {}

SignalInWorkflow ==
    /\ pc = "work" /\ phase \notin {"init", "downed"}
    /\ Delivered
    /\ pc' = "xclose" /\ phase' = "begin" /\ lost' = lost \union Unregistered
    /\ UNCHANGED <<attempt, workflow, at, stack, cb, raised>>
    /\ UNCHANGED <<observer_vars, workload_vars, module, trace_vars, capture, file_vars>>

\* In Trace.__init__(): close() removes the instance or raises; before the try nobody calls it.
SignalInTraceInit ==
    /\ At("trace", "init")
    /\ Delivered
    /\ \/ trace' = 0 /\ stopping' = TRUE /\ UNCHANGED lost
       \/ UNCHANGED trace /\ stopping' \in BOOLEAN /\ lost' = lost \union {"trace"}
    /\ pc' = "xclose" /\ phase' = "begin"
    /\ UNCHANGED <<attempt, workflow, at, stack, cb, raised>>
    /\ UNCHANGED <<tracing, drain, buffer, overrun, text>>
    /\ UNCHANGED <<observer_vars, workload_vars, module, capture, file_vars>>

\* Inside a callback: the callback is cut short, the others still run.
SignalInCallback ==
    /\ Closing /\ cb # None
    /\ Delivered
    /\ cb' = None /\ phase' = "begin" /\ raised' = TRUE /\ lost' = lost \union {cb}
    /\ UNCHANGED <<attempt, workflow, pc, at, stack>>
    /\ UNCHANGED <<observer_vars, workload_vars, module, trace_vars, capture, file_vars>>

\* Between two callbacks: the handler closes the rest, or nobody does.
SignalInClose ==
    /\ Closing /\ cb = None
    /\ Delivered
    /\ IF pc = "close"
       THEN pc' = "xclose" /\ UNCHANGED <<stack, lost>>
       ELSE pc' = "record" /\ stack' = <<>> /\ lost' = lost \union Range(stack)
    /\ phase' = "begin"
    /\ UNCHANGED <<attempt, workflow, at, cb, raised>>
    /\ UNCHANGED <<observer_vars, workload_vars, module, trace_vars, capture, file_vars>>

SignalInPublish ==
    /\ Publishing \/ pc = "finish"
    /\ Delivered
    /\ temporary' = FALSE
    /\ pc' = "xclose" /\ phase' = "begin"
    /\ UNCHANGED <<attempt, workflow, at, stack, cb, raised, lost>>
    /\ UNCHANGED <<staged, target, outcome, previous>>
    /\ UNCHANGED <<observer_vars, workload_vars, module, trace_vars, capture>>

SignalAtEnd ==
    /\ pc \in {"record", "ownership"}
    /\ Delivered
    /\ outcome' = "failed"
    /\ pc' = IF pc = "record" THEN "ownership" ELSE "idle"
    /\ phase' = "begin"
    /\ UNCHANGED <<attempt, workflow, at, stack, cb, raised, lost>>
    /\ UNCHANGED <<staged, target, temporary, previous>>
    /\ UNCHANGED <<observer_vars, workload_vars, module, trace_vars, capture>>

Signal ==
    \/ SignalInWorkflow
    \/ SignalInTraceInit
    \/ SignalInCallback
    \/ SignalInClose
    \/ SignalInPublish
    \/ SignalAtEnd

-----------------------------------------------------------------------------
Acquire ==
    \/ \E m \in Modules : ModuleRefuse(m) \/ ModuleInsert(m) \/ ModuleRegister(m)
    \/ Swapon \/ Modprobe
    \/ TraceMount \/ TraceRefuse \/ TraceMake \/ TraceInit \/ TraceInitFails \/ TraceRegister \/ TraceStart
    \/ ObserverStart \/ ObserverRegister \/ ObserverIsReady
    \/ WorkloadStart \/ WorkloadRegister

Observe ==
    \/ OpenGate
    \/ WaitWorkload
    \/ GuestRuns
    \/ VmStop \/ VmStopped \/ VmKill
    \/ CollectSignal \/ CollectObserver \/ CollectNoTrace \/ TraceStop \/ CollectTrace

Cleanup ==
    \/ PopCallback
    \/ \E p \in {"observer", "workload"} : StopSignal(p) \/ StopWait(p) \/ StopKill(p)
    \/ TraceClose \/ TraceRemove
    \/ \E m \in Modules : ModuleRemove(m)
    \/ CallbackFails
    \/ CloseDone

Publish ==
    \/ Finish
    \/ Save
    \/ Validate
    \/ WriteTemporary
    \/ Replace
    \/ SyncDirectory
    \/ PublishFails
    \/ RecordFailure
    \/ ReturnOwnership

\* The controller inside an attempt.
Controller == Acquire \/ Observe \/ WorkFails \/ WorkDone \/ Cleanup \/ Publish

\* The processes and the reader of the trace.
Environment ==
    \/ /\ ObserverStep(workflow \notin Careless)
       /\ UNCHANGED <<control_vars, workload_vars, module, trace_vars, capture, file_vars>>
    \/ Workload
    \/ Drain

SessionNext == Begin \/ Controller \/ Environment \/ Signal

SessionSpec == SessionInit /\ [][SessionNext]_session_vars

-----------------------------------------------------------------------------
\* The published capture is the one of this attempt.
Fresh == attempt > 1 /\ target # NoFile /\ target[1].n = attempt

Seen(who) == {target[i].n : i \in {j \in DOMAIN target :
                                      target[j].kind = "record" /\ target[j].who = who}}

(***************************************************************************)
(* A capture that gets published holds every record the workload caused,   *)
(* in each of its collectors and none of them twice: the probes were in    *)
(* place before the workload ran and nothing was dropped.  Two things may  *)
(* be missing, and collect() has no way to tell: what an observer of       *)
(* Careless could not write, and the last records of the trace, still in   *)
(* the tracefs buffer when its reader ended.                               *)
(***************************************************************************)
PublishedIsComplete ==
    Fresh => /\ Uses("observer") /\ (unwritten => workflow \notin Careless) =>
                    /\ Seen("observer") = 1..emitted
                    /\ Count(target, "record", "observer") = emitted
             /\ Uses("trace") =>
                    /\ Seen("tracefs") = 1..(emitted - Len(buffer))
                    /\ Count(target, "record", "tracefs") = emitted - Len(buffer)

(***************************************************************************)
(* Whatever fails in the workflow, in a process or in another undo, and    *)
(* wherever a signal hits: what an attempt leaves behind is something that *)
(* never had an undo (Kept), something whose undo a signal kept from being *)
(* registered or from finishing, or something whose own undo failed, the   *)
(* one Trace.__init__() calls itself included.                             *)
(***************************************************************************)
LeftoverIsExplained ==
    pc = "idle" => \A r \in Resources \union Kept : Present(r) => r \in lost \union Kept

(***************************************************************************)
(* An attempt never removes a module or a trace instance another attempt   *)
(* has left: module() and Trace refuse, and the cleanup leaves it alone.   *)
(***************************************************************************)
ForeignUntouched ==
    [][ /\ trace \notin {0, attempt} => trace' = trace
        /\ \A m \in DOMAIN module : module[m] \notin {0, attempt} => module'[m] = module[m]
      ]_session_vars

(***************************************************************************)
(* README.md: "A failed run leaves the previous valid capture unchanged."  *)
(* The last step of atomic_bytes() comes after the replacement and may     *)
(* fail, and so may everything that follows it.                            *)
(***************************************************************************)
FailedRunKeepsCapture == pc = "idle" /\ outcome = "failed" => target = previous
=============================================================================
