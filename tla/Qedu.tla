-------------------------------- MODULE Qedu --------------------------------
(***************************************************************************)
(* The qedu driver while it is bound: /dev/qedu's file operations          *)
(* (qedu_chrdev.c), the factorial job (qedu_main.c), the DMA echo job and  *)
(* its workqueue bottom half (qedu_dma.c), the hard interrupt handler      *)
(* (qedu_irq.c) and the timeout attribute (qedu_sysfs.c), interleaved with *)
(* the EDU device.                                                         *)
(*                                                                         *)
(* A step is what runs between two points at which another CPU, the        *)
(* interrupt handler, the kworker or the device can see a difference.      *)
(* Trace points and the tx/rx statistics are left out.  Every echo payload *)
(* has the same length, so a transfer replaces the buffer as a whole.      *)
(***************************************************************************)
EXTENDS Naturals, Sequences, EduDevice

CONSTANTS Tasks,      \* userspace tasks, each with its own open file
          NoTask,     \* owner of a free mutex
          MaxIo,      \* bound: calls of write(2)
          MaxAborts,  \* bound: waits ended by a signal or by the timeout
          TextLen,    \* bytes of an echo payload
          FactLen,    \* bytes of a factorial's decimal text
          Timeouts    \* values stored into timeout_ms through sysfs

ASSUME QeduAssumption ==
  /\ NoTask \notin Tasks
  /\ MaxIo \in Nat
  /\ MaxAborts \in Nat
  /\ TextLen \in Nat \ {0}
  /\ FactLen \in Nat \ {0}
  /\ Timeouts \subseteq Nat

QEDU_DEFAULT_TIMEOUT_MS == 1000
QEDU_MAX_TIMEOUT_MS == 60000

VARIABLES
  pc,             \* per task: where it is inside the file operations
  io_id,          \* per task: the id of its current write
  pos,            \* per task: the file offset *ppos
  lock,           \* qdev->lock: its owner, or NoTask
  next_io_id, active_io_id, active_engine,
  result_size, result_io_id,
  timeout_ms,
  input,          \* the number the holder of the mutex parsed, until it is submitted
  completed_events,  \* the bits set in qdev->completed_events
  dma_stage,
  wq,             \* pending items of the ordered workqueue qdev->dma_wq
  worker,         \* what the kworker is in the middle of
  irq,            \* the handler: where it is and what it read
  jobs,           \* history: the payload submitted under each io id
  clean,          \* history: device and driver were at rest when the job began
  aborts          \* history: aborted waits so far

task_vars == <<pc, io_id, pos>>
job_vars  == <<lock, next_io_id, active_io_id, active_engine, result_size,
               result_io_id, timeout_ms, input, jobs, clean, aborts>>
bh_vars   == <<completed_events, dma_stage, wq, worker, irq>>
vars      == <<task_vars, job_vars, bh_vars, edu_vars>>

Outside  == {"closed", "open"}
FactPcs  == {"fact_clear", "fact_submit", "fact_wait"}
DmaPcs   == {"dma_prepare", "dma_submit", "dma_wait"}
AbortPcs == {"dma_abort", "cancel_advance", "cancel_finish"}
HeldPcs  == {"parse"} \cup FactPcs \cup DmaPcs \cup AbortPcs

Stages   == {"IDLE", "TO_DEVICE", "FROM_DEVICE"}
Works    == {"advance", "finish"}
Queues   == {<<>>, <<"advance">>, <<"finish">>, <<"advance", "finish">>,
             <<"finish", "advance">>}
IrqState == [at : {"off", "ack", "stage", "queue"}, status : SUBSET IrqSources,
             work : Works]
IrqOff   == [at |-> "off", status |-> {}, work |-> "advance"]

TypeOK ==
  /\ EduTypeOK
  /\ pc \in [Tasks -> Outside \cup {"lock"} \cup HeldPcs]
  /\ io_id \in [Tasks -> 0..MaxIo]
  /\ pos \in [Tasks -> Nat]
  /\ lock \in Tasks \cup {NoTask}
  /\ next_io_id \in 0..MaxIo
  /\ active_io_id \in 0..MaxIo
  /\ active_engine \in {"NONE", "FACTORIAL", "DMA"}
  /\ result_size \in {0, TextLen, FactLen}
  /\ result_io_id \in 0..MaxIo
  /\ timeout_ms \in 1..QEDU_MAX_TIMEOUT_MS
  /\ input \in Numbers \cup {NoPayload}
  /\ completed_events \subseteq IrqSources
  /\ dma_stage \in Stages
  /\ wq \in Queues
  /\ worker \in {"idle", "sleep", "start", "publish"}
  /\ irq \in IrqState
  /\ jobs \in [1..MaxIo -> Payloads \cup {NoPayload}]
  /\ clean \in BOOLEAN
  /\ aborts \in 0..MaxAborts

(* qedu_alloc_device() and the file table before the first open. *)
Init ==
  /\ EduInit
  /\ pc = [t \in Tasks |-> "closed"]
  /\ io_id = [t \in Tasks |-> 0]
  /\ pos = [t \in Tasks |-> 0]
  /\ lock = NoTask
  /\ next_io_id = 0
  /\ active_io_id = 0
  /\ active_engine = "NONE"
  /\ result_size = 0
  /\ result_io_id = 0
  /\ timeout_ms = QEDU_DEFAULT_TIMEOUT_MS
  /\ input = NoPayload
  /\ completed_events = {}
  /\ dma_stage = "IDLE"
  /\ wq = <<>>
  /\ worker = "idle"
  /\ irq = IrqOff
  /\ jobs = [i \in 1..MaxIo |-> NoPayload]
  /\ clean = FALSE
  /\ aborts = 0

-----------------------------------------------------------------------------
(* File operations *)

Goto(t, from, to) == pc[t] = from /\ pc' = [pc EXCEPT ![t] = to]

qedu_open(t) ==
  /\ Goto(t, "closed", "open")
  /\ pos' = [pos EXCEPT ![t] = 0]
  /\ UNCHANGED <<io_id, job_vars, bh_vars, edu_vars>>

qedu_release(t) ==
  /\ Goto(t, "open", "closed")
  /\ UNCHANGED <<io_id, pos, job_vars, bh_vars, edu_vars>>

(* read(2): under the mutex, up to count bytes from the file's offset; zero
   bytes, so no change, once the offset has reached result_size. *)
qedu_read(t, count) ==
  /\ pc[t] = "open"
  /\ lock = NoTask
  /\ pos[t] < result_size
  /\ pos' = [pos EXCEPT ![t] = IF @ + count < result_size
                               THEN @ + count ELSE result_size]
  /\ UNCHANGED <<pc, io_id, job_vars, bh_vars, edu_vars>>

(* write(2) takes its io id before the mutex. *)
WriteEnter(t, p) ==
  /\ next_io_id < MaxIo
  /\ Goto(t, "open", "lock")
  /\ next_io_id' = next_io_id + 1
  /\ io_id' = [io_id EXCEPT ![t] = next_io_id']
  /\ jobs' = [jobs EXCEPT ![next_io_id'] = p]
  /\ UNCHANGED <<pos, lock, active_io_id, active_engine, result_size,
                 result_io_id, timeout_ms, input, clean, aborts, bh_vars, edu_vars>>

(* An empty write returns 0 and an oversized one -EMSGSIZE; both used an id. *)
WriteRejected(t) ==
  /\ pc[t] = "open"
  /\ next_io_id < MaxIo
  /\ next_io_id' = next_io_id + 1
  /\ io_id' = [io_id EXCEPT ![t] = next_io_id']
  /\ UNCHANGED <<pc, pos, lock, active_io_id, active_engine, result_size,
                 result_io_id, timeout_ms, input, jobs, clean, aborts, bh_vars,
                 edu_vars>>

(* A signal while waiting for the mutex: -ERESTARTSYS. *)
WriteInterrupted(t) ==
  /\ Goto(t, "lock", "open")
  /\ UNCHANGED <<io_id, pos, job_vars, bh_vars, edu_vars>>

Payload(t) == jobs[io_id[t]]

(* Nothing of an earlier job is left in the device, the handler or the kworker. *)
Quiescent == EduIdle /\ irq.at = "off" /\ wq = <<>> /\ worker = "idle"

(* Every write that got the mutex first forgets the previous result. *)
ForgetResult(t) ==
  /\ active_io_id' = io_id[t]
  /\ active_engine' = "NONE"
  /\ result_size' = 0

OutUnlock ==
  /\ lock' = NoTask
  /\ active_engine' = "NONE"

(* The mutex is taken and the payload copied in. *)
WriteBegin(t) ==
  /\ lock = NoTask
  /\ lock' = t
  /\ ForgetResult(t)
  /\ clean' = Quiescent
  /\ Goto(t, "lock", "parse")
  /\ buf' = Bytes(Payload(t))
  /\ UNCHANGED <<io_id, pos, next_io_id, result_io_id, timeout_ms, input, jobs, aborts,
                 bh_vars, fact_busy, fact_irq, fact_reg, dma_cmd, dma_irq,
                 edu_buf, irq_status>>

(* What kstrtou32() may make of the buffer: a number, or NoPayload if it refuses.  A result
   text or a mixture of payloads may be any number. *)
Parses(c) ==
  CASE c.kind = "zero" -> {NoPayload}
    [] c.kind \in {"bytes", "input"} -> IF c.of \in Numbers THEN {c.of} ELSE {NoPayload}
    [] OTHER -> Numbers \cup {NoPayload}

(* kstrtou32() looks at the shared buffer, which a transfer an aborted job left behind may
   have overwritten since the copy. *)
WriteParse(t) ==
  /\ input' \in Parses(buf)
  /\ Goto(t, "parse", IF input' \in Numbers THEN "fact_clear" ELSE "dma_prepare")
  /\ UNCHANGED <<io_id, pos, lock, next_io_id, active_io_id, active_engine, result_size,
                 result_io_id, timeout_ms, jobs, clean, aborts, bh_vars, edu_vars>>

(* copy_from_user() faults after a prefix: -EFAULT through out_unlock. *)
WriteFault(t) ==
  /\ lock = NoTask
  /\ Goto(t, "lock", "open")
  /\ ForgetResult(t)
  /\ buf' = Part(Payload(t))
  /\ UNCHANGED <<io_id, pos, lock, next_io_id, result_io_id, timeout_ms, input, jobs,
                 clean, aborts, bh_vars, fact_busy, fact_irq, fact_reg, dma_cmd,
                 dma_irq, edu_buf, irq_status>>

(* Mutant: result_io_id is not updated. *)
SucceedAnonymous(t, size) ==
  /\ result_size' = size
  /\ OutUnlock
  /\ UNCHANGED <<io_id, pos, next_io_id, active_io_id, result_io_id, timeout_ms, input,
                 jobs, clean, aborts>>

(* qedu_write()'s tail after a job returned 0. *)
Succeed(t, size) ==
  /\ result_size' = size
  /\ result_io_id' = io_id[t]
  /\ OutUnlock
  /\ UNCHANGED <<io_id, pos, next_io_id, active_io_id, timeout_ms, input, jobs, clean,
                 aborts>>

(* Mutant: the error path returns past out_unlock. *)
FailLocked == UNCHANGED <<lock, next_io_id, active_io_id, active_engine,
                          result_size, result_io_id, timeout_ms, input, jobs, clean>>

(* qedu_write()'s tail after a job returned an error. *)
Fail == OutUnlock /\ UNCHANGED <<next_io_id, active_io_id, result_size,
                                 result_io_id, timeout_ms, input, jobs, clean>>

(* wait_event_interruptible_timeout() returns a signal or a timeout only while
   the event bit is clear. *)
WaitAborts(event) ==
  /\ event \notin completed_events
  /\ aborts < MaxAborts
  /\ aborts' = aborts + 1

-----------------------------------------------------------------------------
(* qedu_factorial_job() *)

(* Mutant: the old completion bit survives. *)
FactorialClearNot(t) ==
  /\ Goto(t, "fact_clear", "fact_submit")
  /\ active_engine' = "FACTORIAL"
  /\ UNCHANGED <<io_id, pos, lock, next_io_id, active_io_id, result_size,
                 result_io_id, timeout_ms, input, jobs, clean, aborts, bh_vars, edu_vars>>

FactorialClear(t) ==
  /\ Goto(t, "fact_clear", "fact_submit")
  /\ active_engine' = "FACTORIAL"
  /\ completed_events' = completed_events \ {"FACTORIAL"}
  /\ UNCHANGED <<io_id, pos, lock, next_io_id, active_io_id, result_size,
                 result_io_id, timeout_ms, input, jobs, clean, aborts, dma_stage, wq,
                 worker, irq, edu_vars>>

(* Mutant: the completion interrupt is not enabled. *)
FactorialSubmitSilent(t) ==
  /\ Goto(t, "fact_submit", "fact_wait")
  /\ WriteFactorial(input)
  /\ input' = NoPayload
  /\ UNCHANGED <<io_id, pos, lock, next_io_id, active_io_id, active_engine, result_size,
                 result_io_id, timeout_ms, jobs, clean, aborts, bh_vars, fact_irq, dma_cmd, dma_irq,
                 edu_buf, irq_status, buf>>

FactorialSubmit(t) ==
  /\ Goto(t, "fact_submit", "fact_wait")
  /\ fact_irq' = TRUE
  /\ WriteFactorial(input)
  /\ input' = NoPayload
  /\ UNCHANGED <<io_id, pos, lock, next_io_id, active_io_id, active_engine, result_size,
                 result_io_id, timeout_ms, jobs, clean, aborts, bh_vars, dma_cmd, dma_irq, edu_buf,
                 irq_status, buf>>

(* The result register, whatever it holds now, becomes the result text. *)
FactorialDone(t) ==
  /\ "FACTORIAL" \in completed_events
  /\ Goto(t, "fact_wait", "open")
  /\ buf' = fact_reg
  /\ Succeed(t, FactLen)
  /\ UNCHANGED <<bh_vars, fact_busy, fact_irq, fact_reg, dma_cmd, dma_irq,
                 edu_buf, irq_status>>

(* Signal or timeout: the job is given up, the engine is not stopped. *)
FactorialAbort(t) ==
  /\ WaitAborts("FACTORIAL")
  /\ Goto(t, "fact_wait", "open")
  /\ Fail
  /\ UNCHANGED <<io_id, pos, bh_vars, edu_vars>>

-----------------------------------------------------------------------------
(* qedu_dma_echo_job() *)

(* Mutant: the old completion bit survives. *)
DmaPrepareStale(t) ==
  /\ Goto(t, "dma_prepare", "dma_submit")
  /\ active_engine' = "DMA"
  /\ dma_stage' = "TO_DEVICE"
  /\ UNCHANGED <<io_id, pos, lock, next_io_id, active_io_id, result_size,
                 result_io_id, timeout_ms, input, jobs, clean, aborts,
                 completed_events, wq, worker, irq, edu_vars>>

DmaPrepare(t) ==
  /\ Goto(t, "dma_prepare", "dma_submit")
  /\ active_engine' = "DMA"
  /\ completed_events' = completed_events \ {"DMA"}
  /\ dma_stage' = "TO_DEVICE"
  /\ UNCHANGED <<io_id, pos, lock, next_io_id, active_io_id, result_size,
                 result_io_id, timeout_ms, input, jobs, clean, aborts, wq, worker, irq,
                 edu_vars>>

DmaSubmit(t) ==
  /\ Goto(t, "dma_submit", "dma_wait")
  /\ StartDma("to_device", TRUE)
  /\ UNCHANGED <<io_id, pos, job_vars, bh_vars, fact_busy, fact_irq, fact_reg,
                 edu_buf, irq_status, buf>>

DmaDone(t) ==
  /\ "DMA" \in completed_events
  /\ Goto(t, "dma_wait", "open")
  /\ Succeed(t, TextLen)
  /\ UNCHANGED <<bh_vars, edu_vars>>

DmaAbort(t) ==
  /\ WaitAborts("DMA")
  /\ Goto(t, "dma_wait", "dma_abort")
  /\ UNCHANGED <<io_id, pos, lock, next_io_id, active_io_id, active_engine,
                 result_size, result_io_id, timeout_ms, input, jobs, clean, bh_vars,
                 edu_vars>>

DmaAbortStage(t) ==
  /\ Goto(t, "dma_abort", "cancel_advance")
  /\ dma_stage' = "IDLE"
  /\ UNCHANGED <<io_id, pos, job_vars, completed_events, wq, worker, irq,
                 edu_vars>>

Pending(w) == \E i \in 1..Len(wq) : wq[i] = w

(* The queue without w; the other item, if it is pending, stays. *)
Drop(w) == IF \E v \in Works \ {w} : Pending(v)
           THEN <<CHOOSE v \in Works \ {w} : TRUE>>
           ELSE <<>>

(* cancel_work_sync(&dma_advance_work): dequeue it and wait while it runs. *)
CancelAdvance(t) ==
  /\ worker \notin {"sleep", "start"}
  /\ Goto(t, "cancel_advance", "cancel_finish")
  /\ wq' = Drop("advance")
  /\ UNCHANGED <<io_id, pos, job_vars, completed_events, dma_stage, worker, irq,
                 edu_vars>>

(* cancel_work_sync(&dma_finish_work), then the error returns through out_unlock. *)
CancelFinish(t) ==
  /\ worker # "publish"
  /\ Goto(t, "cancel_finish", "open")
  /\ wq' = Drop("finish")
  /\ Fail
  /\ UNCHANGED <<io_id, pos, aborts, completed_events, dma_stage, worker, irq,
                 edu_vars>>

-----------------------------------------------------------------------------
(* qedu_irq_handler() and qedu_dma_irq_complete(), on any CPU.  A call that
   reads status 0 returns IRQ_NONE and changes nothing. *)

IrqRead ==
  /\ irq.at = "off"
  /\ irq_status # {}
  /\ irq' = [irq EXCEPT !.at = "ack", !.status = irq_status]
  /\ UNCHANGED <<task_vars, job_vars, completed_events, dma_stage, wq, worker,
                 edu_vars>>

(* Mutant: the status is not acknowledged. *)
IrqAckNot ==
  /\ irq.at = "ack"
  /\ completed_events' = completed_events \cup (irq.status \ {"DMA"})
  /\ irq' = IF "DMA" \in irq.status THEN [irq EXCEPT !.at = "stage"] ELSE IrqOff
  /\ UNCHANGED <<task_vars, job_vars, dma_stage, wq, worker, edu_vars>>

IrqAck ==
  /\ irq.at = "ack"
  /\ irq_status' = irq_status \ irq.status
  /\ completed_events' = completed_events \cup (irq.status \ {"DMA"})
  /\ irq' = IF "DMA" \in irq.status THEN [irq EXCEPT !.at = "stage"] ELSE IrqOff
  /\ UNCHANGED <<task_vars, job_vars, dma_stage, wq, worker, fact_busy, fact_irq,
                 fact_reg, dma_cmd, dma_irq, edu_buf, buf>>

(* The stage is read once; the work it selects is queued later. *)
IrqStage ==
  /\ irq.at = "stage"
  /\ irq' = CASE dma_stage = "TO_DEVICE" ->
                   [irq EXCEPT !.at = "queue", !.work = "advance"]
              [] dma_stage = "FROM_DEVICE" ->
                   [irq EXCEPT !.at = "queue", !.work = "finish"]
              [] dma_stage = "IDLE" -> IrqOff
  /\ UNCHANGED <<task_vars, job_vars, completed_events, dma_stage, wq, worker,
                 edu_vars>>

(* queue_work() does nothing when the item is already pending. *)
IrqQueue ==
  /\ irq.at = "queue"
  /\ wq' = IF Pending(irq.work) THEN wq ELSE Append(wq, irq.work)
  /\ irq' = IrqOff
  /\ UNCHANGED <<task_vars, job_vars, completed_events, dma_stage, worker,
                 edu_vars>>

-----------------------------------------------------------------------------
(* The kworker of the ordered workqueue: one item at a time, in order. *)

Run(w) == worker = "idle" /\ wq # <<>> /\ Head(wq) = w /\ wq' = Tail(wq)

(* qedu_dma_advance_work() up to msleep(20). *)
AdvanceBegin ==
  /\ Run("advance")
  /\ worker' = IF dma_stage = "TO_DEVICE" THEN "sleep" ELSE "idle"
  /\ dma_stage' = IF dma_stage = "TO_DEVICE" THEN "FROM_DEVICE" ELSE dma_stage
  /\ UNCHANGED <<task_vars, job_vars, completed_events, irq, edu_vars>>

AdvanceClear ==
  /\ worker = "sleep"
  /\ worker' = "start"
  /\ buf' = Zeroed
  /\ UNCHANGED <<task_vars, job_vars, completed_events, dma_stage, wq, irq,
                 fact_busy, fact_irq, fact_reg, dma_cmd, dma_irq, edu_buf,
                 irq_status>>

AdvanceStart ==
  /\ worker = "start"
  /\ worker' = "idle"
  /\ StartDma("from_device", TRUE)
  /\ UNCHANGED <<task_vars, job_vars, completed_events, dma_stage, wq, irq,
                 fact_busy, fact_irq, fact_reg, edu_buf, irq_status, buf>>

(* qedu_dma_finish_work() *)
FinishBegin ==
  /\ Run("finish")
  /\ worker' = IF dma_stage = "FROM_DEVICE" THEN "publish" ELSE "idle"
  /\ dma_stage' = IF dma_stage = "FROM_DEVICE" THEN "IDLE" ELSE dma_stage
  /\ UNCHANGED <<task_vars, job_vars, completed_events, irq, edu_vars>>

FinishPublish ==
  /\ worker = "publish"
  /\ worker' = "idle"
  /\ completed_events' = completed_events \cup {"DMA"}
  /\ UNCHANGED <<task_vars, job_vars, dma_stage, wq, irq, edu_vars>>

-----------------------------------------------------------------------------
(* timeout_ms_store(): out-of-range values are refused before the mutex. *)
timeout_ms_store(v) ==
  /\ v # 0 /\ v <= QEDU_MAX_TIMEOUT_MS
  /\ lock = NoTask
  /\ timeout_ms' = v
  /\ UNCHANGED <<task_vars, lock, next_io_id, active_io_id, active_engine,
                 result_size, result_io_id, input, jobs, clean, aborts, bh_vars,
                 edu_vars>>

-----------------------------------------------------------------------------
JobStep(t) ==
  \/ WriteBegin(t) \/ WriteFault(t) \/ WriteParse(t)
  \/ FactorialClear(t) \/ FactorialSubmit(t)
  \/ FactorialDone(t) \/ FactorialAbort(t)
  \/ DmaPrepare(t) \/ DmaSubmit(t) \/ DmaDone(t)
  \/ DmaAbort(t) \/ DmaAbortStage(t) \/ CancelAdvance(t) \/ CancelFinish(t)

UserStep(t) ==
  \/ qedu_open(t) \/ qedu_release(t)
  \/ \E count \in 1..(TextLen + FactLen) : qedu_read(t, count)
  \/ \E p \in Payloads : WriteEnter(t, p)
  \/ WriteRejected(t) \/ WriteInterrupted(t)

IrqStep    == IrqRead \/ IrqAck \/ IrqStage \/ IrqQueue
WorkerStep == AdvanceBegin \/ AdvanceClear \/ AdvanceStart
              \/ FinishBegin \/ FinishPublish
DeviceStep == (FactorialEngine \/ DmaEngine) /\ UNCHANGED <<task_vars, job_vars, bh_vars>>

Next ==
  \/ \E t \in Tasks : UserStep(t) \/ JobStep(t)
  \/ IrqStep
  \/ WorkerStep
  \/ DeviceStep
  \/ \E v \in Timeouts : timeout_ms_store(v)

Spec == Init /\ [][Next]_vars

(* The scheduler runs a task, the kworker and a pending interrupt; a waiting
   task's timer fires. *)
KernelFairness ==
  /\ \A t \in Tasks : WF_vars(JobStep(t))
  /\ WF_vars(IrqStep)
  /\ WF_vars(WorkerStep)

(* A device that finishes what it was given. *)
DeviceFairness == WF_vars(FactorialEngine /\ DeviceStep) /\ WF_vars(DmaEngine /\ DeviceStep)

BrokenHardwareSpec == Spec /\ KernelFairness
-----------------------------------------------------------------------------
(* Properties *)

(* A readable result is the exact answer to the write recorded in result_io_id,
   provided that job found the device, the handler and the kworker at rest when
   it took the mutex.  Nothing a clean job does to the event bits, the stage
   machine or the two work items can make it return early or with other bytes
   (qedu_write(), qedu_factorial_job(), qedu_dma_echo_job()). *)
CleanResultExact ==
  result_size > 0 /\ clean =>
    /\ result_io_id \in 1..next_io_id
    /\ buf = Expected(jobs[result_io_id])

(* As long as no wait was aborted, a free mutex means that both engines, the
   interrupt and the workqueue are at rest: every job waits for its last
   interrupt and its last work item before qedu_write() unlocks. *)
UnabortedJobsDrain == aborts = 0 /\ lock = NoTask => Quiescent

(* What qedu_chrdev.c says of an integer written to the device: the readable
   text is that integer's factorial. *)
FactorialTextExact ==
  result_size > 0 /\ jobs[result_io_id] \in Numbers =>
    buf = Fact(jobs[result_io_id])

(* A task that entered write(2) leaves it: the wait ends with the event, a
   signal or the timeout, and cancel_work_sync() waits for finite work only. *)
WriteReturns == \A t \in Tasks : pc[t] \notin Outside ~> pc[t] = "open"

(* If the device finishes what it was given, then the interrupts, work items and
   transfers that aborted jobs left behind die out, so that once the users stop every
   later job would find the driver at rest. *)
LeftoversDieOut == DeviceFairness => <>[](Quiescent /\ lock = NoTask)

(* No wake-up is lost: a clean job that still waits for its event bit has something in
   motion that will set it, in an engine, the handler or the workqueue.  Its wait ends by
   completion unless the device breaks (wait_event_interruptible_timeout()). *)
NoLostWakeup ==
  clean => \A t \in Tasks :
    \/ pc[t] = "fact_wait" /\ "FACTORIAL" \notin completed_events
    \/ pc[t] = "dma_wait" /\ "DMA" \notin completed_events
    => ~Quiescent

Service == INSTANCE EduService WITH
  holder <- IF lock = NoTask THEN 0 ELSE active_io_id,
  answer <- IF result_size = 0 THEN [id |-> 0, data |-> Zeroed]
            ELSE [id |-> result_io_id, data |-> buf],
  failed <- aborts > 0,
  sound  <- clean

(* The driver implements the job service: jobs are served one at a time, each
   is answered with its own bytes or given up, and only after a given-up job
   may the service be unsound (EduService). *)
ImplementsService == Service!Spec
-----------------------------------------------------------------------------
(* The inductive invariant behind CleanResultExact and UnabortedJobsDrain: for
   a clean job, exactly how far the device, the handler and the kworker are. *)

Engines(cmd, status) ==
  /\ ~fact_busy
  /\ dma_cmd = cmd
  /\ cmd # "none" => dma_irq
  /\ irq_status = status

Bottom(at, queue, w) == irq.at = at /\ wq = queue /\ worker = w

(* A finished transfer on its way from the interrupt line to its work item. *)
Handed(work) ==
  \/ Engines("none", {"DMA"}) /\ Bottom("off", <<>>, "idle")
  \/ Engines("none", {"DMA"}) /\ Bottom("ack", <<>>, "idle") /\ irq.status = {"DMA"}
  \/ Engines("none", {}) /\ Bottom("stage", <<>>, "idle")
  \/ Engines("none", {}) /\ Bottom("queue", <<>>, "idle") /\ irq.work = work
  \/ Engines("none", {}) /\ Bottom("off", <<work>>, "idle")

EchoOut(p) ==
  /\ dma_stage = "TO_DEVICE"
  /\ "DMA" \notin completed_events
  /\ \/ Engines("to_device", {}) /\ Bottom("off", <<>>, "idle") /\ buf = Bytes(p)
     \/ Handed("advance") /\ edu_buf = Bytes(p)

EchoBack(p) ==
  /\ dma_stage = "FROM_DEVICE"
  /\ "DMA" \notin completed_events
  /\ \/ /\ edu_buf = Bytes(p)
        /\ \/ Engines("none", {}) /\ Bottom("off", <<>>, "sleep")
           \/ Engines("none", {}) /\ Bottom("off", <<>>, "start")
           \/ Engines("from_device", {}) /\ Bottom("off", <<>>, "idle")
     \/ Handed("finish") /\ buf = Bytes(p)

EchoEnd(p) ==
  /\ Engines("none", {})
  /\ buf = Bytes(p)
  /\ \/ Bottom("off", <<>>, "publish") /\ "DMA" \notin completed_events
     \/ Bottom("off", <<>>, "idle") /\ "DMA" \in completed_events

FactRun(v) ==
  /\ dma_cmd = "none" /\ wq = <<>> /\ worker = "idle" /\ fact_irq
  /\ \/ /\ fact_busy /\ fact_reg = Input(v) /\ irq_status = {} /\ irq.at = "off"
        /\ "FACTORIAL" \notin completed_events
     \/ /\ ~fact_busy /\ fact_reg = Fact(v) /\ irq_status = {"FACTORIAL"}
        /\ irq.at = "off" \/ (irq.at = "ack" /\ irq.status = {"FACTORIAL"})
        /\ "FACTORIAL" \notin completed_events
     \/ /\ ~fact_busy /\ fact_reg = Fact(v) /\ irq_status = {} /\ irq.at = "off"
        /\ "FACTORIAL" \in completed_events

(* The mutex is held exactly by the task inside the critical section. *)
LockInv == \A t \in Tasks : lock = t <=> pc[t] \in HeldPcs

(* Ids are handed out once, and only a served write has a result. *)
IdInv ==
  /\ result_io_id <= next_io_id
  /\ result_size > 0 => result_io_id > 0 /\ lock = NoTask
  /\ \A t \in Tasks : pc[t] \notin Outside =>
       /\ io_id[t] \in 1..next_io_id
       /\ Payload(t) \in Payloads

CleanJob(t) ==
  /\ pc[t] \in FactPcs => Payload(t) \in Numbers
  /\ pc[t] \in DmaPcs => Payload(t) \in Texts
  /\ pc[t] \in {"parse", "fact_clear", "fact_submit", "dma_prepare", "dma_submit"} => Quiescent
  /\ pc[t] \in {"fact_clear", "fact_submit"} => input = Payload(t)
  /\ pc[t] = "fact_submit" => "FACTORIAL" \notin completed_events
  /\ pc[t] = "fact_wait" => FactRun(Payload(t))
  /\ pc[t] \in {"parse", "dma_prepare", "dma_submit"} => buf = Bytes(Payload(t))
  /\ pc[t] = "dma_submit" => dma_stage = "TO_DEVICE" /\ "DMA" \notin completed_events
  /\ pc[t] = "dma_wait" => \/ EchoOut(Payload(t))
                           \/ EchoBack(Payload(t))
                           \/ EchoEnd(Payload(t))

CleanInv ==
  /\ clean => \A t \in Tasks : lock = t => CleanJob(t)
  /\ clean /\ result_size > 0 => Quiescent /\ buf = Expected(jobs[result_io_id])

DrainInv ==
  aborts = 0 =>
    /\ \A t \in Tasks : pc[t] \notin AbortPcs
    /\ lock # NoTask => clean
    /\ lock = NoTask => Quiescent

(* While the mutex is held, active_io_id, which the handler reads without it, is
   the id of the holder's write; ids not yet taken belong to no write. *)
ActiveJobKnown ==
  /\ \A t \in Tasks : lock = t => active_io_id = io_id[t]
  /\ \A i \in 1..MaxIo : i > next_io_id => jobs[i] = NoPayload

(* Together with TypeOK, preserved by every step of Next. *)
JobInv == TypeOK /\ LockInv /\ IdInv /\ CleanInv /\ DrainInv
=============================================================================
