---------------------------- MODULE DriverProof ----------------------------
(***************************************************************************)
(* The qedu driver, for any number of bindings, tasks, payloads, writes    *)
(* and aborted waits.                                                      *)
(*                                                                         *)
(* The job path (Qedu): type correctness, a result delivered by a job that *)
(* found the driver at rest is exact, no wake-up is lost, and the driver   *)
(* implements the job service of module EduService.                        *)
(*                                                                         *)
(* The life of a binding (QeduDriver): every way out of qedu_probe() and   *)
(* qedu_remove() gives back what was taken, nobody runs on what is gone,   *)
(* and no transfer outlives its buffer unless a wait was given up.         *)
(***************************************************************************)
EXTENDS QeduDriver, SequenceTheorems, TLAPS


(* Appending to a one-element queue, as a literal. *)
LEMMA AppendToOne ==
  ASSUME NEW a, NEW b
  PROVE  Append(<<a>>, b) = <<a, b>>
<1> DEFINE S == {a, b}
<1>1. <<a>> \in Seq(S) /\ <<a, b>> \in Seq(S) /\ b \in S
  OBVIOUS
<1>2. Append(<<a>>, b) \in Seq(S)
  BY <1>1, AppendProperties
<1>3. Len(Append(<<a>>, b)) = 2 /\ Len(<<a, b>>) = 2
  BY <1>1, AppendProperties
<1>4. Append(<<a>>, b)[1] = a /\ Append(<<a>>, b)[2] = b
  BY <1>1, AppendProperties
<1>5. \A i \in 1..2 : Append(<<a>>, b)[i] = <<a, b>>[i]
  BY <1>4
<1> HIDE DEF S
<1> QED BY <1>1, <1>2, <1>3, <1>5, SeqEqual

(* queue_work(), cancel_work_sync() and the kworker keep each item pending at
   most once. *)
LEMMA QueueFacts ==
  ASSUME wq \in Queues
  PROVE  /\ \A w \in Works : Drop(w) \in Queues
         /\ \A w \in Works : ~Pending(w) => Append(wq, w) \in Queues
         /\ wq # <<>> => Tail(wq) \in Queues /\ Head(wq) \in Works
<1>1. ASSUME NEW w \in Works PROVE Drop(w) \in Queues
  BY DEF Drop, Works, Queues
<1>2. ASSUME NEW w \in Works, ~Pending(w) PROVE Append(wq, w) \in Queues
  <2>1. CASE wq = <<>>
    BY <2>1 DEF Works, Queues
  <2>2. CASE wq = <<"advance">> \/ wq = <<"finish">>
    <3>0. Len(wq) = 1
      BY <2>2
    <3>1. wq[1] # w
      BY <1>2, <3>0 DEF Pending
    <3>2. Append(wq, w) = <<wq[1], w>>
      <4>1. wq = <<wq[1]>>
        BY <2>2
      <4> QED BY <4>1, AppendToOne
    <3> QED BY <2>2, <3>1, <3>2 DEF Works, Queues
  <2>3. CASE wq = <<"advance", "finish">> \/ wq = <<"finish", "advance">>
    <3>0. Len(wq) = 2
      BY <2>3
    <3>1. wq[1] # w /\ wq[2] # w
      BY <1>2, <3>0 DEF Pending
    <3> QED BY <2>3, <3>1 DEF Works
  <2> QED BY <2>1, <2>2, <2>3 DEF Queues
<1>3. ASSUME wq # <<>> PROVE Tail(wq) \in Queues /\ Head(wq) \in Works
  <2>1. CASE wq = <<"advance">>
    BY <2>1 DEF Works, Queues
  <2>2. CASE wq = <<"finish">>
    BY <2>2 DEF Works, Queues
  <2>3. CASE wq = <<"advance", "finish">>
    BY <2>3 DEF Works, Queues
  <2>4. CASE wq = <<"finish", "advance">>
    BY <2>4 DEF Works, Queues
  <2> QED BY <1>3, <2>1, <2>2, <2>3, <2>4 DEF Queues
<1> QED BY <1>1, <1>2, <1>3

-----------------------------------------------------------------------------
(* Type correctness *)

LEMMA TypeInit == Init => TypeOK
<1> SUFFICES ASSUME Init PROVE TypeOK
  OBVIOUS
<1>1. EduTypeOK
  BY DEF Init, EduInit, EduTypeOK, Content, Zeroed
<1>2. irq \in IrqState /\ wq \in Queues
  BY DEF Init, IrqOff, IrqState, Works, Queues
<1>3. /\ io_id \in [Tasks -> 0..MaxIo]
      /\ pos \in [Tasks -> Nat]
      /\ jobs \in [1..MaxIo -> Payloads \cup {NoPayload}]
      /\ pc \in [Tasks -> Outside \cup {"lock"} \cup HeldPcs]
  BY QeduAssumption DEF Init, Outside
<1>4. timeout_ms \in 1..QEDU_MAX_TIMEOUT_MS
  BY DEF Init, QEDU_DEFAULT_TIMEOUT_MS, QEDU_MAX_TIMEOUT_MS
<1>5. /\ lock \in Tasks \cup {NoTask}
      /\ next_io_id \in 0..MaxIo /\ active_io_id \in 0..MaxIo
      /\ result_io_id \in 0..MaxIo /\ aborts \in 0..MaxAborts
      /\ result_size \in {0, TextLen, FactLen}
  BY QeduAssumption DEF Init
<1>6. /\ active_engine \in {"NONE", "FACTORIAL", "DMA"}
      /\ completed_events \subseteq IrqSources
      /\ dma_stage \in Stages
      /\ worker \in {"idle", "sleep", "start", "publish"}
      /\ clean \in BOOLEAN
      /\ input \in Numbers \cup {NoPayload}
  BY DEF Init, Stages
<1> QED BY <1>1, <1>2, <1>3, <1>4, <1>5, <1>6 DEF TypeOK

(* The steps of one task. *)
LEMMA TypeTask ==
  ASSUME TypeOK, IdInv, NEW t \in Tasks, UserStep(t) \/ JobStep(t)
  PROVE  TypeOK'
<1> USE PayloadAssumption, QeduAssumption
    DEF TypeOK, EduTypeOK, Goto, Outside, HeldPcs, FactPcs, DmaPcs, AbortPcs,
        job_vars, bh_vars, edu_vars
<1>0. pc[t] \notin Outside => Payload(t) \in Payloads
  BY DEF IdInv
<1>1. CASE qedu_open(t)      BY <1>1 DEF qedu_open
<1>2. CASE qedu_release(t)   BY <1>2 DEF qedu_release
<1>3. ASSUME NEW count \in 1..(TextLen + FactLen), qedu_read(t, count)
      PROVE  TypeOK'
  BY <1>3 DEF qedu_read
<1>4. ASSUME NEW p \in Payloads, WriteEnter(t, p) PROVE TypeOK'
  BY <1>4 DEF WriteEnter
<1>5. CASE WriteRejected(t)  BY <1>5 DEF WriteRejected
<1>6. CASE WriteInterrupted(t) BY <1>6 DEF WriteInterrupted
<1>7. CASE WriteBegin(t)
  <2>1. Bytes(Payload(t)) \in Content
    BY <1>0, <1>7 DEF WriteBegin, Content, Bytes
  <2> QED BY <1>7, <2>1 DEF WriteBegin, ForgetResult, Quiescent, EduIdle
<1>8. CASE WriteFault(t)
  BY <1>0, <1>8 DEF WriteFault, ForgetResult, Part, Content
<1>20. CASE WriteParse(t)
  <2>1. input' \in Numbers \cup {NoPayload}
    BY <1>20 DEF WriteParse, Parses
  <2>2. /\ pc' = [pc EXCEPT ![t] = IF input' \in Numbers THEN "fact_clear" ELSE "dma_prepare"]
        /\ UNCHANGED <<io_id, pos, lock, next_io_id, active_io_id, active_engine,
                       result_size, result_io_id, timeout_ms, jobs, clean, aborts,
                       bh_vars, edu_vars>>
    BY <1>20 DEF WriteParse
  <2> QED BY <2>1, <2>2
<1>9. CASE FactorialClear(t) BY <1>9 DEF FactorialClear
<1>10. CASE FactorialSubmit(t)
  <2>1. Input(input) \in Content
    BY DEF Input, Content, Payloads
  <2>2. fact_busy' \in BOOLEAN /\ fact_reg' \in Content /\ fact_irq' \in BOOLEAN
    BY <1>10, <2>1 DEF FactorialSubmit, WriteFactorial
  <2> QED BY <1>10, <2>2 DEF FactorialSubmit
<1>11. CASE FactorialDone(t) BY <1>11 DEF FactorialDone, Succeed, OutUnlock
<1>12. CASE FactorialAbort(t)
  BY <1>12 DEF FactorialAbort, WaitAborts, Fail, OutUnlock
<1>13. CASE DmaPrepare(t)    BY <1>13 DEF DmaPrepare, Stages
<1>14. CASE DmaSubmit(t)
  <2>1. dma_cmd' \in {"none", "to_device", "from_device"} /\ dma_irq' \in BOOLEAN
    BY <1>14 DEF DmaSubmit, StartDma
  <2> QED BY <1>14, <2>1 DEF DmaSubmit
<1>15. CASE DmaDone(t)       BY <1>15 DEF DmaDone, Succeed, OutUnlock
<1>16. CASE DmaAbort(t)      BY <1>16 DEF DmaAbort, WaitAborts
<1>17. CASE DmaAbortStage(t) BY <1>17 DEF DmaAbortStage, Stages
<1>18. CASE CancelAdvance(t)
  BY <1>18, QueueFacts DEF CancelAdvance, Works
<1>19. CASE CancelFinish(t)
  BY <1>19, QueueFacts DEF CancelFinish, Works, Fail, OutUnlock
<1> QED BY <1>1, <1>2, <1>3, <1>4, <1>5, <1>6, <1>7, <1>8, <1>9, <1>10, <1>11,
           <1>12, <1>13, <1>14, <1>15, <1>16, <1>17, <1>18, <1>19, <1>20
        DEF UserStep, JobStep

(* What timeout_ms_store() lets through is a usable timeout. *)
LEMMA TimeoutRange ==
  ASSUME NEW v \in Nat, v # 0, v <= QEDU_MAX_TIMEOUT_MS
  PROVE  v \in 1..QEDU_MAX_TIMEOUT_MS
<1>1. QEDU_MAX_TIMEOUT_MS \in Nat
  BY DEF QEDU_MAX_TIMEOUT_MS
<1> QED BY <1>1

(* The steps of the interrupt handler, the kworker, the device and sysfs. *)
LEMMA TypeRest ==
  ASSUME TypeOK,
         \/ IrqStep \/ WorkerStep \/ DeviceStep
         \/ \E v \in Timeouts : timeout_ms_store(v)
  PROVE  TypeOK'
<1> USE PayloadAssumption, QeduAssumption
    DEF TypeOK, EduTypeOK, task_vars, job_vars, bh_vars, edu_vars
<1>1. CASE IrqRead
  <2>1. [irq EXCEPT !.at = "ack", !.status = irq_status] \in IrqState
    BY Zenon DEF IrqState
  <2> QED BY <1>1, <2>1 DEF IrqRead
<1>2. CASE IrqAck
  <2>1. irq' \in IrqState
    BY <1>2 DEF IrqAck, IrqState, IrqOff, Works, IrqSources
  <2>2. irq.status \subseteq IrqSources
    BY DEF IrqState
  <2>3. irq_status' \subseteq IrqSources /\ completed_events' \subseteq IrqSources
    BY <1>2, <2>2 DEF IrqAck
  <2> QED BY <1>2, <2>1, <2>3 DEF IrqAck
<1>3. CASE IrqStage
  <2>1. irq' \in IrqState
    BY <1>3 DEF IrqStage, IrqState, IrqOff, Works, Stages, IrqSources
  <2>2. UNCHANGED <<task_vars, job_vars, completed_events, dma_stage, wq, worker,
                    edu_vars>>
    BY <1>3 DEF IrqStage
  <2> QED BY <2>1, <2>2
<1>4. CASE IrqQueue
  <2>1. irq.work \in Works /\ IrqOff \in IrqState
    BY DEF IrqState, IrqOff, Works, IrqSources
  <2> QED BY <1>4, <2>1, QueueFacts DEF IrqQueue
<1>5. CASE AdvanceBegin
  BY <1>5, QueueFacts DEF AdvanceBegin, Run, Stages
<1>6. CASE AdvanceClear  BY <1>6 DEF AdvanceClear, Zeroed, Content
<1>7. CASE AdvanceStart  BY <1>7 DEF AdvanceStart, StartDma
<1>8. CASE FinishBegin
  BY <1>8, QueueFacts DEF FinishBegin, Run, Stages
<1>9. CASE FinishPublish BY <1>9 DEF FinishPublish, IrqSources
<1>10. CASE FactorialEngine /\ DeviceStep
  <2>1. Fact(fact_reg.of) \in Content
    BY DEF Fact, Content
  <2>2. irq_status' \subseteq IrqSources
    BY <1>10 DEF FactorialEngine, Raise, IrqSources
  <2>3. fact_busy' \in BOOLEAN /\ fact_reg' \in Content
    BY <1>10, <2>1 DEF FactorialEngine
  <2>4. UNCHANGED <<fact_irq, dma_cmd, dma_irq, edu_buf, buf, task_vars, job_vars, bh_vars>>
    BY <1>10 DEF DeviceStep, FactorialEngine
  <2> QED BY <2>2, <2>3, <2>4
<1>11. CASE DmaEngine /\ DeviceStep
  BY <1>11 DEF DeviceStep, DmaEngine, Raise, IrqSources
<1>12. ASSUME NEW v \in Timeouts, timeout_ms_store(v) PROVE TypeOK'
  <2>0. v \in Nat
    OBVIOUS
  <2>1. timeout_ms' = v /\ v # 0 /\ v <= QEDU_MAX_TIMEOUT_MS
    BY <1>12 DEF timeout_ms_store
  <2>2. v \in 1..QEDU_MAX_TIMEOUT_MS
    BY <2>0, <2>1, TimeoutRange
  <2> QED BY <1>12, <2>1, <2>2 DEF timeout_ms_store
<1> QED BY <1>1, <1>2, <1>3, <1>4, <1>5, <1>6, <1>7, <1>8, <1>9, <1>10, <1>11,
           <1>12 DEF IrqStep, WorkerStep, DeviceStep

-----------------------------------------------------------------------------
(* The bottom half and the device carry a clean job from phase to phase. *)

(* At rest, neither the device, the handler nor the kworker has a step. *)
LEMMA QuiescentStays ==
  ASSUME Quiescent
  PROVE  ~IrqStep /\ ~WorkerStep /\ ~DeviceStep
BY DEF Quiescent, EduIdle, IrqStep, IrqRead, IrqAck, IrqStage, IrqQueue,
       WorkerStep, AdvanceBegin, AdvanceClear, AdvanceStart, FinishBegin,
       FinishPublish, Run, DeviceStep, FactorialEngine, DmaEngine

LEMMA FactRunStep ==
  ASSUME TypeOK, NEW v, FactRun(v), IrqStep \/ WorkerStep \/ DeviceStep
  PROVE  FactRun(v)'
<1> USE DEF FactRun, Input, Fact, bh_vars, edu_vars
<1>1. CASE IrqRead
  BY <1>1 DEF IrqRead, TypeOK, IrqState
<1>2. CASE IrqAck
  BY <1>2 DEF IrqAck, IrqOff
<1>3. CASE IrqStage \/ IrqQueue
  BY <1>3 DEF IrqStage, IrqQueue
<1>4. CASE WorkerStep
  BY <1>4 DEF WorkerStep, AdvanceBegin, AdvanceClear, AdvanceStart, FinishBegin,
              FinishPublish, Run
<1>5. CASE DeviceStep
  BY <1>5 DEF DeviceStep, FactorialEngine, DmaEngine, Raise
<1> QED BY <1>1, <1>2, <1>3, <1>4, <1>5 DEF IrqStep

Echo(p) == EchoOut(p) \/ EchoBack(p) \/ EchoEnd(p)

(* One-element queues: what the handler appends and the kworker takes. *)
LEMMA OneElement ==
  ASSUME NEW w
  PROVE  /\ Append(<<>>, w) = <<w>>
         /\ Tail(<<w>>) = <<>>
         /\ Head(<<w>>) = w
         /\ <<w>> # <<>>
OBVIOUS

LEMMA EchoStep ==
  ASSUME TypeOK, NEW p, Echo(p), IrqStep \/ WorkerStep \/ DeviceStep
  PROVE  Echo(p)'
<1> USE DEF Echo, EchoOut, EchoBack, EchoEnd, Handed, Engines, Bottom, bh_vars,
            edu_vars
<1>1. CASE IrqRead
  BY <1>1 DEF IrqRead, TypeOK, IrqState
<1>2. CASE IrqAck
  BY <1>2 DEF IrqAck, IrqOff, TypeOK, IrqState
<1>3. CASE IrqStage
  BY <1>3 DEF IrqStage, IrqOff, TypeOK, IrqState, Stages
<1>4. CASE IrqQueue
  <2>1. wq = <<>> /\ ~Pending(irq.work)
    BY <1>4 DEF IrqQueue, Pending
  <2>2. wq' = <<irq.work>> /\ irq'.at = "off"
    BY <1>4, <2>1, OneElement DEF IrqQueue, IrqOff
  <2> QED BY <1>4, <2>2 DEF IrqQueue
<1>5. CASE AdvanceBegin
  BY <1>5, OneElement DEF AdvanceBegin, Run
<1>6. CASE AdvanceClear
  BY <1>6 DEF AdvanceClear
<1>7. CASE AdvanceStart
  BY <1>7 DEF AdvanceStart, StartDma
<1>8. CASE FinishBegin
  BY <1>8, OneElement DEF FinishBegin, Run
<1>9. CASE FinishPublish
  BY <1>9 DEF FinishPublish
<1>10. CASE DeviceStep
  BY <1>10 DEF DeviceStep, FactorialEngine, DmaEngine, Raise
<1> QED BY <1>1, <1>2, <1>3, <1>4, <1>5, <1>6, <1>7, <1>8, <1>9, <1>10
        DEF IrqStep, WorkerStep

(* Every conjunct of JobInv survives the handler, the kworker and the device. *)
LEMMA BottomStep ==
  ASSUME JobInv, IrqStep \/ WorkerStep \/ DeviceStep
  PROVE  JobInv'
<1>1. UNCHANGED <<task_vars, job_vars>>
  BY DEF IrqStep, IrqRead, IrqAck, IrqStage, IrqQueue, WorkerStep, AdvanceBegin,
         AdvanceClear, AdvanceStart, FinishBegin, FinishPublish, DeviceStep
<1>2. UNCHANGED <<pc, io_id, lock, next_io_id, result_size, result_io_id, input, jobs,
                  clean, aborts>>
  BY <1>1 DEF task_vars, job_vars
<1>3. TypeOK'
  BY TypeRest DEF JobInv
<1>4. LockInv' /\ IdInv'
  BY <1>2 DEF JobInv, LockInv, IdInv, Payload
<1>5. ~Quiescent
  BY QuiescentStays
<1>6. ASSUME NEW t \in Tasks, clean, lock = t
      PROVE  CleanJob(t)'
  <2>1. CleanJob(t)
    BY <1>6 DEF JobInv, CleanInv
  <2>2. pc[t] \in {"fact_wait", "dma_wait"} \cup AbortPcs
    BY <1>5, <1>6, <2>1 DEF CleanJob, JobInv, LockInv, HeldPcs, FactPcs, DmaPcs
  <2>3. CASE pc[t] = "fact_wait"
    <3>1. FactRun(Payload(t))
      BY <2>1, <2>3 DEF CleanJob
    <3>2. Payload(t)' = Payload(t) /\ Payload(t) \in Numbers
      BY <1>2, <2>1, <2>3 DEF CleanJob, FactPcs, Payload
    <3>3. FactRun(Payload(t))'
      BY <1>2, <3>1, FactRunStep DEF JobInv, Payload
    <3> QED BY <1>2, <2>3, <3>2, <3>3 DEF CleanJob, DmaPcs
  <2>4. CASE pc[t] = "dma_wait"
    <3>1. Echo(Payload(t))
      BY <2>1, <2>4 DEF CleanJob, Echo
    <3>2. Payload(t)' = Payload(t) /\ Payload(t) \in Texts
      BY <1>2, <2>1, <2>4 DEF CleanJob, DmaPcs, Payload
    <3>3. Echo(Payload(t))'
      BY <1>2, <3>1, EchoStep DEF JobInv, Payload
    <3> QED BY <1>2, <2>4, <3>2, <3>3 DEF CleanJob, FactPcs, Echo
  <2>5. CASE pc[t] \in AbortPcs
    BY <1>2, <2>5 DEF CleanJob, AbortPcs, FactPcs, DmaPcs
  <2> QED BY <2>2, <2>3, <2>4, <2>5
<1>7. CleanInv'
  BY <1>2, <1>5, <1>6 DEF CleanInv, JobInv
<1>8. DrainInv'
  BY <1>2, <1>5 DEF DrainInv, JobInv
<1> QED BY <1>3, <1>4, <1>7, <1>8 DEF JobInv

-----------------------------------------------------------------------------
(* The steps of a task. *)

(* The mutex keeps its one owner, and ids and payloads stay attached to jobs. *)
LEMMA LockStep ==
  ASSUME JobInv, NEW t \in Tasks, UserStep(t) \/ JobStep(t)
  PROVE  LockInv' /\ IdInv'
<1> USE PayloadAssumption, QeduAssumption
    DEF JobInv, LockInv, IdInv, Goto, Outside, HeldPcs, FactPcs, DmaPcs, AbortPcs,
        Payload, Payloads, job_vars, TypeOK
<1>1. CASE qedu_open(t) \/ qedu_release(t) \/ WriteInterrupted(t)
  <2>1. /\ pc[t] \notin HeldPcs
        /\ \E q \in Outside : pc' = [pc EXCEPT ![t] = q]
        /\ UNCHANGED <<io_id, lock, next_io_id, result_size, result_io_id, jobs>>
    BY <1>1 DEF qedu_open, qedu_release, WriteInterrupted
  <2> QED BY <2>1
<1>2. ASSUME NEW count \in 1..(TextLen + FactLen), qedu_read(t, count)
      PROVE  LockInv' /\ IdInv'
  BY <1>2 DEF qedu_read
<1>3. ASSUME NEW p \in Payloads, WriteEnter(t, p) PROVE LockInv' /\ IdInv'
  <2>1. LockInv'
    BY <1>3 DEF WriteEnter
  <2>2. next_io_id' \in 1..MaxIo /\ next_io_id' = next_io_id + 1
    BY <1>3 DEF WriteEnter
  <2>3. io_id'[t] = next_io_id' /\ jobs'[next_io_id'] = p /\ pc'[t] = "lock"
    BY <1>3, <2>2 DEF WriteEnter
  <2>4. ASSUME NEW u \in Tasks, u # t, pc[u] \notin Outside
        PROVE  /\ pc'[u] = pc[u] /\ io_id'[u] = io_id[u]
               /\ io_id[u] \in 1..next_io_id' /\ Payload(u)' = Payload(u)
    BY <1>3, <2>2, <2>4 DEF WriteEnter
  <2>5. \A u \in Tasks : u # t => pc'[u] = pc[u]
    BY <1>3 DEF WriteEnter
  <2>6. UNCHANGED <<result_io_id, result_size, lock>>
    BY <1>3 DEF WriteEnter
  <2>7. result_io_id' <= next_io_id'
    BY <2>2, <2>6
  <2>8. \A u \in Tasks : pc'[u] \notin Outside =>
          /\ io_id'[u] \in 1..next_io_id'
          /\ Payload(u)' \in Payloads
    BY <2>2, <2>3, <2>4, <2>5
  <2> QED BY <2>1, <2>6, <2>7, <2>8
<1>4. CASE WriteRejected(t)
  BY <1>4 DEF WriteRejected
<1>5. CASE WriteBegin(t)
  BY <1>5 DEF WriteBegin, ForgetResult
<1>6. CASE WriteFault(t)
  BY <1>6 DEF WriteFault, ForgetResult
<1>7. CASE WriteParse(t) \/ FactorialClear(t) \/ FactorialSubmit(t)
  <2>1. /\ lock = t /\ pc[t] \in HeldPcs
        /\ \E q \in HeldPcs : pc' = [pc EXCEPT ![t] = q]
        /\ UNCHANGED <<io_id, lock, next_io_id, result_size, result_io_id, jobs>>
    BY <1>7 DEF WriteParse, FactorialClear, FactorialSubmit
  <2> QED BY <2>1
<1>8. CASE FactorialDone(t) \/ DmaDone(t)
  <2>1. /\ lock = t /\ lock' = NoTask /\ pc' = [pc EXCEPT ![t] = "open"]
        /\ io_id[t] \in 1..next_io_id /\ result_io_id' = io_id[t]
        /\ UNCHANGED <<io_id, next_io_id, jobs>>
    BY <1>8 DEF FactorialDone, DmaDone, Succeed, OutUnlock
  <2> QED BY <2>1
<1>9. CASE FactorialAbort(t)
  <2>1. lock = t /\ lock' = NoTask /\ pc' = [pc EXCEPT ![t] = "open"]
    BY <1>9 DEF FactorialAbort, Fail, OutUnlock
  <2>2. LockInv'
    BY <2>1
  <2>3. IdInv'
    BY <1>9, <2>1 DEF FactorialAbort, Fail
  <2> QED BY <2>2, <2>3
<1>10. CASE DmaPrepare(t) \/ DmaSubmit(t)
  <2>1. /\ lock = t /\ pc[t] \in DmaPcs
        /\ \E q \in DmaPcs : pc' = [pc EXCEPT ![t] = q]
        /\ UNCHANGED <<io_id, lock, next_io_id, result_size, result_io_id, jobs>>
    BY <1>10 DEF DmaPrepare, DmaSubmit
  <2> QED BY <2>1
<1>11. CASE DmaAbort(t) \/ DmaAbortStage(t) \/ CancelAdvance(t)
  <2>1. /\ lock = t /\ pc[t] \in HeldPcs
        /\ \E q \in AbortPcs : pc' = [pc EXCEPT ![t] = q]
        /\ UNCHANGED <<io_id, lock, next_io_id, result_size, result_io_id, jobs>>
    BY <1>11 DEF DmaAbort, DmaAbortStage, CancelAdvance
  <2> QED BY <2>1
<1>12. CASE CancelFinish(t)
  <2>1. lock = t /\ lock' = NoTask /\ pc' = [pc EXCEPT ![t] = "open"]
    BY <1>12 DEF CancelFinish, Fail, OutUnlock
  <2>2. LockInv'
    BY <2>1
  <2>3. IdInv'
    BY <1>12, <2>1 DEF CancelFinish, Fail
  <2> QED BY <2>2, <2>3
<1> QED BY <1>1, <1>2, <1>3, <1>4, <1>5, <1>6, <1>7, <1>8, <1>9, <1>10, <1>11,
           <1>12 DEF UserStep, JobStep

(* A phase is a fact about device, handler and kworker only. *)
LEMMA CleanJobFrame ==
  ASSUME NEW u \in Tasks, CleanJob(u), UNCHANGED <<bh_vars, edu_vars>>,
         pc'[u] = pc[u], Payload(u)' = Payload(u), input' = input
  PROVE  CleanJob(u)'
<1>1. Quiescent' = Quiescent
  BY DEF Quiescent, EduIdle, bh_vars, edu_vars
<1>2. ASSUME NEW v PROVE FactRun(v) => FactRun(v)'
  BY DEF FactRun, bh_vars, edu_vars
<1>3. ASSUME NEW p PROVE Echo(p) => Echo(p)'
  BY DEF Echo, EchoOut, EchoBack, EchoEnd, Handed, Engines, Bottom, bh_vars, edu_vars
<1>4. FactRun(Payload(u)) => FactRun(Payload(u))'
  BY <1>2 DEF Payload
<1>5. Echo(Payload(u)) => Echo(Payload(u))'
  BY <1>3
<1>6. UNCHANGED <<buf, dma_stage, completed_events>>
  BY DEF bh_vars, edu_vars
<1> QED BY <1>1, <1>4, <1>5, <1>6 DEF CleanJob, Echo

(* Opening, closing, reading, entering write(2) and being refused or interrupted
   there disturb neither the running job nor the last result. *)
LEMMA CleanUser ==
  ASSUME JobInv, NEW t \in Tasks, UserStep(t)
  PROVE  CleanInv' /\ DrainInv'
<1> DEFINE Frame ==
      /\ UNCHANGED <<lock, clean, result_size, result_io_id, input, aborts>>
      /\ UNCHANGED <<bh_vars, edu_vars>>
      /\ pc[t] \in Outside \cup {"lock"}
      /\ \E q \in Outside \cup {"lock"} : pc' = [pc EXCEPT ![t] = q]
      /\ \A u \in Tasks \ {t} : io_id'[u] = io_id[u]
      /\ \A i \in 1..next_io_id : jobs'[i] = jobs[i]
<1>1. Frame
  <2> USE DEF job_vars, Goto, Outside, JobInv, TypeOK
  <2>1. CASE qedu_open(t) \/ qedu_release(t) \/ WriteInterrupted(t)
    BY <2>1 DEF qedu_open, qedu_release, WriteInterrupted
  <2>2. ASSUME NEW count \in 1..(TextLen + FactLen), qedu_read(t, count)
        PROVE  Frame
    BY <2>2 DEF qedu_read
  <2>3. ASSUME NEW p \in Payloads, WriteEnter(t, p) PROVE Frame
    BY <2>3, QeduAssumption DEF WriteEnter
  <2>4. CASE WriteRejected(t)
    BY <2>4 DEF WriteRejected
  <2> QED BY <2>1, <2>2, <2>3, <2>4 DEF UserStep
<1> HIDE DEF Frame
<1>2. ASSUME NEW u \in Tasks, lock = u, clean PROVE CleanJob(u)'
  <2>1. u # t /\ pc[u] \in HeldPcs
    BY <1>1, <1>2 DEF Frame, JobInv, LockInv, Outside, HeldPcs, FactPcs, DmaPcs,
                      AbortPcs
  <2>2. pc'[u] = pc[u] /\ io_id'[u] = io_id[u]
    BY <1>1, <2>1 DEF Frame, JobInv, TypeOK
  <2>3. io_id[u] \in 1..next_io_id
    BY <2>1 DEF JobInv, IdInv, Outside, HeldPcs, FactPcs, DmaPcs, AbortPcs
  <2>4. Payload(u)' = Payload(u)
    BY <1>1, <2>2, <2>3 DEF Frame, Payload
  <2>5. CleanJob(u)
    BY <1>2 DEF JobInv, CleanInv
  <2> QED BY <1>1, <2>2, <2>4, <2>5, CleanJobFrame DEF Frame
<1>3. Quiescent' = Quiescent /\ buf' = buf
  BY <1>1 DEF Frame, Quiescent, EduIdle, bh_vars, edu_vars
<1>4. result_size > 0 => jobs'[result_io_id'] = jobs[result_io_id]
  <2>1. result_size > 0 => result_io_id \in 1..next_io_id
    BY DEF JobInv, IdInv, TypeOK
  <2> QED BY <1>1, <2>1 DEF Frame
<1>5. CleanInv'
  BY <1>1, <1>2, <1>3, <1>4 DEF Frame, JobInv, CleanInv, Expected
<1>6. DrainInv'
  <2>1. \A u \in Tasks : pc'[u] \in AbortPcs => pc[u] \in AbortPcs
    BY <1>1 DEF Frame, JobInv, TypeOK, Outside, AbortPcs
  <2> QED BY <1>1, <1>3, <2>1 DEF Frame, JobInv, DrainInv
<1> QED BY <1>5, <1>6

(* Taking the mutex and submitting start a clean job's first phase. *)
LEMMA CleanSubmit ==
  ASSUME JobInv, NEW t \in Tasks,
         \/ WriteBegin(t) \/ WriteFault(t) \/ WriteParse(t)
         \/ FactorialClear(t) \/ FactorialSubmit(t)
         \/ DmaPrepare(t) \/ DmaSubmit(t)
  PROVE  CleanInv' /\ DrainInv'
<1> USE DEF JobInv, CleanInv, DrainInv, LockInv, IdInv, TypeOK, Goto, bh_vars,
            edu_vars, job_vars, AbortPcs
<1>1. CASE WriteBegin(t)
  <2>1. /\ lock' = t /\ result_size' = 0 /\ clean' = Quiescent
        /\ Quiescent' = Quiescent /\ aborts' = aborts
        /\ pc'[t] = "parse"
        /\ \A u \in Tasks \ {t} : pc'[u] = pc[u]
        /\ buf' = Bytes(Payload(t)) /\ Payload(t)' = Payload(t)
    BY <1>1 DEF WriteBegin, ForgetResult, Quiescent, EduIdle, Payload
  <2>2. clean' => CleanJob(t)'
    BY <2>1 DEF CleanJob, Bytes, FactPcs, DmaPcs
  <2>3. aborts = 0 => clean'
    BY <1>1, <2>1 DEF WriteBegin
  <2> QED BY <2>1, <2>2, <2>3, QeduAssumption
<1>2. CASE WriteFault(t)
  <2>1. /\ lock' = NoTask /\ lock = NoTask /\ result_size' = 0
        /\ Quiescent' = Quiescent /\ aborts' = aborts
        /\ pc' = [pc EXCEPT ![t] = "open"]
    BY <1>2 DEF WriteFault, ForgetResult, Quiescent, EduIdle
  <2> QED BY <2>1, QeduAssumption
<1>3. ASSUME \/ WriteParse(t) \/ FactorialClear(t) \/ FactorialSubmit(t)
             \/ DmaPrepare(t) \/ DmaSubmit(t)
      PROVE  CleanInv' /\ DrainInv'
  <2>0. lock = t /\ result_size = 0
    <3>1. pc[t] \in HeldPcs
      BY <1>3 DEF WriteParse, FactorialClear, FactorialSubmit, DmaPrepare, DmaSubmit,
                  HeldPcs, FactPcs, DmaPcs
    <3>2. lock = t
      BY <3>1
    <3> QED BY <3>2, QeduAssumption
  <2>1. /\ lock = t /\ lock' = t /\ result_size' = 0
        /\ clean' = clean /\ aborts' = aborts /\ Payload(t)' = Payload(t)
        /\ pc'[t] \in FactPcs \cup DmaPcs
        /\ \A u \in Tasks \ {t} : pc'[u] = pc[u]
    <3> USE DEF FactPcs, DmaPcs
    <3>0. CASE WriteParse(t)      BY <2>0, <3>0 DEF WriteParse, Payload
    <3>1. CASE FactorialClear(t)  BY <2>0, <3>1 DEF FactorialClear, Payload
    <3>2. CASE FactorialSubmit(t) BY <2>0, <3>2 DEF FactorialSubmit, Payload
    <3>3. CASE DmaPrepare(t)      BY <2>0, <3>3 DEF DmaPrepare, Payload
    <3>4. CASE DmaSubmit(t)       BY <2>0, <3>4 DEF DmaSubmit, Payload
    <3> QED BY <1>3, <3>0, <3>1, <3>2, <3>3, <3>4
  <2>2. ASSUME clean PROVE CleanJob(t)'
    <3>1. CleanJob(t)
      BY <2>1, <2>2
    <3> USE DEF FactPcs, DmaPcs
    <3>6. CASE WriteParse(t)
      <4>1. Quiescent /\ buf = Bytes(Payload(t)) /\ Payload(t) \in Payloads
        BY <3>1, <3>6 DEF WriteParse, CleanJob, Outside
      <4>2. input' = IF Payload(t) \in Numbers THEN Payload(t) ELSE NoPayload
        BY <3>6, <4>1 DEF WriteParse, Parses, Bytes
      <4>3. \/ Payload(t) \in Numbers /\ input' = Payload(t) /\ pc'[t] = "fact_clear"
            \/ Payload(t) \in Texts /\ pc'[t] = "dma_prepare"
        BY <3>6, <4>1, <4>2, PayloadAssumption DEF WriteParse, Payloads
      <4>4. Quiescent' /\ buf' = Bytes(Payload(t))'
        BY <2>1, <3>6, <4>1 DEF WriteParse, Quiescent, EduIdle, Bytes
      <4> QED BY <2>1, <4>3, <4>4 DEF CleanJob
    <3>2. CASE FactorialClear(t)
      BY <3>1, <3>2, <2>1 DEF FactorialClear, CleanJob, Quiescent, EduIdle
    <3>3. CASE FactorialSubmit(t)
      BY <3>1, <3>3, <2>1
         DEF FactorialSubmit, WriteFactorial, CleanJob, Quiescent, EduIdle,
             FactRun, Input, Payload
    <3>4. CASE DmaPrepare(t)
      BY <3>1, <3>4, <2>1 DEF DmaPrepare, CleanJob, Quiescent, EduIdle, Bytes
    <3>5. CASE DmaSubmit(t)
      <4>1. EchoOut(Payload(t))'
        BY <3>1, <3>5, <2>1 DEF DmaSubmit, StartDma, CleanJob, Quiescent, EduIdle,
                                EchoOut, Engines, Bottom, Bytes
      <4> QED BY <3>1, <3>5, <2>1, <4>1 DEF DmaSubmit, CleanJob
    <3> QED BY <1>3, <3>2, <3>3, <3>4, <3>5, <3>6
  <2>3. aborts = 0 => clean
    BY <2>1, QeduAssumption
  <2> QED BY <2>1, <2>2, <2>3, QeduAssumption DEF FactPcs, DmaPcs
<1> QED BY <1>1, <1>2, <1>3

(* Leaving the critical section: an exact result or none, and rest if clean. *)
LEMMA CleanFinish ==
  ASSUME JobInv, NEW t \in Tasks,
         \/ FactorialDone(t) \/ FactorialAbort(t) \/ DmaDone(t)
         \/ DmaAbort(t) \/ DmaAbortStage(t) \/ CancelAdvance(t) \/ CancelFinish(t)
  PROVE  CleanInv' /\ DrainInv'
<1> USE DEF JobInv, CleanInv, DrainInv, LockInv, IdInv, TypeOK, Goto, bh_vars,
            edu_vars, job_vars
<1>1. lock = t /\ result_size = 0
  BY QeduAssumption
     DEF FactorialDone, FactorialAbort, DmaDone, DmaAbort, DmaAbortStage,
         CancelAdvance, CancelFinish, HeldPcs, FactPcs, DmaPcs, AbortPcs
<1>2. ASSUME FactorialDone(t) \/ DmaDone(t) PROVE CleanInv' /\ DrainInv'
  <2>1. /\ lock' = NoTask /\ clean' = clean /\ aborts' = aborts
        /\ result_io_id' = io_id[t] /\ jobs' = jobs
        /\ pc' = [pc EXCEPT ![t] = "open"]
    BY <1>2 DEF FactorialDone, DmaDone, Succeed, OutUnlock
  <2>2. ASSUME clean PROVE Quiescent' /\ buf' = Expected(Payload(t))
    <3>1. CleanJob(t)
      BY <1>1, <2>2
    <3>2. CASE FactorialDone(t)
      <4>1. FactRun(Payload(t)) /\ Payload(t) \in Numbers
        BY <3>1, <3>2 DEF FactorialDone, CleanJob, FactPcs
      <4> QED BY <3>2, <4>1
              DEF FactorialDone, FactRun, Expected, Fact, Quiescent, EduIdle
    <3>3. CASE DmaDone(t)
      <4>1. Echo(Payload(t)) /\ Payload(t) \in Texts
        BY <3>1, <3>3 DEF DmaDone, CleanJob, Echo, DmaPcs
      <4>2. EchoEnd(Payload(t)) /\ Bottom("off", <<>>, "idle")
        BY <3>3, <4>1 DEF DmaDone, Echo, EchoOut, EchoBack, EchoEnd
      <4> QED BY <3>3, <4>1, <4>2, PayloadAssumption
              DEF DmaDone, EchoEnd, Engines, Bottom, Expected, Bytes, Quiescent,
                  EduIdle
    <3> QED BY <1>2, <3>2, <3>3
  <2>3. jobs'[result_io_id'] = Payload(t)
    BY <2>1 DEF Payload
  <2>4. CleanInv'
    BY <2>1, <2>2, <2>3, QeduAssumption DEF Expected
  <2>5. DrainInv'
    BY <1>1, <2>1, <2>2, QeduAssumption DEF AbortPcs
  <2> QED BY <2>4, <2>5
<1>3. CASE FactorialAbort(t)
  <2>1. lock' = NoTask /\ result_size' = 0 /\ aborts' # 0
    BY <1>1, <1>3 DEF FactorialAbort, WaitAborts, Fail, OutUnlock
  <2> QED BY <2>1, QeduAssumption
<1>4. ASSUME DmaAbort(t) \/ DmaAbortStage(t) \/ CancelAdvance(t)
      PROVE  CleanInv' /\ DrainInv'
  <2>1. /\ lock' = t /\ result_size' = 0 /\ aborts' # 0 /\ pc'[t] \in AbortPcs
    BY <1>1, <1>4, QeduAssumption
       DEF DmaAbort, DmaAbortStage, CancelAdvance, WaitAborts, AbortPcs
  <2>2. CleanJob(t)'
    BY <2>1 DEF CleanJob, AbortPcs, FactPcs, DmaPcs
  <2> QED BY <2>1, <2>2, QeduAssumption
<1>5. CASE CancelFinish(t)
  <2>1. lock' = NoTask /\ result_size' = 0 /\ aborts' # 0
    BY <1>1, <1>5 DEF CancelFinish, Fail, OutUnlock, AbortPcs
  <2> QED BY <2>1, QeduAssumption
<1> QED BY <1>2, <1>3, <1>4, <1>5

-----------------------------------------------------------------------------
(* The theorems *)

LEMMA JobInvInit == Init => JobInv
<1> SUFFICES ASSUME Init PROVE JobInv
  OBVIOUS
<1>1. TypeOK
  BY TypeInit
<1>2. Quiescent
  BY DEF Init, EduInit, Quiescent, EduIdle, IrqOff
<1> QED BY <1>1, <1>2, QeduAssumption
        DEF Init, JobInv, LockInv, IdInv, CleanInv, DrainInv, Outside, HeldPcs,
            FactPcs, DmaPcs, AbortPcs

LEMMA JobInvNext == JobInv /\ [Next]_vars => JobInv'
<1> SUFFICES ASSUME JobInv, [Next]_vars PROVE JobInv'
  OBVIOUS
<1>1. ASSUME NEW t \in Tasks, UserStep(t) PROVE JobInv'
  BY <1>1, TypeTask, LockStep, CleanUser DEF JobInv
<1>2. ASSUME NEW t \in Tasks, JobStep(t) PROVE JobInv'
  <2>1. CleanInv' /\ DrainInv'
    BY <1>2, CleanSubmit, CleanFinish DEF JobStep
  <2> QED BY <1>2, <2>1, TypeTask, LockStep DEF JobInv
<1>3. CASE IrqStep \/ WorkerStep \/ DeviceStep
  BY <1>3, BottomStep
<1>4. ASSUME NEW v \in Timeouts, timeout_ms_store(v) PROVE JobInv'
  <2>1. TypeOK'
    BY <1>4, TypeRest DEF JobInv
  <2>2. UNCHANGED <<pc, io_id, lock, next_io_id, result_size, result_io_id, input, jobs,
                    clean, aborts>> /\ UNCHANGED <<bh_vars, edu_vars>>
    BY <1>4 DEF timeout_ms_store, task_vars
  <2>3. \A u \in Tasks : CleanJob(u) => CleanJob(u)'
    BY <2>2, CleanJobFrame DEF Payload
  <2>4. Quiescent' = Quiescent /\ buf' = buf
    BY <2>2 DEF Quiescent, EduIdle, bh_vars, edu_vars
  <2>5. LockInv' /\ IdInv'
    BY <2>2 DEF JobInv, LockInv, IdInv, Payload
  <2>6. CleanInv' /\ DrainInv'
    BY <2>2, <2>3, <2>4 DEF JobInv, CleanInv, DrainInv, Expected
  <2> QED BY <2>1, <2>5, <2>6 DEF JobInv
<1>5. CASE UNCHANGED vars
  <2>1. UNCHANGED <<pc, io_id, pos, bh_vars, edu_vars, lock, next_io_id,
                    active_io_id, active_engine, result_size, result_io_id,
                    timeout_ms, input, jobs, clean, aborts>>
    BY <1>5 DEF vars, task_vars, job_vars
  <2>2. TypeOK'
    BY <2>1 DEF JobInv, TypeOK, EduTypeOK, bh_vars, edu_vars
  <2>3. \A u \in Tasks : CleanJob(u) => CleanJob(u)'
    BY <2>1, CleanJobFrame DEF Payload
  <2>4. Quiescent' = Quiescent /\ buf' = buf
    BY <2>1 DEF Quiescent, EduIdle, bh_vars, edu_vars
  <2>5. LockInv' /\ IdInv'
    BY <2>1 DEF JobInv, LockInv, IdInv, Payload
  <2>6. CleanInv' /\ DrainInv'
    BY <2>1, <2>3, <2>4 DEF JobInv, CleanInv, DrainInv, Expected
  <2> QED BY <2>2, <2>5, <2>6 DEF JobInv
<1> QED BY <1>1, <1>2, <1>3, <1>4, <1>5 DEF Next

LEMMA JobInvariant == Spec => []JobInv
<1>1. Init => JobInv
  BY JobInvInit
<1>2. JobInv /\ [Next]_vars => JobInv'
  BY JobInvNext
<1> QED BY <1>1, <1>2, PTL DEF Spec

(* Every reachable state of the driver is well typed: among other things each
   work item is pending at most once and timeout_ms stays a usable timeout. *)
THEOREM TypeCorrect == Spec => []TypeOK
<1>1. JobInv => TypeOK
  BY DEF JobInv
<1> QED BY <1>1, JobInvariant, PTL

(* For every number of tasks, writes and aborted waits: a result delivered by a
   job that found the driver at rest is the exact answer to its own write. *)
THEOREM CleanResultsAreExact == Spec => []CleanResultExact
<1>1. JobInv => CleanResultExact
  BY DEF JobInv, CleanResultExact, CleanInv, IdInv, TypeOK
<1> QED BY <1>1, JobInvariant, PTL

(* Until a wait is aborted, both engines, the interrupt and the workqueue are at
   rest whenever the mutex is free. *)
THEOREM UnabortedJobsDrainAlways == Spec => []UnabortedJobsDrain
<1>1. JobInv => UnabortedJobsDrain
  BY DEF JobInv, UnabortedJobsDrain, DrainInv
<1> QED BY <1>1, JobInvariant, PTL

(* A clean job that still waits has an engine, the handler or the workqueue in motion on
   its behalf: qedu_irq_handler() and the two work items lose no wake-up. *)
THEOREM NoWakeupIsLost == Spec => []NoLostWakeup
<1>1. ASSUME JobInv, clean, NEW t \in Tasks,
             pc[t] = "fact_wait", "FACTORIAL" \notin completed_events
      PROVE  ~Quiescent
  <2>1. lock = t
    BY <1>1 DEF JobInv, LockInv, HeldPcs, FactPcs
  <2>2. FactRun(Payload(t))
    BY <1>1, <2>1 DEF JobInv, CleanInv, CleanJob
  <2> QED BY <1>1, <2>2 DEF FactRun, Quiescent, EduIdle
<1>2. ASSUME JobInv, clean, NEW t \in Tasks,
             pc[t] = "dma_wait", "DMA" \notin completed_events
      PROVE  ~Quiescent
  <2>1. lock = t
    BY <1>2 DEF JobInv, LockInv, HeldPcs, DmaPcs
  <2>2. EchoOut(Payload(t)) \/ EchoBack(Payload(t)) \/ EchoEnd(Payload(t))
    BY <1>2, <2>1 DEF JobInv, CleanInv, CleanJob
  <2>3. <<"advance">> # <<>> /\ <<"finish">> # <<>>
    OBVIOUS
  <2>4. CASE EchoOut(Payload(t))
    BY <2>3, <2>4 DEF EchoOut, Handed, Engines, Bottom, Quiescent, EduIdle
  <2>5. CASE EchoBack(Payload(t))
    BY <2>3, <2>5 DEF EchoBack, Handed, Engines, Bottom, Quiescent, EduIdle
  <2>6. CASE EchoEnd(Payload(t))
    BY <1>2, <2>6 DEF EchoEnd, Engines, Bottom, Quiescent, EduIdle
  <2> QED BY <2>2, <2>4, <2>5, <2>6
<1>3. JobInv => NoLostWakeup
  BY <1>1, <1>2 DEF NoLostWakeup
<1> QED BY <1>3, JobInvariant, PTL

-----------------------------------------------------------------------------
(* The driver implements the job service of module EduService. *)
LEMMA ActiveInit == Init => ActiveJobKnown
BY QeduAssumption DEF Init, ActiveJobKnown

LEMMA ActiveNext == JobInv /\ ActiveJobKnown /\ [Next]_vars => ActiveJobKnown'
<1> SUFFICES ASSUME JobInv, ActiveJobKnown, [Next]_vars PROVE ActiveJobKnown'
  OBVIOUS
<1> USE DEF ActiveJobKnown
<1>1. CASE UNCHANGED <<io_id, lock, next_io_id, active_io_id, jobs>>
  BY <1>1
<1>2. ASSUME NEW t \in Tasks, UserStep(t) PROVE ActiveJobKnown'
  <2>1. ASSUME NEW p \in Payloads, WriteEnter(t, p) PROVE ActiveJobKnown'
    <3>1. lock # t
      BY <2>1
         DEF WriteEnter, Goto, JobInv, LockInv, HeldPcs, FactPcs, DmaPcs, AbortPcs
    <3>2. next_io_id' = next_io_id + 1 /\ next_io_id' \in 1..MaxIo
      BY <2>1, QeduAssumption DEF WriteEnter, JobInv, TypeOK
    <3>3. /\ jobs' = [jobs EXCEPT ![next_io_id'] = p]
          /\ io_id' = [io_id EXCEPT ![t] = next_io_id']
          /\ UNCHANGED <<lock, active_io_id>>
      BY <2>1 DEF WriteEnter
    <3> QED BY <3>1, <3>2, <3>3, QeduAssumption DEF JobInv, TypeOK
  <2>2. CASE WriteRejected(t)
    <3>1. /\ next_io_id' = next_io_id + 1 /\ jobs' = jobs
          /\ io_id' = [io_id EXCEPT ![t] = next_io_id']
          /\ UNCHANGED <<lock, active_io_id>> /\ lock # t
      BY <2>2
         DEF WriteRejected, JobInv, TypeOK, LockInv, HeldPcs, FactPcs, DmaPcs, AbortPcs
    <3> QED BY <3>1, QeduAssumption DEF JobInv, TypeOK
  <2>3. CASE \/ qedu_open(t) \/ qedu_release(t) \/ WriteInterrupted(t)
             \/ \E count \in 1..(TextLen + FactLen) : qedu_read(t, count)
    BY <1>1, <2>3 DEF qedu_open, qedu_release, WriteInterrupted, qedu_read, job_vars
  <2> QED BY <1>2, <2>1, <2>2, <2>3 DEF UserStep
<1>3. ASSUME NEW t \in Tasks, JobStep(t) PROVE ActiveJobKnown'
  <2>1. CASE WriteBegin(t)
    BY <2>1, QeduAssumption DEF WriteBegin, ForgetResult
  <2>2. CASE WriteFault(t)
    BY <2>2, QeduAssumption DEF WriteFault, ForgetResult
  <2>3. CASE \/ FactorialDone(t) \/ FactorialAbort(t) \/ DmaDone(t) \/ CancelFinish(t)
    <3>1. lock' = NoTask /\ UNCHANGED <<next_io_id, jobs>>
      BY <2>3 DEF FactorialDone, FactorialAbort, DmaDone, CancelFinish, Succeed, Fail,
                  OutUnlock
    <3> QED BY <3>1, QeduAssumption
  <2>4. CASE \/ WriteParse(t) \/ FactorialClear(t) \/ FactorialSubmit(t) \/ DmaPrepare(t)
             \/ DmaSubmit(t) \/ DmaAbort(t) \/ DmaAbortStage(t) \/ CancelAdvance(t)
    BY <1>1, <2>4 DEF WriteParse, FactorialClear, FactorialSubmit, DmaPrepare, DmaSubmit, DmaAbort,
                      DmaAbortStage, CancelAdvance, job_vars
  <2> QED BY <1>3, <2>1, <2>2, <2>3, <2>4 DEF JobStep
<1>4. CASE IrqStep \/ WorkerStep \/ DeviceStep
  BY <1>1, <1>4
     DEF IrqStep, IrqRead, IrqAck, IrqStage, IrqQueue, WorkerStep, AdvanceBegin,
         AdvanceClear, AdvanceStart, FinishBegin, FinishPublish, DeviceStep, task_vars,
         job_vars
<1>5. CASE \E v \in Timeouts : timeout_ms_store(v)
  BY <1>1, <1>5 DEF timeout_ms_store, task_vars
<1>6. CASE UNCHANGED vars
  BY <1>1, <1>6 DEF vars, task_vars, job_vars
<1> QED BY <1>2, <1>3, <1>4, <1>5, <1>6 DEF Next

-----------------------------------------------------------------------------
(* What a step does to the variables of the service. *)

(* The variables of the service, expressed in the driver's. *)
Holder == IF lock = NoTask THEN 0 ELSE active_io_id
Answer == IF result_size = 0 THEN [id |-> 0, data |-> Zeroed]
          ELSE [id |-> result_io_id, data |-> buf]
Mapped == <<jobs, Holder, Answer, aborts > 0, clean>>

(* Both modules read EduData alike. *)
LEMMA SameData ==
  /\ Service!NoAnswer = [id |-> 0, data |-> Zeroed]
  /\ Service!Payloads = Payloads
  /\ Service!Content = Content
  /\ \A p : Service!Expected(p) = Expected(p)
BY DEF Service!NoAnswer, Service!Zeroed, Zeroed, Service!Payloads, Payloads,
       Service!Content, Content, Service!Expected, Expected, Service!Fact, Fact,
       Service!Bytes, Bytes

(* A task inside the critical section: its id is the one served. *)
LEMMA Serving ==
  ASSUME JobInv, ActiveJobKnown, NEW t \in Tasks, pc[t] \in HeldPcs
  PROVE  /\ lock = t /\ result_size = 0 /\ Holder = io_id[t] /\ Holder # 0
         /\ Answer = [id |-> 0, data |-> Zeroed] /\ jobs[Holder] = Payload(t)
<1>1. lock = t
  BY DEF JobInv, LockInv
<1>2. pc[t] \notin Outside /\ lock # NoTask
  BY <1>1, QeduAssumption DEF Outside, HeldPcs, FactPcs, DmaPcs, AbortPcs
<1>3. result_size = 0
  BY <1>1, <1>2, QeduAssumption DEF JobInv, IdInv, TypeOK
<1>4. io_id[t] \in 1..next_io_id
  BY <1>2 DEF JobInv, IdInv
<1>5. Holder = io_id[t] /\ Holder # 0
  BY <1>1, <1>2, <1>4 DEF ActiveJobKnown, Holder, JobInv, TypeOK
<1> QED BY <1>1, <1>3, <1>5 DEF Answer, Payload

LEMMA RefineUser ==
  ASSUME JobInv, ActiveJobKnown, NEW t \in Tasks, UserStep(t)
  PROVE  Service!Submit \/ UNCHANGED Mapped
<1>1. ASSUME NEW p \in Payloads, WriteEnter(t, p) PROVE Service!Submit
  <2>1. next_io_id' = next_io_id + 1 /\ next_io_id' \in 1..MaxIo
    BY <1>1, QeduAssumption DEF WriteEnter, JobInv, TypeOK
  <2>2. jobs[next_io_id'] = NoPayload
    BY <2>1 DEF ActiveJobKnown, JobInv, TypeOK
  <2>3. /\ jobs' = [jobs EXCEPT ![next_io_id'] = p]
        /\ UNCHANGED <<lock, active_io_id, result_size, result_io_id, clean, aborts, buf>>
    BY <1>1 DEF WriteEnter, edu_vars
  <2> QED BY <2>1, <2>2, <2>3, SameData DEF Service!Submit
<1>2. CASE \/ qedu_open(t) \/ qedu_release(t) \/ WriteInterrupted(t)
           \/ \E count \in 1..(TextLen + FactLen) : qedu_read(t, count)
           \/ WriteRejected(t)
  <2>1. UNCHANGED <<jobs, lock, active_io_id, result_size, result_io_id, clean, aborts, buf>>
    BY <1>2 DEF qedu_open, qedu_release, WriteInterrupted, qedu_read, WriteRejected,
                job_vars, edu_vars
  <2> QED BY <2>1 DEF Mapped, Holder, Answer
<1> QED BY <1>1, <1>2 DEF UserStep

(* Taking the mutex is Accept, a fault while copying is Refuse. *)
LEMMA RefineAccept ==
  ASSUME JobInv, NEW t \in Tasks, WriteBegin(t) \/ WriteFault(t)
  PROVE  Service!Accept \/ Service!Refuse
<1>1. pc[t] = "lock" /\ lock = NoTask
  BY DEF WriteBegin, WriteFault, Goto
<1>2. Holder = 0
  BY <1>1 DEF Holder
<1>3. CASE WriteBegin(t)
  <2>1. io_id[t] \in 1..next_io_id /\ Payload(t) \in Payloads
    BY <1>1 DEF JobInv, IdInv, Outside
  <2>2. io_id[t] \in 1..MaxIo /\ jobs[io_id[t]] # NoPayload
    BY <2>1, QeduAssumption, PayloadAssumption DEF JobInv, TypeOK, Payload, Payloads
  <2>3. /\ Holder' = io_id[t]
        /\ Answer' = [id |-> 0, data |-> Zeroed]
    BY <1>3, QeduAssumption DEF WriteBegin, ForgetResult, Holder, Answer, Zeroed
  <2>4. clean' \in IF aborts > 0 THEN BOOLEAN ELSE {TRUE}
    <3>1. Quiescent \in BOOLEAN
      BY DEF Quiescent, EduIdle
    <3>2. aborts > 0 \/ aborts = 0
      BY QeduAssumption DEF JobInv, TypeOK
    <3>3. aborts = 0 => Quiescent
      BY <1>1 DEF JobInv, DrainInv
    <3> QED BY <1>3, <3>1, <3>2, <3>3 DEF WriteBegin
  <2>5. UNCHANGED <<jobs, aborts>>
    BY <1>3 DEF WriteBegin
  <2> QED BY <1>2, <2>2, <2>3, <2>4, <2>5, SameData
          DEF Service!Accept, Holder, Answer
<1>4. CASE WriteFault(t)
  <2>1. Holder' = 0 /\ Answer' = [id |-> 0, data |-> Zeroed]
    BY <1>1, <1>4 DEF WriteFault, ForgetResult, Holder, Answer, Zeroed
  <2>2. UNCHANGED <<jobs, aborts, clean>>
    BY <1>4 DEF WriteFault
  <2> QED BY <1>2, <2>1, <2>2, SameData DEF Service!Refuse, Holder, Answer
<1> QED BY <1>3, <1>4

(* A job that returned 0 delivers; CleanInv' says what it delivers. *)
LEMMA RefineDeliver ==
  ASSUME JobInv, JobInv', ActiveJobKnown, NEW t \in Tasks,
         FactorialDone(t) \/ DmaDone(t)
  PROVE  Service!Deliver
<1>1. pc[t] \in HeldPcs
  BY DEF FactorialDone, DmaDone, Goto, HeldPcs, FactPcs, DmaPcs
<1>2. Holder = io_id[t] /\ Holder # 0
  BY <1>1, Serving
<1>3. /\ lock' = NoTask /\ result_size' > 0 /\ result_size' # 0
      /\ result_io_id' = io_id[t] /\ UNCHANGED <<jobs, aborts, clean>>
  BY QeduAssumption DEF FactorialDone, DmaDone, Succeed, OutUnlock
<1>4. Holder' = 0 /\ Answer' = [id |-> Holder, data |-> buf']
  BY <1>2, <1>3 DEF Holder, Answer
<1>5. clean => buf' = Expected(jobs[Holder])
  BY <1>2, <1>3 DEF JobInv, CleanInv, Expected
<1>6. buf' \in Content
  BY DEF JobInv, TypeOK, EduTypeOK
<1> QED BY <1>2, <1>3, <1>4, <1>5, <1>6, SameData DEF Service!Deliver, Holder, Answer

(* Giving up, and the steps of the service inside the critical section. *)
LEMMA RefineHeld ==
  ASSUME JobInv, ActiveJobKnown, NEW t \in Tasks,
         \/ WriteParse(t) \/ FactorialClear(t) \/ FactorialSubmit(t) \/ FactorialAbort(t)
         \/ DmaPrepare(t) \/ DmaSubmit(t) \/ DmaAbort(t) \/ DmaAbortStage(t)
         \/ CancelAdvance(t) \/ CancelFinish(t)
  PROVE  Service!GiveUp \/ UNCHANGED Mapped
<1>1. pc[t] \in HeldPcs
  BY DEF WriteParse, FactorialClear, FactorialSubmit, FactorialAbort, DmaPrepare, DmaSubmit,
         DmaAbort, DmaAbortStage, CancelAdvance, CancelFinish, Goto, HeldPcs, FactPcs,
         DmaPcs, AbortPcs
<1>2. /\ lock = t /\ result_size = 0 /\ Holder = io_id[t] /\ Holder # 0
      /\ Answer = [id |-> 0, data |-> Zeroed]
  BY <1>1, Serving
<1>3. CASE \/ WriteParse(t) \/ FactorialClear(t) \/ FactorialSubmit(t) \/ DmaPrepare(t)
           \/ DmaSubmit(t)
           \/ DmaAbortStage(t) \/ CancelAdvance(t)
  <2>1. UNCHANGED <<jobs, lock, active_io_id, result_size, result_io_id, clean, aborts>>
    BY <1>3 DEF WriteParse, FactorialClear, FactorialSubmit, DmaPrepare, DmaSubmit, DmaAbortStage,
                CancelAdvance, job_vars
  <2>2. UNCHANGED Holder /\ UNCHANGED Answer
    BY <1>2, <2>1 DEF Holder, Answer, Zeroed
  <2> QED BY <2>1, <2>2 DEF Mapped
<1>4. CASE FactorialAbort(t) \/ DmaAbort(t) \/ CancelFinish(t)
  <2>1. /\ lock' \in {NoTask, lock} /\ aborts' > 0
        /\ UNCHANGED <<jobs, active_io_id, result_size, result_io_id, clean>>
    <3>1. CASE FactorialAbort(t)
      BY <3>1, QeduAssumption
         DEF FactorialAbort, WaitAborts, Fail, OutUnlock, JobInv, TypeOK
    <3>2. CASE DmaAbort(t)
      BY <3>2, QeduAssumption DEF DmaAbort, WaitAborts, JobInv, TypeOK
    <3>3. CASE CancelFinish(t)
      <4>1. aborts # 0 /\ aborts \in Nat
        BY <3>3, QeduAssumption
           DEF CancelFinish, Goto, JobInv, DrainInv, TypeOK, AbortPcs
      <4> QED BY <3>3, <4>1 DEF CancelFinish, Fail, OutUnlock
    <3> QED BY <1>4, <3>1, <3>2, <3>3
  <2>2. Holder' \in {0, Holder} /\ Answer' = Answer
    BY <1>2, <2>1 DEF Holder, Answer, Zeroed
  <2> QED BY <1>2, <2>1, <2>2 DEF Service!GiveUp, Holder, Answer
<1> QED BY <1>3, <1>4

(* The handler, the kworker and the device change at most an answer that was not
   sound, after a job was given up. *)
LEMMA RefineBottom ==
  ASSUME JobInv, JobInv', IrqStep \/ WorkerStep \/ DeviceStep
  PROVE  Service!Disturb \/ UNCHANGED Mapped
<1>1. UNCHANGED <<jobs, lock, active_io_id, result_size, result_io_id, clean, aborts>>
  BY DEF IrqStep, IrqRead, IrqAck, IrqStage, IrqQueue, WorkerStep, AdvanceBegin,
         AdvanceClear, AdvanceStart, FinishBegin, FinishPublish, DeviceStep, job_vars
<1>2. UNCHANGED Holder
  BY <1>1 DEF Holder
<1>3. CASE result_size = 0
  BY <1>1, <1>2, <1>3 DEF Mapped, Answer, Zeroed
<1>4. CASE result_size # 0
  <2>1. result_size > 0 /\ result_io_id > 0 /\ lock = NoTask
    BY <1>4, QeduAssumption DEF JobInv, IdInv, TypeOK
  <2>2. ~Quiescent
    BY QuiescentStays
  <2>3. ~clean /\ aborts > 0
    BY <2>1, <2>2, QeduAssumption DEF JobInv, CleanInv, DrainInv, TypeOK
  <2>4. /\ Answer = [id |-> result_io_id, data |-> buf]
        /\ Answer' = [Answer EXCEPT !.data = buf']
    BY <1>1, <1>4 DEF Answer
  <2>5. buf' \in Content /\ Answer.id # 0
    BY <2>1, <2>4 DEF JobInv, TypeOK, EduTypeOK
  <2> QED BY <1>1, <1>2, <2>3, <2>4, <2>5, SameData
          DEF Service!Disturb, Holder, Answer
<1> QED BY <1>3, <1>4

-----------------------------------------------------------------------------
LEMMA RefineInit == Init => Service!Init
BY SameData DEF Init, Service!Init

LEMMA RefineNext ==
  JobInv /\ JobInv' /\ ActiveJobKnown /\ [Next]_vars => [Service!Next]_(Service!vars)
<1> SUFFICES ASSUME JobInv, JobInv', ActiveJobKnown, [Next]_vars
             PROVE  Service!Next \/ UNCHANGED Mapped
  BY DEF Service!vars, Mapped, Holder, Answer
<1>1. ASSUME NEW t \in Tasks, UserStep(t) PROVE Service!Next \/ UNCHANGED Mapped
  BY <1>1, RefineUser DEF Service!Next
<1>2. ASSUME NEW t \in Tasks, JobStep(t) PROVE Service!Next \/ UNCHANGED Mapped
  BY <1>2, RefineAccept, RefineDeliver, RefineHeld DEF JobStep, Service!Next
<1>3. CASE IrqStep \/ WorkerStep \/ DeviceStep
  BY <1>3, RefineBottom DEF Service!Next
<1>4. CASE \E v \in Timeouts : timeout_ms_store(v)
  <2>1. UNCHANGED <<jobs, lock, active_io_id, result_size, result_io_id, clean, aborts, buf>>
    BY <1>4 DEF timeout_ms_store, edu_vars
  <2> QED BY <2>1 DEF Mapped, Holder, Answer
<1>5. CASE UNCHANGED vars
  <2>1. UNCHANGED <<jobs, lock, active_io_id, result_size, result_io_id, clean, aborts, buf>>
    BY <1>5 DEF vars, job_vars, edu_vars
  <2> QED BY <2>1 DEF Mapped, Holder, Answer
<1> QED BY <1>1, <1>2, <1>3, <1>4, <1>5 DEF Next

(* The id the handler reads without the mutex is that of the write being served,
   and no id is used before it is handed out. *)
THEOREM ActiveJobKnownAlways == Spec => []ActiveJobKnown
<1>1. Spec => []JobInv
  BY JobInvariant
<1>2. Init => ActiveJobKnown
  BY ActiveInit
<1>3. JobInv /\ ActiveJobKnown /\ [Next]_vars => ActiveJobKnown'
  BY ActiveNext
<1> QED BY <1>1, <1>2, <1>3, PTL DEF Spec

(* The driver, with its device, interrupts and work items, implements the job
   service: one job at a time, each answered with its own bytes or given up, and
   unsound only after a job was given up. *)
THEOREM QeduImplementsService == Spec => ImplementsService
<1>1. Spec => []JobInv
  BY JobInvariant
<1>2. Spec => []ActiveJobKnown
  BY ActiveJobKnownAlways
<1>3. Init => Service!Init
  BY RefineInit
<1>4. JobInv /\ JobInv' /\ ActiveJobKnown /\ [Next]_vars => [Service!Next]_(Service!vars)
  BY RefineNext
<1> QED BY <1>1, <1>2, <1>3, <1>4, PTL DEF Spec, ImplementsService, Service!Spec

-----------------------------------------------------------------------------
(* The binding *)


Elems(s) == {s[i] : i \in 1..Len(s)}

\* What must be gone from the list before what.
Order == {<<"irq", "bar0">>, <<"irq", "drvdata">>, <<"wq", "buffer">>, <<"wq", "bar0">>,
          <<"irq", "wq">>, <<"irq", "cancel_advance">>, <<"irq", "cancel_finish">>,
          <<"cancel_advance", "wq">>, <<"cancel_finish", "wq">>}

Ordered(s) == \A p \in Order : \A i, j \in 1..Len(s) : s[i] = p[1] /\ s[j] = p[2] => i < j
NoRepeats(s) == \A i, j \in 1..Len(s) : s[i] = s[j] => i = j

\* A list that gives back exactly the resources in held, in a legal order;
\* debugfs may be called in vain.
Undoes(s, held) ==
  /\ s \in Seq(Steps)
  /\ held \subseteq Elems(s)
  /\ \A i \in 1..Len(s) : s[i] \in Resources \ {"debugfs"} => s[i] \in held
  /\ NoRepeats(s)
  /\ Ordered(s)
  /\ {"irq", "wq"} \subseteq held => {"cancel_advance", "cancel_finish"} \subseteq Elems(s)

\* What the probe holds when step k of its plan is next.
Held(plan, k) == {plan[i] : i \in 1..(k - 1)} \cap Resources

Plans == {ProbePlan(TRUE), ProbePlan(FALSE)}

Probing(plan, k) ==
  /\ k \in 1..Len(plan)
  /\ todo = SubSeq(plan, k, Len(plan))
  /\ res = Held(plan, k)

\* The list and the resources are those of one place in probe or remove.
LifeInv ==
  /\ drv \in Phases
  /\ res \subseteq Resources
  /\ drv = "unbound" => res = {}
  /\ drv = "bound" => Resources \ {"debugfs"} \subseteq res
  /\ drv = "probing" => \E plan \in Plans : \E k \in 1..16 : Probing(plan, k)
  /\ drv = "teardown" => todo # <<>> /\ Undoes(todo, res)

\* Whoever uses a resource finds the ones it rests on.
Pinned(held) ==
  /\ "irq" \in held => {"drvdata", "bar0"} \subseteq held
  /\ "wq" \in held => {"buffer", "bar0"} \subseteq held

UseTypes ==
  /\ pc \in [Tasks -> Outside \cup {"lock"} \cup HeldPcs]
  /\ wq \in Queues
  /\ worker \in {"idle", "sleep", "start", "publish"}
  /\ irq \in IrqState
  /\ dma_stage \in Stages
  /\ irq_status \subseteq IrqSources

\* A file is open only while the whole driver is there.
FilesInv ==
  \A t \in Tasks : pc[t] # "closed" =>
    \/ drv = "bound"
    \/ drv = "probing" /\ Head(todo) = "debugfs"

\* The handler, the kworker and the queue use only what is held.
Uses ==
  /\ irq.at # "off" => "irq" \in res
  /\ irq.at = "queue" => "wq" \in res
  /\ worker # "idle" \/ wq # <<>> => "wq" \in res

\* With the handler gone, a work item that was cancelled is gone for good.
Cancelled ==
  drv = "teardown" /\ "irq" \notin res =>
    /\ "cancel_advance" \notin Elems(todo) => ~Pending("advance") /\ worker \notin {"sleep", "start"}
    /\ "cancel_finish" \notin Elems(todo) => ~Pending("finish") /\ worker # "publish"

UseInv == Pinned(res) /\ Uses /\ Cancelled

BindingInv == LifeInv /\ UseTypes /\ FilesInv /\ UseInv

\* A transfer and its completion, on the way to the waiting job, are in one place at a time.
NoTransfer ==
  /\ dma_cmd = "none" /\ "DMA" \notin irq_status
  /\ irq.at \notin {"stage", "queue"} /\ wq = <<>> /\ worker = "idle"

OneTransfer ==
  LET engine  == dma_cmd # "none"
      line    == "DMA" \in irq_status
      handler == irq.at \in {"stage", "queue"}
      queue   == wq # <<>>
      kworker == worker # "idle"
      done    == "DMA" \in completed_events
  IN /\ engine => ~(line \/ handler \/ queue \/ kworker \/ done)
     /\ line => ~(handler \/ queue \/ kworker \/ done)
     /\ handler => ~(queue \/ kworker \/ done)
     /\ queue => ~(kworker \/ done)
     /\ kworker => ~done
     /\ Len(wq) <= 1

\* The self-test's transfer raises no interrupt.
Smoking ==
  /\ drv = "probing" /\ Head(todo) = "poll_smoke" /\ ~dma_irq
  /\ "DMA" \notin irq_status /\ irq.at \notin {"stage", "queue"}
  /\ wq = <<>> /\ worker = "idle"

\* A completion the handler has read is still on the line until it is acknowledged.
AckedOnLine == irq.at = "ack" /\ "DMA" \in irq.status => "DMA" \in irq_status

Whereabouts ==
  \/ NoTransfer
  \/ OneTransfer /\ \E t \in Tasks : pc[t] = "dma_wait"
  \/ Smoking

\* Without an aborted wait or poll a transfer belongs to the job that waits for it.
DmaInv ==
  aborts = 0 /\ ~poll_out =>
    /\ \A t \in Tasks : pc[t] \notin AbortPcs
    /\ \A t \in Tasks : pc[t] = "dma_submit" => "DMA" \notin completed_events
    /\ AckedOnLine
    /\ Whereabouts
    /\ ~dma_stale
    /\ ~wild

WildInv == BindingInv /\ aborts \in Nat /\ LockInv /\ DmaInv

LEMMA NonEmpty ==
  ASSUME NEW s, Len(s) # 0
  PROVE  s # <<>>
OBVIOUS

-----------------------------------------------------------------------------
(* Lists of things to do *)

LEMMA ElemsMember ==
  ASSUME NEW s, NEW i \in 1..Len(s)
  PROVE  s[i] \in Elems(s)
BY DEF Elems

(* The first entry of a list, and what is left of it. *)
LEMMA TailFacts ==
  ASSUME NEW s \in Seq(Steps), s # <<>>
  PROVE  /\ Tail(s) \in Seq(Steps)
         /\ Len(s) \in Nat /\ Len(s) > 0
         /\ Len(Tail(s)) = Len(s) - 1
         /\ Head(s) = s[1]
         /\ \A i \in 1..Len(Tail(s)) : Tail(s)[i] = s[i + 1] /\ i + 1 \in 1..Len(s)
         /\ Elems(s) = {Head(s)} \cup Elems(Tail(s))
<1>1. Len(s) \in Nat /\ Len(s) > 0
  BY EmptySeq, LenProperties
<1>2. Tail(s) \in Seq(Steps) /\ Len(Tail(s)) = Len(s) - 1 /\ Head(s) = s[1]
  BY HeadTailProperties
<1>3. \A i \in 1..Len(Tail(s)) : Tail(s)[i] = s[i + 1] /\ i + 1 \in 1..Len(s)
  BY <1>1, <1>2, HeadTailProperties
<1>4. ASSUME NEW x \in Elems(s) PROVE x \in {Head(s)} \cup Elems(Tail(s))
  <2>1. PICK i \in 1..Len(s) : x = s[i]
    BY DEF Elems
  <2>2. CASE i = 1
    BY <1>2, <2>1, <2>2
  <2>3. CASE i # 1
    <3>1. i - 1 \in 1..Len(Tail(s)) /\ (i - 1) + 1 = i
      BY <1>1, <1>2, <2>3
    <3>2. Tail(s)[i - 1] = x
      BY <1>3, <2>1, <3>1
    <3> QED BY <3>1, <3>2 DEF Elems
  <2> QED BY <2>2, <2>3
<1>5. ASSUME NEW x \in {Head(s)} \cup Elems(Tail(s)) PROVE x \in Elems(s)
  <2>1. CASE x = Head(s)
    <3>1. 1 \in 1..Len(s)
      BY <1>1
    <3> QED BY <1>2, <2>1, <3>1 DEF Elems
  <2>2. CASE x \in Elems(Tail(s))
    <3>1. PICK i \in 1..Len(Tail(s)) : x = Tail(s)[i]
      BY <2>2 DEF Elems
    <3> QED BY <1>3, <3>1 DEF Elems
  <2> QED BY <2>1, <2>2
<1> QED BY <1>1, <1>2, <1>3, <1>4, <1>5

(* Doing the first entry leaves a list for what is still held. *)
LEMMA UndoesTail ==
  ASSUME NEW s, NEW held, s # <<>>, Undoes(s, held),
         NEW less, less = held \ {Head(s)}
  PROVE  /\ Tail(s) \in Seq(Steps)
         /\ less \subseteq Elems(Tail(s))
         /\ Undoes(Tail(s), less)
         /\ Head(s) \notin Elems(Tail(s))
         /\ \A p \in Order : Head(s) = p[2] => p[1] \notin Elems(s)
<1>0. s \in Seq(Steps)
  BY DEF Undoes
<1>1. /\ Tail(s) \in Seq(Steps) /\ Len(s) \in Nat /\ Len(s) > 0
      /\ Len(Tail(s)) = Len(s) - 1 /\ Head(s) = s[1]
      /\ \A i \in 1..Len(Tail(s)) : Tail(s)[i] = s[i + 1] /\ i + 1 \in 1..Len(s)
      /\ Elems(s) = {Head(s)} \cup Elems(Tail(s))
  BY <1>0, TailFacts
<1>2. less \subseteq Elems(Tail(s))
  BY <1>1 DEF Undoes
<1>3. Head(s) \notin Elems(Tail(s))
  <2>1. SUFFICES ASSUME NEW i \in 1..Len(Tail(s)), Head(s) = Tail(s)[i] PROVE FALSE
    BY DEF Elems
  <2>2. s[1] = s[i + 1] /\ i + 1 \in 1..Len(s) /\ 1 \in 1..Len(s)
    BY <1>1, <2>1
  <2>3. 1 = i + 1
    BY <2>2 DEF Undoes, NoRepeats
  <2> QED BY <2>3, <1>1
<1>4. \A i \in 1..Len(Tail(s)) : Tail(s)[i] \in Resources \ {"debugfs"} => Tail(s)[i] \in less
  <2>1. SUFFICES ASSUME NEW i \in 1..Len(Tail(s)), Tail(s)[i] \in Resources \ {"debugfs"}
                 PROVE  Tail(s)[i] \in less
    OBVIOUS
  <2>2. Tail(s)[i] \in held
    BY <1>1, <2>1 DEF Undoes
  <2>3. Tail(s)[i] # Head(s)
    BY <1>3, ElemsMember
  <2> QED BY <2>2, <2>3
<1>5. NoRepeats(Tail(s))
  <2>1. SUFFICES ASSUME NEW i \in 1..Len(Tail(s)), NEW j \in 1..Len(Tail(s)),
                        Tail(s)[i] = Tail(s)[j]
                 PROVE  i = j
    BY DEF NoRepeats
  <2>2. s[i + 1] = s[j + 1] /\ i + 1 \in 1..Len(s) /\ j + 1 \in 1..Len(s)
    BY <1>1, <2>1
  <2>3. i + 1 = j + 1
    BY <2>2 DEF Undoes, NoRepeats
  <2> QED BY <1>1, <2>3
<1>6. Ordered(Tail(s))
  <2>1. SUFFICES ASSUME NEW p \in Order, NEW i \in 1..Len(Tail(s)), NEW j \in 1..Len(Tail(s)),
                        Tail(s)[i] = p[1], Tail(s)[j] = p[2]
                 PROVE  i < j
    BY DEF Ordered
  <2>2. s[i + 1] = p[1] /\ s[j + 1] = p[2] /\ i + 1 \in 1..Len(s) /\ j + 1 \in 1..Len(s)
    BY <1>1, <2>1
  <2>3. i + 1 < j + 1
    BY <2>2 DEF Undoes, Ordered
  <2> QED BY <1>1, <2>3
<1>7. \A p \in Order : Head(s) = p[2] => p[1] \notin Elems(s)
  <2>1. SUFFICES ASSUME NEW p \in Order, Head(s) = p[2], NEW i \in 1..Len(s), s[i] = p[1]
                 PROVE  FALSE
    BY DEF Elems
  <2>2. s[1] = p[2] /\ 1 \in 1..Len(s)
    BY <1>1, <2>1
  <2>3. i < 1
    BY <2>1, <2>2 DEF Undoes, Ordered
  <2> QED BY <1>1, <2>3
<1>8. {"irq", "wq"} \subseteq less => {"cancel_advance", "cancel_finish"} \subseteq Elems(Tail(s))
  <2>1. SUFFICES ASSUME {"irq", "wq"} \subseteq less
                 PROVE  {"cancel_advance", "cancel_finish"} \subseteq Elems(Tail(s))
    OBVIOUS
  <2>2. {"cancel_advance", "cancel_finish"} \subseteq Elems(s) /\ "irq" \in Elems(s)
    BY <2>1 DEF Undoes
  <2>3. <<"irq", "cancel_advance">> \in Order /\ <<"irq", "cancel_finish">> \in Order
    BY DEF Order
  <2>4. Head(s) # "cancel_advance"
    BY <1>7, <2>2, <2>3
  <2>5. Head(s) # "cancel_finish"
    BY <1>7, <2>2, <2>3
  <2> QED BY <1>1, <2>2, <2>4, <2>5
<1> QED BY <1>1, <1>2, <1>3, <1>4, <1>5, <1>6, <1>7, <1>8 DEF Undoes
-----------------------------------------------------------------------------
(* The plans of qedu_probe() and the labels behind it, entry by entry *)

LEMMA LongPlan ==
  /\ ProbePlan(TRUE) \in Seq(Steps)
  /\ Len(ProbePlan(TRUE)) = 16
  /\ ProbePlan(TRUE)[1] = "drvdata" /\ ProbePlan(TRUE)[2] = "enabled" /\ ProbePlan(TRUE)[3] = "regions"
  /\ ProbePlan(TRUE)[4] = "bar0" /\ ProbePlan(TRUE)[5] = "irq" /\ ProbePlan(TRUE)[6] = "dma_mask"
  /\ ProbePlan(TRUE)[7] = "master" /\ ProbePlan(TRUE)[8] = "buffer" /\ ProbePlan(TRUE)[9] = "wq"
  /\ ProbePlan(TRUE)[10] = "factorial" /\ ProbePlan(TRUE)[11] = "poll_factorial" /\ ProbePlan(TRUE)[12] = "raise_irq"
  /\ ProbePlan(TRUE)[13] = "smoke" /\ ProbePlan(TRUE)[14] = "poll_smoke" /\ ProbePlan(TRUE)[15] = "misc"
  /\ ProbePlan(TRUE)[16] = "debugfs"
<1>1. Len(ProbePlan(TRUE)) = 16
  BY DEF ProbePlan, Selftest
<1>2. /\ ProbePlan(TRUE)[1] = "drvdata"
      /\ ProbePlan(TRUE)[2] = "enabled"
      /\ ProbePlan(TRUE)[3] = "regions"
      /\ ProbePlan(TRUE)[4] = "bar0"
      /\ ProbePlan(TRUE)[5] = "irq"
      /\ ProbePlan(TRUE)[6] = "dma_mask"
  BY DEF ProbePlan, Selftest
<1>3. /\ ProbePlan(TRUE)[7] = "master"
      /\ ProbePlan(TRUE)[8] = "buffer"
      /\ ProbePlan(TRUE)[9] = "wq"
      /\ ProbePlan(TRUE)[10] = "factorial"
      /\ ProbePlan(TRUE)[11] = "poll_factorial"
  BY DEF ProbePlan, Selftest
<1>4. /\ ProbePlan(TRUE)[12] = "raise_irq"
      /\ ProbePlan(TRUE)[13] = "smoke"
      /\ ProbePlan(TRUE)[14] = "poll_smoke"
      /\ ProbePlan(TRUE)[15] = "misc"
      /\ ProbePlan(TRUE)[16] = "debugfs"
  BY DEF ProbePlan, Selftest
<1>5. Selftest \in Seq(Steps) /\ <<>> \in Seq(Steps)
  BY DEF Selftest, Steps
<1>6. <<"drvdata", "enabled", "regions", "bar0", "irq", "dma_mask", "master", "buffer",
        "wq">> \in Seq(Steps)
  BY DEF Steps, Resources
<1>7. <<"misc", "debugfs">> \in Seq(Steps)
  BY DEF Steps, Resources
<1>8. ProbePlan(TRUE) \in Seq(Steps)
  BY <1>5, <1>6, <1>7, ConcatProperties DEF ProbePlan
<1> QED BY <1>1, <1>2, <1>3, <1>4, <1>8

LEMMA ShortPlan ==
  /\ ProbePlan(FALSE) \in Seq(Steps)
  /\ Len(ProbePlan(FALSE)) = 11
  /\ ProbePlan(FALSE)[1] = "drvdata" /\ ProbePlan(FALSE)[2] = "enabled" /\ ProbePlan(FALSE)[3] = "regions"
  /\ ProbePlan(FALSE)[4] = "bar0" /\ ProbePlan(FALSE)[5] = "irq" /\ ProbePlan(FALSE)[6] = "dma_mask"
  /\ ProbePlan(FALSE)[7] = "master" /\ ProbePlan(FALSE)[8] = "buffer" /\ ProbePlan(FALSE)[9] = "wq"
  /\ ProbePlan(FALSE)[10] = "misc" /\ ProbePlan(FALSE)[11] = "debugfs"
<1>1. Len(ProbePlan(FALSE)) = 11
  BY DEF ProbePlan, Selftest
<1>2. /\ ProbePlan(FALSE)[1] = "drvdata"
      /\ ProbePlan(FALSE)[2] = "enabled"
      /\ ProbePlan(FALSE)[3] = "regions"
      /\ ProbePlan(FALSE)[4] = "bar0"
      /\ ProbePlan(FALSE)[5] = "irq"
      /\ ProbePlan(FALSE)[6] = "dma_mask"
  BY DEF ProbePlan, Selftest
<1>3. /\ ProbePlan(FALSE)[7] = "master"
      /\ ProbePlan(FALSE)[8] = "buffer"
      /\ ProbePlan(FALSE)[9] = "wq"
      /\ ProbePlan(FALSE)[10] = "misc"
      /\ ProbePlan(FALSE)[11] = "debugfs"
  BY DEF ProbePlan, Selftest
<1>4. Selftest \in Seq(Steps) /\ <<>> \in Seq(Steps)
  BY DEF Selftest, Steps
<1>5. <<"drvdata", "enabled", "regions", "bar0", "irq", "dma_mask", "master", "buffer",
        "wq">> \in Seq(Steps)
  BY DEF Steps, Resources
<1>6. <<"misc", "debugfs">> \in Seq(Steps)
  BY DEF Steps, Resources
<1>7. ProbePlan(FALSE) \in Seq(Steps)
  BY <1>4, <1>5, <1>6, ConcatProperties DEF ProbePlan
<1> QED BY <1>1, <1>2, <1>3, <1>7

(* A list that is given entry by entry undoes what it names. *)

LEMMA PciLabel ==
  /\ PciExit \o <<"drvdata">> # <<>>
  /\ Undoes(PciExit \o <<"drvdata">>, {"bar0", "regions", "enabled", "drvdata"})
<1> DEFINE s == PciExit \o <<"drvdata">>
<1>1. Len(s) = 4
  BY DEF PciExit
<1>2. /\ s[1] = "bar0"
      /\ s[2] = "regions"
      /\ s[3] = "enabled"
      /\ s[4] = "drvdata"
  BY DEF PciExit
<1>3. s \in Seq(Steps)
  BY DEF PciExit, Steps, Resources
<1> HIDE DEF s
<1>4. \A i \in 1..4 : s[i] \in Resources \ {"debugfs"} => s[i] \in {"bar0", "regions", "enabled", "drvdata"}
  BY <1>2 DEF Resources
<1>5. {"bar0", "regions", "enabled", "drvdata"} \subseteq Elems(s)
  BY <1>1, <1>2 DEF Elems, Resources
<1>6. NoRepeats(s)
  BY <1>1, <1>2 DEF NoRepeats
<1>7. Ordered(s)
  BY <1>1, <1>2 DEF Ordered, Order
<1>8. {"irq", "wq"} \subseteq {"bar0", "regions", "enabled", "drvdata"} => {"cancel_advance", "cancel_finish"} \subseteq Elems(s)
  BY <1>1, <1>2 DEF Elems
<1>9. s # <<>>
  BY <1>1
<1>10. Undoes(s, {"bar0", "regions", "enabled", "drvdata"})
  BY <1>1, <1>3, <1>4, <1>5, <1>6, <1>7, <1>8 DEF Undoes
<1> QED BY <1>9, <1>10 DEF s

LEMMA IrqLabel ==
  /\ ErrIrq # <<>>
  /\ Undoes(ErrIrq, {"irq", "bar0", "regions", "enabled", "drvdata"})
<1> DEFINE s == ErrIrq
<1>1. Len(s) = 5
  BY DEF ErrIrq, PciExit
<1>2. /\ s[1] = "irq"
      /\ s[2] = "bar0"
      /\ s[3] = "regions"
      /\ s[4] = "enabled"
      /\ s[5] = "drvdata"
  BY DEF ErrIrq, PciExit
<1>3. s \in Seq(Steps)
  BY DEF ErrIrq, PciExit, Steps, Resources
<1> HIDE DEF s
<1>4. \A i \in 1..5 : s[i] \in Resources \ {"debugfs"} => s[i] \in {"irq", "bar0", "regions", "enabled", "drvdata"}
  BY <1>2 DEF Resources
<1>5. {"irq", "bar0", "regions", "enabled", "drvdata"} \subseteq Elems(s)
  BY <1>1, <1>2 DEF Elems, Resources
<1>6. NoRepeats(s)
  BY <1>1, <1>2 DEF NoRepeats
<1>7. Ordered(s)
  BY <1>1, <1>2 DEF Ordered, Order
<1>8. {"irq", "wq"} \subseteq {"irq", "bar0", "regions", "enabled", "drvdata"} => {"cancel_advance", "cancel_finish"} \subseteq Elems(s)
  BY <1>1, <1>2 DEF Elems
<1>9. s # <<>>
  BY <1>1
<1>10. Undoes(s, {"irq", "bar0", "regions", "enabled", "drvdata"})
  BY <1>1, <1>3, <1>4, <1>5, <1>6, <1>7, <1>8 DEF Undoes
<1> QED BY <1>9, <1>10 DEF s

LEMMA MasterLabel ==
  /\ <<"master">> \o ErrIrq # <<>>
  /\ Undoes(<<"master">> \o ErrIrq, {"master", "irq", "bar0", "regions", "enabled", "drvdata"})
<1> DEFINE s == <<"master">> \o ErrIrq
<1>1. Len(s) = 6
  BY DEF ErrIrq, PciExit
<1>2. /\ s[1] = "master"
      /\ s[2] = "irq"
      /\ s[3] = "bar0"
      /\ s[4] = "regions"
      /\ s[5] = "enabled"
      /\ s[6] = "drvdata"
  BY DEF ErrIrq, PciExit
<1>3. s \in Seq(Steps)
  BY DEF ErrIrq, PciExit, Steps, Resources
<1> HIDE DEF s
<1>4. \A i \in 1..6 : s[i] \in Resources \ {"debugfs"} => s[i] \in {"master", "irq", "bar0", "regions", "enabled", "drvdata"}
  BY <1>2 DEF Resources
<1>5. {"master", "irq", "bar0", "regions", "enabled", "drvdata"} \subseteq Elems(s)
  BY <1>1, <1>2 DEF Elems, Resources
<1>6. NoRepeats(s)
  BY <1>1, <1>2 DEF NoRepeats
<1>7. Ordered(s)
  BY <1>1, <1>2 DEF Ordered, Order
<1>8. {"irq", "wq"} \subseteq {"master", "irq", "bar0", "regions", "enabled", "drvdata"} => {"cancel_advance", "cancel_finish"} \subseteq Elems(s)
  BY <1>1, <1>2 DEF Elems
<1>9. s # <<>>
  BY <1>1
<1>10. Undoes(s, {"master", "irq", "bar0", "regions", "enabled", "drvdata"})
  BY <1>1, <1>3, <1>4, <1>5, <1>6, <1>7, <1>8 DEF Undoes
<1> QED BY <1>9, <1>10 DEF s

LEMMA BufferLabel ==
  /\ <<"buffer", "master">> \o ErrIrq # <<>>
  /\ Undoes(<<"buffer", "master">> \o ErrIrq, {"buffer", "master", "irq", "bar0", "regions", "enabled", "drvdata"})
<1> DEFINE s == <<"buffer", "master">> \o ErrIrq
<1>1. Len(s) = 7
  BY DEF ErrIrq, PciExit
<1>2. /\ s[1] = "buffer"
      /\ s[2] = "master"
      /\ s[3] = "irq"
      /\ s[4] = "bar0"
      /\ s[5] = "regions"
      /\ s[6] = "enabled"
      /\ s[7] = "drvdata"
  BY DEF ErrIrq, PciExit
<1>3. s \in Seq(Steps)
  BY DEF ErrIrq, PciExit, Steps, Resources
<1> HIDE DEF s
<1>4. \A i \in 1..7 : s[i] \in Resources \ {"debugfs"} => s[i] \in {"buffer", "master", "irq", "bar0", "regions", "enabled", "drvdata"}
  BY <1>2 DEF Resources
<1>5. {"buffer", "master", "irq", "bar0", "regions", "enabled", "drvdata"} \subseteq Elems(s)
  BY <1>1, <1>2 DEF Elems, Resources
<1>6. NoRepeats(s)
  BY <1>1, <1>2 DEF NoRepeats
<1>7. Ordered(s)
  BY <1>1, <1>2 DEF Ordered, Order
<1>8. {"irq", "wq"} \subseteq {"buffer", "master", "irq", "bar0", "regions", "enabled", "drvdata"} => {"cancel_advance", "cancel_finish"} \subseteq Elems(s)
  BY <1>1, <1>2 DEF Elems
<1>9. s # <<>>
  BY <1>1
<1>10. Undoes(s, {"buffer", "master", "irq", "bar0", "regions", "enabled", "drvdata"})
  BY <1>1, <1>3, <1>4, <1>5, <1>6, <1>7, <1>8 DEF Undoes
<1> QED BY <1>9, <1>10 DEF s

LEMMA DmaLabel ==
  /\ ErrIrqDma # <<>>
  /\ Undoes(ErrIrqDma, {"irq", "wq", "buffer", "master", "bar0", "regions", "enabled", "drvdata"})
<1> DEFINE s == ErrIrqDma
<1>1. Len(s) = 11
  BY DEF ErrIrqDma, DmaExit, PciExit
<1>2. /\ s[1] = "irq"
      /\ s[2] = "stage"
      /\ s[3] = "cancel_advance"
      /\ s[4] = "cancel_finish"
      /\ s[5] = "wq"
      /\ s[6] = "buffer"
      /\ s[7] = "master"
      /\ s[8] = "bar0"
      /\ s[9] = "regions"
      /\ s[10] = "enabled"
      /\ s[11] = "drvdata"
  BY DEF ErrIrqDma, DmaExit, PciExit
<1>3. s \in Seq(Steps)
  BY DEF ErrIrqDma, DmaExit, PciExit, Steps, Resources
<1> HIDE DEF s
<1>4. \A i \in 1..11 : s[i] \in Resources \ {"debugfs"} => s[i] \in {"irq", "wq", "buffer", "master", "bar0", "regions", "enabled", "drvdata"}
  BY <1>2 DEF Resources
<1>5. {"irq", "wq", "buffer", "master", "bar0", "regions", "enabled", "drvdata"} \subseteq Elems(s)
  BY <1>1, <1>2 DEF Elems, Resources
<1>6. NoRepeats(s)
  BY <1>1, <1>2 DEF NoRepeats
<1>7. Ordered(s)
  BY <1>1, <1>2 DEF Ordered, Order
<1>8. {"irq", "wq"} \subseteq {"irq", "wq", "buffer", "master", "bar0", "regions", "enabled", "drvdata"} => {"cancel_advance", "cancel_finish"} \subseteq Elems(s)
  BY <1>1, <1>2 DEF Elems
<1>9. s # <<>>
  BY <1>1
<1>10. Undoes(s, {"irq", "wq", "buffer", "master", "bar0", "regions", "enabled", "drvdata"})
  BY <1>1, <1>3, <1>4, <1>5, <1>6, <1>7, <1>8 DEF Undoes
<1> QED BY <1>9, <1>10 DEF s

LEMMA RemoveLabel ==
  ASSUME NEW held \in SUBSET Resources, Resources \ {"debugfs"} \subseteq held
  PROVE  RemovePlan # <<>> /\ Undoes(RemovePlan, held)
<1> DEFINE s == RemovePlan
<1>1. Len(s) = 13
  BY DEF RemovePlan, ErrIrqDma, DmaExit, PciExit
<1>2. /\ s[1] = "debugfs"
      /\ s[2] = "misc"
      /\ s[3] = "irq"
      /\ s[4] = "stage"
      /\ s[5] = "cancel_advance"
      /\ s[6] = "cancel_finish"
      /\ s[7] = "wq"
      /\ s[8] = "buffer"
      /\ s[9] = "master"
      /\ s[10] = "bar0"
      /\ s[11] = "regions"
      /\ s[12] = "enabled"
      /\ s[13] = "drvdata"
  BY DEF RemovePlan, ErrIrqDma, DmaExit, PciExit
<1>3. s \in Seq(Steps)
  BY DEF RemovePlan, ErrIrqDma, DmaExit, PciExit, Steps, Resources
<1> HIDE DEF s
<1>4. \A i \in 1..13 : s[i] \in Resources \ {"debugfs"} => s[i] \in held
  BY <1>2 DEF Resources
<1>5. held \subseteq Elems(s)
  BY <1>1, <1>2 DEF Elems, Resources
<1>6. NoRepeats(s)
  BY <1>1, <1>2 DEF NoRepeats
<1>7. Ordered(s)
  BY <1>1, <1>2 DEF Ordered, Order
<1>8. {"irq", "wq"} \subseteq held => {"cancel_advance", "cancel_finish"} \subseteq Elems(s)
  BY <1>1, <1>2 DEF Elems
<1>9. s # <<>>
  BY <1>1
<1>10. Undoes(s, held)
  BY <1>1, <1>3, <1>4, <1>5, <1>6, <1>7, <1>8 DEF Undoes
<1> QED BY <1>9, <1>10 DEF s
-----------------------------------------------------------------------------
(* What the probe holds, and how each failure gives it back *)

LEMMA HeldStep ==
  ASSUME NEW plan, NEW k \in Nat \ {0}
  PROVE  /\ Held(plan, 1) = {}
         /\ Held(plan, k + 1) = Held(plan, k) \cup ({plan[k]} \cap Resources)
<1>1. 1..(1 - 1) = {} /\ 1..((k + 1) - 1) = 1..(k - 1) \cup {k}
  OBVIOUS
<1> QED BY <1>1 DEF Held

(* The steps of the probe that can fail, with what is held when they do. *)
LEMMA HeldAtFailure ==
  ASSUME NEW plan \in Plans, NEW k \in 1..Len(plan),
         plan[k] \notin {"master", "factorial", "raise_irq", "smoke", "debugfs"}
  PROVE
    \/ plan[k] = "drvdata" /\ Held(plan, k) = {}
    \/ plan[k] = "enabled" /\ Held(plan, k) = {"drvdata"}
    \/ plan[k] = "regions" /\ Held(plan, k) = {"drvdata", "enabled"}
    \/ plan[k] = "bar0" /\ Held(plan, k) = {"drvdata", "enabled", "regions"}
    \/ plan[k] = "irq" /\ Held(plan, k) = {"drvdata", "enabled", "regions", "bar0"}
    \/ plan[k] = "dma_mask" /\ Held(plan, k) = {"drvdata", "enabled", "regions", "bar0", "irq"}
    \/ plan[k] = "buffer" /\ Held(plan, k) = {"drvdata", "enabled", "regions", "bar0", "irq", "master"}
    \/ /\ plan[k] = "wq"
       /\ Held(plan, k) = {"drvdata", "enabled", "regions", "bar0", "irq", "master", "buffer"}
    \/ /\ plan[k] \in {"poll_factorial", "poll_smoke", "misc"}
       /\ Held(plan, k) = {"drvdata", "enabled", "regions", "bar0", "irq", "master", "buffer", "wq"}
<1>1. CASE plan = ProbePlan(TRUE)
  <2>1. Len(plan) = 16
    BY <1>1, LongPlan
  <2>2. /\ plan[1] = "drvdata" /\ plan[2] = "enabled" /\ plan[3] = "regions" /\ plan[4] = "bar0"
        /\ plan[5] = "irq" /\ plan[6] = "dma_mask" /\ plan[7] = "master" /\ plan[8] = "buffer"
        /\ plan[9] = "wq" /\ plan[10] = "factorial" /\ plan[11] = "poll_factorial" /\ plan[12] = "raise_irq"
        /\ plan[13] = "smoke" /\ plan[14] = "poll_smoke" /\ plan[15] = "misc" /\ plan[16] = "debugfs"
    BY <1>1, LongPlan
  <2>3. Held(plan, 1) = {}
    BY <2>2 DEF Held, Resources
  <2>4. Held(plan, 2) = {"drvdata"}
    BY <2>2 DEF Held, Resources
  <2>5. Held(plan, 3) = {"drvdata", "enabled"}
    BY <2>2 DEF Held, Resources
  <2>6. Held(plan, 4) = {"drvdata", "enabled", "regions"}
    BY <2>2 DEF Held, Resources
  <2>7. Held(plan, 5) = {"drvdata", "enabled", "regions", "bar0"}
    BY <2>2 DEF Held, Resources
  <2>8. Held(plan, 6) = {"drvdata", "enabled", "regions", "bar0", "irq"}
    BY <2>2 DEF Held, Resources
  <2>9. Held(plan, 8) = {"drvdata", "enabled", "regions", "bar0", "irq", "master"}
    BY <2>2 DEF Held, Resources
  <2>10. Held(plan, 9) = {"drvdata", "enabled", "regions", "bar0", "irq", "master", "buffer"}
    BY <2>2 DEF Held, Resources
  <2>11. Held(plan, 11) = {"drvdata", "enabled", "regions", "bar0", "irq", "master", "buffer", "wq"}
    BY <2>2 DEF Held, Resources
  <2>12. Held(plan, 14) = {"drvdata", "enabled", "regions", "bar0", "irq", "master", "buffer", "wq"}
    BY <2>2, SMTT(40) DEF Held, Resources
  <2>13. Held(plan, 15) = {"drvdata", "enabled", "regions", "bar0", "irq", "master", "buffer", "wq"}
    BY <2>2, SMTT(40) DEF Held, Resources
  <2> QED BY <2>1, <2>2, <2>3, <2>4, <2>5, <2>6, <2>7, <2>8, <2>9, <2>10, <2>11, <2>12, <2>13
<1>2. CASE plan = ProbePlan(FALSE)
  <2>1. Len(plan) = 11
    BY <1>2, ShortPlan
  <2>2. /\ plan[1] = "drvdata" /\ plan[2] = "enabled" /\ plan[3] = "regions" /\ plan[4] = "bar0"
        /\ plan[5] = "irq" /\ plan[6] = "dma_mask" /\ plan[7] = "master" /\ plan[8] = "buffer"
        /\ plan[9] = "wq" /\ plan[10] = "misc" /\ plan[11] = "debugfs"
    BY <1>2, ShortPlan
  <2>3. Held(plan, 1) = {}
    BY <2>2 DEF Held, Resources
  <2>4. Held(plan, 2) = {"drvdata"}
    BY <2>2 DEF Held, Resources
  <2>5. Held(plan, 3) = {"drvdata", "enabled"}
    BY <2>2 DEF Held, Resources
  <2>6. Held(plan, 4) = {"drvdata", "enabled", "regions"}
    BY <2>2 DEF Held, Resources
  <2>7. Held(plan, 5) = {"drvdata", "enabled", "regions", "bar0"}
    BY <2>2 DEF Held, Resources
  <2>8. Held(plan, 6) = {"drvdata", "enabled", "regions", "bar0", "irq"}
    BY <2>2 DEF Held, Resources
  <2>9. Held(plan, 8) = {"drvdata", "enabled", "regions", "bar0", "irq", "master"}
    BY <2>2 DEF Held, Resources
  <2>10. Held(plan, 9) = {"drvdata", "enabled", "regions", "bar0", "irq", "master", "buffer"}
    BY <2>2 DEF Held, Resources
  <2>11. Held(plan, 10) = {"drvdata", "enabled", "regions", "bar0", "irq", "master", "buffer", "wq"}
    BY <2>2 DEF Held, Resources
  <2> QED BY <2>1, <2>2, <2>3, <2>4, <2>5, <2>6, <2>7, <2>8, <2>9, <2>10, <2>11
<1> QED BY <1>1, <1>2 DEF Plans

(* Every label undoes exactly what is held where probe jumps to it. *)
LEMMA ErrorPathUndoes ==
  ASSUME NEW plan \in Plans, NEW k \in 1..Len(plan),
         plan[k] \notin {"master", "factorial", "raise_irq", "smoke", "debugfs"}
  PROVE  \/ ErrorPath(plan[k]) = <<>> /\ Held(plan, k) = {}
         \/ ErrorPath(plan[k]) # <<>> /\ Undoes(ErrorPath(plan[k]), Held(plan, k))
<1>1. CASE /\ plan[k] = "drvdata"
         /\ Held(plan, k) = {}
  BY <1>1 DEF ErrorPath
<1>2. CASE /\ plan[k] = "enabled"
         /\ Held(plan, k) = {"drvdata"}
  <2> DEFINE s == <<"drvdata">>
  <2>1. ErrorPath(plan[k]) = s
    BY <1>2 DEF ErrorPath
  <2>2. Len(s) = 1 /\ s \in Seq(Steps) /\ s[1] = "drvdata"
    BY DEF Steps, Resources
  <2> HIDE DEF s
  <2>3. NoRepeats(s) /\ Ordered(s)
    BY <2>2 DEF NoRepeats, Ordered, Order
  <2>4. Held(plan, k) \subseteq Elems(s) /\ \A i \in 1..Len(s) : s[i] \in Held(plan, k)
    BY <1>2, <2>2 DEF Elems
  <2>5. s # <<>>
    <3>1. Len(s) # 0
      BY <2>2
    <3> QED BY <3>1, NonEmpty
  <2>6. s \in Seq(Steps) /\ "wq" \notin Held(plan, k)
    BY <1>2, <2>2
  <2>7. Undoes(s, Held(plan, k))
    BY <2>3, <2>4, <2>6 DEF Undoes
  <2> QED BY <2>1, <2>5, <2>7
<1>3. CASE /\ plan[k] = "regions"
         /\ Held(plan, k) = {"drvdata", "enabled"}
  <2> DEFINE s == <<"enabled", "drvdata">>
  <2>1. ErrorPath(plan[k]) = s
    BY <1>3 DEF ErrorPath
  <2>2. Len(s) = 2 /\ s \in Seq(Steps) /\ s[1] = "enabled" /\ s[2] = "drvdata"
    BY DEF Steps, Resources
  <2> HIDE DEF s
  <2>3. NoRepeats(s) /\ Ordered(s)
    BY <2>2 DEF NoRepeats, Ordered, Order
  <2>4. Held(plan, k) \subseteq Elems(s) /\ \A i \in 1..Len(s) : s[i] \in Held(plan, k)
    BY <1>3, <2>2 DEF Elems
  <2>5. s # <<>>
    <3>1. Len(s) # 0
      BY <2>2
    <3> QED BY <3>1, NonEmpty
  <2>6. s \in Seq(Steps) /\ "wq" \notin Held(plan, k)
    BY <1>3, <2>2
  <2>7. Undoes(s, Held(plan, k))
    BY <2>3, <2>4, <2>6 DEF Undoes
  <2> QED BY <2>1, <2>5, <2>7
<1>4. CASE /\ plan[k] = "bar0"
         /\ Held(plan, k) = {"drvdata", "enabled", "regions"}
  <2> DEFINE s == <<"regions", "enabled", "drvdata">>
  <2>1. ErrorPath(plan[k]) = s
    BY <1>4 DEF ErrorPath
  <2>2. Len(s) = 3 /\ s \in Seq(Steps) /\ s[1] = "regions" /\ s[2] = "enabled" /\ s[3] = "drvdata"
    BY DEF Steps, Resources
  <2> HIDE DEF s
  <2>3. NoRepeats(s) /\ Ordered(s)
    BY <2>2 DEF NoRepeats, Ordered, Order
  <2>4. Held(plan, k) \subseteq Elems(s) /\ \A i \in 1..Len(s) : s[i] \in Held(plan, k)
    BY <1>4, <2>2 DEF Elems
  <2>5. s # <<>>
    <3>1. Len(s) # 0
      BY <2>2
    <3> QED BY <3>1, NonEmpty
  <2>6. s \in Seq(Steps) /\ "wq" \notin Held(plan, k)
    BY <1>4, <2>2
  <2>7. Undoes(s, Held(plan, k))
    BY <2>3, <2>4, <2>6 DEF Undoes
  <2> QED BY <2>1, <2>5, <2>7
<1>5. CASE /\ plan[k] = "irq"
         /\ Held(plan, k) = {"drvdata", "enabled", "regions", "bar0"}
  <2>1. ErrorPath(plan[k]) = PciExit \o <<"drvdata">>
    BY <1>5 DEF ErrorPath
  <2>2. Held(plan, k) = {"bar0", "regions", "enabled", "drvdata"}
    BY <1>5
  <2> QED BY <2>1, <2>2, PciLabel
<1>6. CASE /\ plan[k] = "dma_mask"
         /\ Held(plan, k) = {"drvdata", "enabled", "regions", "bar0", "irq"}
  <2>1. ErrorPath(plan[k]) = ErrIrq
    BY <1>6 DEF ErrorPath
  <2>2. Held(plan, k) = {"irq", "bar0", "regions", "enabled", "drvdata"}
    BY <1>6
  <2> QED BY <2>1, <2>2, IrqLabel
<1>7. CASE /\ plan[k] = "buffer"
         /\ Held(plan, k) = {"drvdata", "enabled", "regions", "bar0", "irq", "master"}
  <2>1. ErrorPath(plan[k]) = <<"master">> \o ErrIrq
    BY <1>7 DEF ErrorPath
  <2>2. Held(plan, k) = {"master", "irq", "bar0", "regions", "enabled", "drvdata"}
    BY <1>7
  <2> QED BY <2>1, <2>2, MasterLabel
<1>8. CASE /\ plan[k] = "wq"
         /\ Held(plan, k) = {"drvdata", "enabled", "regions", "bar0", "irq", "master", "buffer"}
  <2>1. ErrorPath(plan[k]) = <<"buffer", "master">> \o ErrIrq
    BY <1>8 DEF ErrorPath
  <2>2. Held(plan, k) = {"buffer", "master", "irq", "bar0", "regions", "enabled", "drvdata"}
    BY <1>8
  <2> QED BY <2>1, <2>2, BufferLabel
<1>9. CASE /\ plan[k] \in {"poll_factorial", "poll_smoke", "misc"}
         /\ Held(plan, k) = {"drvdata", "enabled", "regions", "bar0", "irq", "master", "buffer", "wq"}
  <2>1. ErrorPath(plan[k]) = ErrIrqDma
    BY <1>9 DEF ErrorPath
  <2> QED BY <1>9, <2>1, DmaLabel
<1> QED BY HeldAtFailure, <1>1, <1>2, <1>3, <1>4, <1>5, <1>6, <1>7, <1>8, <1>9
-----------------------------------------------------------------------------
(* The list and the resources through a binding *)

LEMMA EmptyElems == Elems(<<>>) = {}
BY DEF Elems

LEMMA PlanShape ==
  ASSUME NEW plan \in Plans
  PROVE  /\ plan \in Seq(Steps) /\ Len(plan) \in {11, 16}
         /\ plan[Len(plan)] = "debugfs"
         /\ \A i \in 1..(Len(plan) - 1) : plan[i] # "debugfs"
<1>1. CASE plan = ProbePlan(TRUE)
  <2>1. plan \in Seq(Steps) /\ Len(plan) = 16 /\ plan[16] = "debugfs"
    BY <1>1, LongPlan
  <2>2. /\ plan[1] = "drvdata" /\ plan[2] = "enabled" /\ plan[3] = "regions" /\ plan[4] = "bar0"
        /\ plan[5] = "irq" /\ plan[6] = "dma_mask" /\ plan[7] = "master" /\ plan[8] = "buffer"
        /\ plan[9] = "wq" /\ plan[15] = "misc"
    BY <1>1, LongPlan
  <2>3. plan[10] = "factorial" /\ plan[11] = "poll_factorial" /\ plan[12] = "raise_irq"
        /\ plan[13] = "smoke" /\ plan[14] = "poll_smoke"
    BY <1>1, LongPlan
  <2>4. \A i \in 1..15 : plan[i] # "debugfs"
    BY <2>2, <2>3
  <2> QED BY <2>1, <2>4
<1>2. CASE plan = ProbePlan(FALSE)
  <2>1. plan \in Seq(Steps) /\ Len(plan) = 11 /\ plan[11] = "debugfs"
    BY <1>2, ShortPlan
  <2>2. /\ plan[1] = "drvdata" /\ plan[2] = "enabled" /\ plan[3] = "regions" /\ plan[4] = "bar0"
        /\ plan[5] = "irq" /\ plan[6] = "dma_mask" /\ plan[7] = "master" /\ plan[8] = "buffer"
        /\ plan[9] = "wq" /\ plan[10] = "misc"
    BY <1>2, ShortPlan
  <2>3. \A i \in 1..10 : plan[i] # "debugfs"
    BY <2>2
  <2> QED BY <2>1, <2>3
<1> QED BY <1>1, <1>2 DEF Plans

(* Where the probe is. *)
LEMMA ProbeFacts ==
  ASSUME NEW plan \in Plans, NEW k, Probing(plan, k)
  PROVE  /\ k \in Nat \ {0} /\ Len(plan) \in Nat /\ k <= Len(plan) /\ Len(plan) <= 16
         /\ Head(todo) = plan[k] /\ plan[k] \in Steps
         /\ k < Len(plan) => Tail(todo) = SubSeq(plan, k + 1, Len(plan)) /\ Tail(todo) # <<>>
         /\ k = Len(plan) => Tail(todo) = <<>>
         /\ plan[k] = "debugfs" <=> k = Len(plan)
<1>1. plan \in Seq(Steps) /\ Len(plan) \in {11, 16}
  BY PlanShape
<1>2. k \in 1..Len(plan) /\ Len(plan) \in Nat /\ Len(plan) <= 16 /\ k \in Nat \ {0}
  <2>0. \A n \in {11, 16} : n \in Nat /\ n <= 16
    OBVIOUS
  <2>1. Len(plan) \in Nat /\ Len(plan) <= 16
    BY <1>1, <2>0, Zenon
  <2>2. k \in 1..Len(plan)
    BY DEF Probing
  <2> QED BY <2>1, <2>2
<1>3. plan[k] \in Steps /\ \A i \in 1..Len(plan) : plan[i] \in Steps
  BY <1>1, <1>2, LenProperties
<1>4. /\ Head(SubSeq(plan, k, Len(plan))) = plan[k]
      /\ Tail(SubSeq(plan, k, Len(plan))) = SubSeq(plan, k + 1, Len(plan))
  BY <1>1, <1>2, HeadTailOfSubSeq
<1>5. todo = SubSeq(plan, k, Len(plan))
  BY DEF Probing
<1>6. ASSUME k < Len(plan) PROVE SubSeq(plan, k + 1, Len(plan)) # <<>>
  <2>1. \A i \in (k + 1)..Len(plan) : plan[i] \in Steps
    BY <1>2, <1>3
  <2>2. k + 1 \in Int /\ Len(plan) \in Int /\ k + 1 <= Len(plan)
    BY <1>2, <1>6
  <2>3. Len(SubSeq(plan, k + 1, Len(plan))) = Len(plan) - (k + 1) + 1
    BY <2>1, <2>2, SubSeqProperties
  <2>4. Len(SubSeq(plan, k + 1, Len(plan))) # 0
    BY <1>2, <1>6, <2>3
  <2> QED BY <2>4, NonEmpty
<1>7. ASSUME k = Len(plan) PROVE SubSeq(plan, k + 1, Len(plan)) = <<>>
  BY <1>2, <1>7, SubSeqEmpty
<1>8. plan[k] = "debugfs" <=> k = Len(plan)
  BY <1>2, PlanShape
<1> QED BY <1>2, <1>3, <1>4, <1>5, <1>6, <1>7, <1>8

(* Only the debugfs directory may be missing when the plan is at its end. *)
LEMMA HeldAtEnd ==
  ASSUME NEW plan \in Plans
  PROVE  Held(plan, Len(plan)) = Resources \ {"debugfs"}
<1>1. \A r \in Resources \ {"debugfs"} : \E i \in 1..(Len(plan) - 1) : plan[i] = r
  <2>1. CASE plan = ProbePlan(TRUE)
    <3>1. Len(plan) = 16
      BY <2>1, LongPlan
    <3>2. /\ plan[1] = "drvdata" /\ plan[2] = "enabled" /\ plan[3] = "regions"
          /\ plan[4] = "bar0" /\ plan[5] = "irq" /\ plan[7] = "master" /\ plan[8] = "buffer"
          /\ plan[9] = "wq" /\ plan[15] = "misc"
      BY <2>1, LongPlan
    <3> QED BY <3>1, <3>2 DEF Resources
  <2>2. CASE plan = ProbePlan(FALSE)
    <3>1. Len(plan) = 11
      BY <2>2, ShortPlan
    <3>2. /\ plan[1] = "drvdata" /\ plan[2] = "enabled" /\ plan[3] = "regions"
          /\ plan[4] = "bar0" /\ plan[5] = "irq" /\ plan[7] = "master" /\ plan[8] = "buffer"
          /\ plan[9] = "wq" /\ plan[10] = "misc"
      BY <2>2, ShortPlan
    <3> QED BY <3>1, <3>2 DEF Resources
  <2> QED BY <2>1, <2>2 DEF Plans
<1> QED BY <1>1, PlanShape DEF Held

(* A successful step of the probe. *)
LEMMA ProbedKeepsLife ==
  ASSUME LifeInv, NEW s \in Steps, Probed(s),
         \/ res' = res \cup {s} /\ s \in Resources
         \/ res' = res /\ s \notin Resources \ {"debugfs"}
  PROVE  LifeInv'
<1>1. PICK plan \in Plans, k \in 1..16 : Probing(plan, k)
  BY DEF LifeInv, Probed
<1>2. /\ k \in Nat \ {0} /\ Len(plan) \in Nat /\ k <= Len(plan) /\ Len(plan) <= 16
      /\ plan[k] = s
      /\ k < Len(plan) => Tail(todo) = SubSeq(plan, k + 1, Len(plan)) /\ Tail(todo) # <<>>
      /\ k = Len(plan) => Tail(todo) = <<>>
      /\ plan[k] = "debugfs" <=> k = Len(plan)
  BY <1>1, ProbeFacts DEF Probed
<1>3. todo' = Tail(todo) /\ drv' = IF Tail(todo) = <<>> THEN "bound" ELSE "probing"
  BY DEF Probed
<1>4. res \subseteq Resources /\ res' \subseteq Resources
  BY DEF LifeInv
<1>5. CASE k < Len(plan)
  <2>1. res' = Held(plan, k + 1)
    <3>1. Held(plan, k + 1) = Held(plan, k) \cup ({plan[k]} \cap Resources)
      BY <1>2, HeldStep
    <3>2. res = Held(plan, k)
      BY <1>1 DEF Probing
    <3> QED BY <1>2, <1>5, <3>1, <3>2
  <2>2. Probing(plan, k + 1)'
    BY <1>2, <1>3, <1>5, <2>1 DEF Probing
  <2>3. drv' = "probing" /\ k + 1 \in 1..16
    BY <1>2, <1>3, <1>5
  <2> QED BY <1>4, <2>2, <2>3 DEF LifeInv, Phases
<1>6. CASE k = Len(plan)
  <2>1. res = Resources \ {"debugfs"}
    BY <1>1, <1>6, HeldAtEnd DEF Probing
  <2>2. drv' = "bound" /\ Resources \ {"debugfs"} \subseteq res'
    BY <1>2, <1>3, <1>6, <2>1
  <2> QED BY <1>4, <2>2 DEF LifeInv, Phases
<1> QED BY <1>2, <1>5, <1>6

(* A failing one. *)
LEMMA FailureKeepsLife ==
  ASSUME LifeInv, ProbeFails
  PROVE  LifeInv'
<1>1. PICK plan \in Plans, k \in 1..16 : Probing(plan, k)
  BY DEF LifeInv, ProbeFails
<1>2. /\ k \in 1..Len(plan) /\ Head(todo) = plan[k] /\ res = Held(plan, k)
  BY <1>1, ProbeFacts DEF Probing
<1>3. plan[k] \notin {"master", "factorial", "raise_irq", "smoke", "debugfs"}
  BY <1>2 DEF ProbeFails
<1>4. \/ ErrorPath(plan[k]) = <<>> /\ Held(plan, k) = {}
      \/ ErrorPath(plan[k]) # <<>> /\ Undoes(ErrorPath(plan[k]), Held(plan, k))
  BY <1>2, <1>3, ErrorPathUndoes
<1>5. /\ todo' = ErrorPath(plan[k]) /\ res' = res
      /\ drv' = IF todo' = <<>> THEN "unbound" ELSE "teardown"
  BY <1>2 DEF ProbeFails
<1>6. res' \subseteq Resources
  BY <1>5 DEF LifeInv
<1>7. CASE todo' = <<>>
  BY <1>2, <1>4, <1>5, <1>6, <1>7 DEF LifeInv, Phases, Undoes
<1>8. CASE todo' # <<>>
  BY <1>2, <1>4, <1>5, <1>6, <1>8 DEF LifeInv, Phases
<1> QED BY <1>7, <1>8

(* One step of the teardown. *)
LEMMA TornDownKeepsLife ==
  ASSUME LifeInv, NEW s, TornDown(s), res' = res \ {s}
  PROVE  LifeInv'
<1>1. drv = "teardown" /\ todo # <<>> /\ Undoes(todo, res) /\ Head(todo) = s
  BY DEF LifeInv, TornDown
<1>2. Undoes(Tail(todo), res') /\ res' \subseteq Elems(Tail(todo)) /\ Tail(todo) \in Seq(Steps)
  BY <1>1, UndoesTail
<1>3. todo' = Tail(todo) /\ drv' = IF Tail(todo) = <<>> THEN "unbound" ELSE "teardown"
  BY DEF TornDown
<1>4. res' \subseteq Resources
  BY DEF LifeInv
<1>5. ASSUME Tail(todo) = <<>> PROVE res' = {}
  <2>1. Elems(Tail(todo)) = {}
    BY <1>5, EmptyElems
  <2> QED BY <1>2, <2>1
<1>6. CASE Tail(todo) = <<>>
  BY <1>3, <1>4, <1>5, <1>6 DEF LifeInv, Phases
<1>7. CASE Tail(todo) # <<>>
  BY <1>2, <1>3, <1>4, <1>7 DEF LifeInv, Phases
<1> QED BY <1>6, <1>7

LEMMA LifeInit == DriverInit => LifeInv
BY DEF DriverInit, LifeInv, Phases

LEMMA LifeNext ==
  ASSUME LifeInv, [DriverNext]_driver_vars
  PROVE  LifeInv'
<1>1. ASSUME NEW b \in BOOLEAN, ProbeBegin(b) PROVE LifeInv'
  <2>1. PICK plan \in Plans : plan = ProbePlan(b)
    BY DEF Plans
  <2>2. plan \in Seq(Steps) /\ Len(plan) \in {11, 16}
    BY PlanShape
  <2>3. drv' = "probing" /\ todo' = plan /\ res' = {}
    BY <1>1, <2>1 DEF ProbeBegin, LifeInv
  <2>4. SubSeq(plan, 1, Len(plan)) = plan
    BY <2>2, SubSeqFull
  <2>5. Probing(plan, 1)'
    BY <2>2, <2>3, <2>4, HeldStep DEF Probing
  <2>6. \E k \in 1..16 : Probing(plan, k)'
    BY <2>5
  <2> QED BY <2>3, <2>6 DEF LifeInv, Phases
<1>2. CASE ProbeStep
  <2>1. CASE qedu_alloc_device
    BY <2>1, ProbedKeepsLife DEF qedu_alloc_device, Steps, Resources
  <2>2. CASE AllocBuffer
    BY <2>2, ProbedKeepsLife DEF AllocBuffer, Steps, Resources
  <2>3. CASE NothingHeld
    BY <2>3, ProbedKeepsLife DEF NothingHeld, Steps, Resources
  <2>4. ASSUME NEW s \in Resources, Acquire(s) PROVE LifeInv'
    <3>1. Probed(s) /\ res' = res \cup {s} /\ s \in Steps
      BY <2>4 DEF Acquire, Steps
    <3> QED BY <3>1, ProbedKeepsLife
  <2>5. CASE TestFactorial
    BY <2>5, ProbedKeepsLife DEF TestFactorial, Steps, Resources
  <2>6. CASE PollDone
    BY <2>6, ProbedKeepsLife DEF PollDone, Steps, Resources
  <2>7. CASE qedu_raise_test_irq
    BY <2>7, ProbedKeepsLife DEF qedu_raise_test_irq, Steps, Resources
  <2>8. CASE qedu_dma_smoke_test
    BY <2>8, ProbedKeepsLife DEF qedu_dma_smoke_test, Steps, Resources
  <2>9. CASE ProbeFails
    BY <2>9, FailureKeepsLife
  <2> QED BY <1>2, <2>1, <2>2, <2>3, <2>4, <2>5, <2>6, <2>7, <2>8, <2>9 DEF ProbeStep
<1>3. CASE RemoveBegin
  <2>1. Resources \ {"debugfs"} \subseteq res /\ res \subseteq Resources
    BY <1>3 DEF RemoveBegin, LifeInv
  <2>2. RemovePlan # <<>> /\ Undoes(RemovePlan, res)
    BY <2>1, RemoveLabel
  <2>3. drv' = "teardown" /\ todo' = RemovePlan /\ res' = res
    BY <1>3 DEF RemoveBegin
  <2> QED BY <2>1, <2>2, <2>3 DEF LifeInv, Phases
<1>4. CASE TeardownStep
  <2>1. CASE FreeIrq
    BY <2>1, TornDownKeepsLife DEF FreeIrq
  <2>2. CASE StopStage
    <3>1. TornDown("stage") /\ res' = res \ {"stage"}
      BY <2>2 DEF StopStage, LifeInv, Resources
    <3> QED BY <3>1, TornDownKeepsLife
  <2>3. CASE CancelWorks
    <3>1. PICK s \in {"cancel_advance", "cancel_finish"} : TornDown(s)
      BY <2>3 DEF CancelWorks
    <3>2. res' = res \ {s}
      BY <2>3 DEF CancelWorks, LifeInv, Resources
    <3> QED BY <3>1, <3>2, TornDownKeepsLife
  <2>4. CASE FreeBuffer
    BY <2>4, TornDownKeepsLife DEF FreeBuffer
  <2>5. ASSUME NEW s \in Resources, Release(s) PROVE LifeInv'
    BY <2>5, TornDownKeepsLife DEF Release
  <2> QED BY <1>4, <2>1, <2>2, <2>3, <2>4, <2>5 DEF TeardownStep
<1>5. CASE UNCHANGED <<drv, todo, res>>
  BY <1>5 DEF LifeInv, Probing
<1>6. CASE \/ \E t \in Tasks : TaskStep(t)
           \/ StoreTimeout \/ HandlerStep \/ KworkerStep \/ EngineStep
           \/ UNCHANGED driver_vars
  <2>1. UNCHANGED <<drv, todo, res>>
    BY <1>6 DEF TaskStep, StoreTimeout, HandlerStep, KworkerStep, EngineStep, BusTransfer,
                life_vars, driver_vars
  <2> QED BY <1>5, <2>1
<1> QED BY <1>1, <1>2, <1>3, <1>4, <1>6 DEF DriverNext

LEMMA LifeInvariant == DriverSpec => []LifeInv
<1>1. DriverInit => LifeInv
  BY LifeInit
<1>2. LifeInv /\ [DriverNext]_driver_vars => LifeInv'
  BY LifeNext
<1> QED BY <1>1, <1>2, PTL DEF DriverSpec

(* Every way out of a binding, from any failing step of qedu_probe() and from
   qedu_remove(), releases exactly the resources that are held, each once. *)
THEOREM TeardownIsExact == DriverSpec => []TeardownExact
<1>1. LifeInv => TeardownExact
  BY DEF LifeInv, TeardownExact, Undoes, Elems, NoRepeats
<1> QED BY <1>1, LifeInvariant, PTL
-----------------------------------------------------------------------------
(* Nobody runs on what is gone *)

(* Where the plans take the resources that others rest on. *)
LEMMA PlanPlaces ==
  ASSUME NEW plan \in Plans
  PROVE  /\ plan[1] = "drvdata" /\ plan[4] = "bar0" /\ plan[5] = "irq"
         /\ plan[8] = "buffer" /\ plan[9] = "wq"
         /\ \A i \in 1..Len(plan) : plan[i] = "irq" => i = 5
         /\ \A i \in 1..Len(plan) : plan[i] = "wq" => i = 9
         /\ \A i \in 1..Len(plan) : plan[i] = "misc" => i = Len(plan) - 1
         /\ \A i \in 1..Len(plan) : plan[i] = "poll_smoke" => i > 9
<1>1. CASE plan = ProbePlan(TRUE)
  <2>1. Len(plan) = 16
    BY <1>1, LongPlan
  <2>2. /\ plan[1] = "drvdata" /\ plan[2] = "enabled" /\ plan[3] = "regions" /\ plan[4] = "bar0"
        /\ plan[5] = "irq" /\ plan[6] = "dma_mask" /\ plan[7] = "master" /\ plan[8] = "buffer"
        /\ plan[9] = "wq" /\ plan[15] = "misc" /\ plan[16] = "debugfs"
    BY <1>1, LongPlan
  <2>3. plan[10] = "factorial" /\ plan[11] = "poll_factorial" /\ plan[12] = "raise_irq"
        /\ plan[13] = "smoke" /\ plan[14] = "poll_smoke"
    BY <1>1, LongPlan
  <2> QED BY <2>1, <2>2, <2>3
<1>2. CASE plan = ProbePlan(FALSE)
  <2>1. Len(plan) = 11
    BY <1>2, ShortPlan
  <2>2. /\ plan[1] = "drvdata" /\ plan[2] = "enabled" /\ plan[3] = "regions" /\ plan[4] = "bar0"
        /\ plan[5] = "irq" /\ plan[6] = "dma_mask" /\ plan[7] = "master" /\ plan[8] = "buffer"
        /\ plan[9] = "wq" /\ plan[10] = "misc" /\ plan[11] = "debugfs"
    BY <1>2, ShortPlan
  <2> QED BY <2>1, <2>2
<1> QED BY <1>1, <1>2 DEF Plans

(* The probe takes nothing before what it rests on, and the file last. *)
LEMMA HeldPinned ==
  ASSUME NEW plan \in Plans, NEW k \in 1..Len(plan)
  PROVE  /\ Pinned(Held(plan, k))
         /\ "wq" \in Held(plan, k) => "irq" \in Held(plan, k)
         /\ "misc" \in Held(plan, k) => k = Len(plan)
<1>1. Len(plan) \in Nat
  BY PlanShape
<1>2. ASSUME "irq" \in Held(plan, k) PROVE {"drvdata", "bar0"} \subseteq Held(plan, k)
  <2>1. 5 \in 1..(k - 1)
    BY <1>1, <1>2, PlanPlaces DEF Held
  <2>2. 1 \in 1..(k - 1) /\ 4 \in 1..(k - 1)
    BY <1>1, <2>1
  <2>3. plan[1] \in Held(plan, k) /\ plan[4] \in Held(plan, k)
    BY <2>2, PlanPlaces DEF Held, Resources
  <2> QED BY <2>3, PlanPlaces
<1>3. ASSUME "wq" \in Held(plan, k) PROVE {"irq", "buffer", "bar0"} \subseteq Held(plan, k)
  <2>1. 9 \in 1..(k - 1)
    BY <1>1, <1>3, PlanPlaces DEF Held
  <2>2. 4 \in 1..(k - 1) /\ 5 \in 1..(k - 1) /\ 8 \in 1..(k - 1)
    BY <1>1, <2>1
  <2>3. plan[4] \in Held(plan, k) /\ plan[5] \in Held(plan, k) /\ plan[8] \in Held(plan, k)
    BY <2>2, PlanPlaces DEF Held, Resources
  <2> QED BY <2>3, PlanPlaces
<1>4. ASSUME "misc" \in Held(plan, k) PROVE k = Len(plan)
  BY <1>1, <1>4, PlanPlaces DEF Held
<1> QED BY <1>2, <1>3, <1>4 DEF Pinned

(* The pending items, as a set. *)
LEMMA PendingFacts ==
  ASSUME wq \in Queues
  PROVE  /\ \A w : Pending(w) <=> w \in Elems(wq)
         /\ Elems(wq) \subseteq Works
         /\ Elems(wq) = {} <=> wq = <<>>
         /\ wq # <<>> => Head(wq) \in Elems(wq) /\ Elems(Tail(wq)) \subseteq Elems(wq)
         /\ \A w \in Works : Elems(Drop(w)) \subseteq Elems(wq) \ {w}
<1>1. \A w : Pending(w) <=> w \in Elems(wq)
  BY DEF Pending, Elems
<1>2. CASE wq = <<>>
  <2>1. Elems(wq) = {}
    BY <1>2, EmptyElems
  <2>2. \A w \in Works : Drop(w) = <<>>
    BY <1>1, <2>1 DEF Drop
  <2> QED BY <1>1, <1>2, <2>1, <2>2, EmptyElems
<1>3. ASSUME NEW w \in Works, wq = <<w>>
      PROVE  /\ Elems(wq) = {w} /\ Head(wq) = w /\ Tail(wq) = <<>>
             /\ \A v \in Works : Elems(Drop(v)) \subseteq Elems(wq) \ {v}
  <2>1. Elems(wq) = {w} /\ Head(wq) = w /\ Tail(wq) = <<>>
    BY <1>3 DEF Elems
  <2>2. Drop(w) = <<>>
    BY <1>1, <2>1 DEF Drop
  <2>3. ASSUME NEW v \in Works, v # w PROVE Drop(v) = <<w>>
    <3>1. Works \ {v} = {w}
      BY <2>3 DEF Works
    <3>2. Pending(w)
      BY <1>1, <2>1
    <3> QED BY <3>1, <3>2 DEF Drop
  <2>4. \A v \in Works : Elems(Drop(v)) \subseteq Elems(wq) \ {v}
    <3>1. Elems(Drop(w)) = {}
      BY <2>2, EmptyElems
    <3>2. \A v \in Works : v # w => Elems(Drop(v)) = {w}
      BY <1>3, <2>1, <2>3
    <3> QED BY <2>1, <3>1, <3>2
  <2> QED BY <2>1, <2>4
<1>4. ASSUME NEW a \in Works, NEW b \in Works, a # b, wq = <<a, b>>
      PROVE  /\ Elems(wq) = {a, b} /\ Head(wq) = a /\ Elems(Tail(wq)) = {b}
             /\ \A v \in Works : Elems(Drop(v)) \subseteq Elems(wq) \ {v}
  <2>1. Elems(wq) = {a, b} /\ Head(wq) = a /\ Tail(wq) = <<b>>
    BY <1>4 DEF Elems
  <2>2. \A w : Elems(<<w>>) = {w}
    BY DEF Elems
  <2>3. ASSUME NEW v \in Works PROVE Elems(Drop(v)) \subseteq Elems(wq) \ {v}
    <3>1. PICK w \in Works : Works \ {v} = {w}
      BY DEF Works
    <3>2. Pending(w) /\ w \in Elems(wq) /\ w # v
      BY <1>1, <1>4, <2>1, <3>1 DEF Works
    <3>3. Drop(v) = <<w>>
      BY <3>1, <3>2 DEF Drop
    <3> QED BY <2>2, <3>2, <3>3
  <2> QED BY <2>1, <2>2, <2>3
<1>5. CASE \E w \in Works : wq = <<w>>
  <2>1. PICK w \in Works : wq = <<w>>
    BY <1>5
  <2>2. wq # <<>>
    BY <2>1
  <2> QED BY <1>1, <1>3, <2>1, <2>2, EmptyElems
<1>6. CASE \E a, b \in Works : a # b /\ wq = <<a, b>>
  <2>1. PICK a \in Works, b \in Works : a # b /\ wq = <<a, b>>
    BY <1>6
  <2>2. wq # <<>>
    BY <2>1
  <2> QED BY <1>1, <1>4, <2>1, <2>2
<1>7. wq = <<>> \/ (\E w \in Works : wq = <<w>>) \/ (\E a, b \in Works : a # b /\ wq = <<a, b>>)
  BY DEF Queues, Works
<1> QED BY <1>2, <1>5, <1>6, <1>7

(* What probe, remove and their steps leave alone. *)
LEMMA LifeFrame ==
  ASSUME \/ \E b \in BOOLEAN : ProbeBegin(b)
         \/ ProbeStep \/ RemoveBegin \/ TeardownStep
  PROVE  UNCHANGED <<pc, worker, irq, lock, aborts>>
BY DEF ProbeBegin, ProbeStep, qedu_alloc_device, AllocBuffer, NothingHeld, Acquire,
       TestFactorial, PollDone, qedu_raise_test_irq, qedu_dma_smoke_test, ProbeFails, RemoveBegin,
       TeardownStep, FreeIrq, StopStage, CancelWorks, FreeBuffer, Release,
       vars, task_vars, job_vars, bh_vars

(* What the driver at work leaves alone. *)
LEMMA WorkFrame ==
  ASSUME \/ \E t \in Tasks : TaskStep(t)
         \/ StoreTimeout \/ HandlerStep \/ KworkerStep \/ EngineStep
  PROVE  UNCHANGED <<drv, todo, res, binds, poll_out>>
BY DEF TaskStep, StoreTimeout, HandlerStep, KworkerStep, EngineStep, BusTransfer, life_vars

LEMMA TypesNext ==
  ASSUME UseTypes, [DriverNext]_driver_vars
  PROVE  UseTypes'
<1> USE DEF UseTypes
<1>1. CASE (\E b \in BOOLEAN : ProbeBegin(b)) \/ RemoveBegin
  BY <1>1 DEF ProbeBegin, RemoveBegin, vars, task_vars, bh_vars, edu_vars
<1>2. CASE ProbeStep
  <2>1. UNCHANGED <<pc, worker, irq>>
    BY <1>2, LifeFrame
  <2>2. wq' = wq /\ dma_stage' \in {dma_stage, "IDLE"}
    BY <1>2 DEF ProbeStep, qedu_alloc_device, AllocBuffer, NothingHeld, Acquire, TestFactorial,
                PollDone, qedu_raise_test_irq, qedu_dma_smoke_test, ProbeFails, vars, bh_vars
  <2>3. irq_status' \in {irq_status, irq_status \cup {"FACTORIAL"}}
    BY <1>2 DEF ProbeStep, qedu_alloc_device, AllocBuffer, NothingHeld, Acquire, TestFactorial,
                PollDone, qedu_raise_test_irq, qedu_dma_smoke_test, ProbeFails, vars, edu_vars,
                Raise
  <2> QED BY <2>1, <2>2, <2>3 DEF Stages, IrqSources
<1>3. CASE TeardownStep
  <2>1. UNCHANGED <<pc, worker, irq, irq_status>>
    BY <1>3, LifeFrame DEF TeardownStep, FreeIrq, StopStage, CancelWorks, FreeBuffer, Release,
                           vars, edu_vars
  <2>2. dma_stage' \in {dma_stage, "IDLE"} /\ wq' \in {wq, Drop("advance"), Drop("finish")}
    BY <1>3 DEF TeardownStep, FreeIrq, StopStage, CancelWorks, FreeBuffer, Release, vars, bh_vars
  <2>3. Drop("advance") \in Queues /\ Drop("finish") \in Queues
    BY QueueFacts DEF Works
  <2> QED BY <2>1, <2>2, <2>3 DEF Stages
<1>4. ASSUME NEW t \in Tasks, TaskStep(t) PROVE UseTypes'
  <2>1. UNCHANGED <<worker, irq, irq_status>>
    BY <1>4 DEF TaskStep, UserStep, JobStep, qedu_open, qedu_release, qedu_read, WriteEnter,
                WriteRejected, WriteInterrupted, WriteBegin, WriteFault, WriteParse,
                FactorialClear, FactorialSubmit, FactorialDone, FactorialAbort, DmaPrepare,
                DmaSubmit, DmaDone, DmaAbort, DmaAbortStage, CancelAdvance, CancelFinish,
                bh_vars, edu_vars
  <2>2. dma_stage' \in {dma_stage, "IDLE", "TO_DEVICE"}
        /\ wq' \in {wq, Drop("advance"), Drop("finish")}
    BY <1>4 DEF TaskStep, UserStep, JobStep, qedu_open, qedu_release, qedu_read, WriteEnter,
                WriteRejected, WriteInterrupted, WriteBegin, WriteFault, WriteParse,
                FactorialClear, FactorialSubmit, FactorialDone, FactorialAbort, DmaPrepare,
                DmaSubmit, DmaDone, DmaAbort, DmaAbortStage, CancelAdvance, CancelFinish,
                bh_vars
  <2>3. pc' \in [Tasks -> Outside \cup {"lock"} \cup HeldPcs]
    BY <1>4 DEF TaskStep, UserStep, JobStep, qedu_open, qedu_release, qedu_read, WriteEnter,
                WriteRejected, WriteInterrupted, WriteBegin, WriteFault, WriteParse,
                FactorialClear, FactorialSubmit, FactorialDone, FactorialAbort, DmaPrepare,
                DmaSubmit, DmaDone, DmaAbort, DmaAbortStage, CancelAdvance, CancelFinish,
                Goto, Outside, HeldPcs, FactPcs, DmaPcs, AbortPcs
  <2>4. Drop("advance") \in Queues /\ Drop("finish") \in Queues
    BY QueueFacts DEF Works
  <2> QED BY <2>1, <2>2, <2>3, <2>4 DEF Stages
<1>5. CASE StoreTimeout
  BY <1>5 DEF StoreTimeout, timeout_ms_store, task_vars, bh_vars, edu_vars
<1>6. CASE HandlerStep
  <2>1. UNCHANGED <<pc, worker, dma_stage>>
    BY <1>6 DEF HandlerStep, IrqRead, IrqAck, IrqStage, IrqQueue, task_vars
  <2>2. irq_status' \subseteq IrqSources
    BY <1>6 DEF HandlerStep, IrqRead, IrqAck, IrqStage, IrqQueue, edu_vars
  <2>3. wq' \in Queues
    <3>1. irq.work \in Works
      BY DEF IrqState
    <3> QED BY <1>6, <3>1, QueueFacts DEF HandlerStep, IrqRead, IrqAck, IrqStage, IrqQueue
  <2>4. irq' \in IrqState
    <3>1. IrqOff \in IrqState
      BY DEF IrqState, IrqOff, Works, IrqSources
    <3>2. CASE IrqRead
      <4>1. [irq EXCEPT !.at = "ack", !.status = irq_status] \in IrqState
        BY Zenon DEF IrqState
      <4> QED BY <3>2, <4>1 DEF IrqRead
    <3>3. CASE IrqAck
      BY <3>1, <3>3 DEF IrqAck, IrqState
    <3>4. CASE IrqStage
      BY <3>1, <3>4 DEF IrqStage, IrqState, Stages, Works
    <3> QED BY <1>6, <3>1, <3>2, <3>3, <3>4 DEF HandlerStep, IrqQueue
  <2> QED BY <2>1, <2>2, <2>3, <2>4
<1>7. CASE KworkerStep
  <2>1. UNCHANGED <<pc, irq, irq_status>>
    BY <1>7 DEF KworkerStep, WorkerStep, AdvanceBegin, AdvanceClear, AdvanceStart, FinishBegin,
                FinishPublish, task_vars, edu_vars
  <2>2. /\ worker' \in {"idle", "sleep", "start", "publish"}
        /\ dma_stage' \in {dma_stage, "IDLE", "FROM_DEVICE"}
        /\ wq' = wq \/ (wq # <<>> /\ wq' = Tail(wq))
    BY <1>7 DEF KworkerStep, WorkerStep, AdvanceBegin, AdvanceClear, AdvanceStart, FinishBegin,
                FinishPublish, Run
  <2> QED BY <2>1, <2>2, QueueFacts DEF Stages
<1>8. CASE EngineStep
  <2>1. UNCHANGED <<pc, wq, worker, irq, dma_stage>>
    BY <1>8 DEF EngineStep, BusTransfer, task_vars, bh_vars
  <2>2. irq_status' \subseteq IrqSources
    BY <1>8 DEF EngineStep, BusTransfer, FactorialEngine, DmaEngine, Raise, IrqSources
  <2> QED BY <2>1, <2>2
<1>9. CASE UNCHANGED driver_vars
  BY <1>9 DEF driver_vars, vars, task_vars, bh_vars, edu_vars
<1> QED BY <1>1, <1>2, <1>3, <1>4, <1>5, <1>6, <1>7, <1>8, <1>9 DEF DriverNext

(* Files are open only inside a whole binding, unless the device is unbound under them. *)
LEMMA FilesNext ==
  ASSUME Unbind = FALSE, LifeInv, UseTypes, FilesInv, [DriverNext]_driver_vars
  PROVE  FilesInv'
<1>1. ASSUME NEW b \in BOOLEAN, ProbeBegin(b) PROVE FilesInv'
  BY <1>1, LifeFrame DEF ProbeBegin, FilesInv
<1>2. ASSUME NEW s, Probed(s), pc' = pc PROVE FilesInv'
  <2>1. PICK plan \in Plans, k \in 1..16 : Probing(plan, k)
    BY <1>2 DEF LifeInv, Probed
  <2>2. Head(todo) = "debugfs" => Tail(todo) = <<>>
    BY <2>1, ProbeFacts
  <2> QED BY <1>2, <2>2 DEF Probed, FilesInv
<1>3. CASE ProbeStep
  <2>1. pc' = pc
    BY <1>3, LifeFrame
  <2>2. CASE ProbeFails
    BY <2>1, <2>2 DEF ProbeFails, FilesInv
  <2>3. (\E s : Probed(s)) \/ ProbeFails
    BY <1>3 DEF ProbeStep, qedu_alloc_device, AllocBuffer, NothingHeld, Acquire, TestFactorial,
                PollDone, qedu_raise_test_irq, qedu_dma_smoke_test
  <2> QED BY <1>2, <2>1, <2>2, <2>3
<1>4. CASE RemoveBegin
  BY <1>4, LifeFrame DEF RemoveBegin, FilesInv
<1>5. CASE TeardownStep
  <2>1. drv = "teardown" /\ pc' = pc
    BY <1>5, LifeFrame DEF TeardownStep, FreeIrq, StopStage, CancelWorks, FreeBuffer, Release,
                           TornDown
  <2> QED BY <2>1 DEF FilesInv
<1>6. ASSUME NEW t \in Tasks, TaskStep(t) PROVE FilesInv'
  <2>1. UNCHANGED <<drv, todo, res>>
    BY <1>6, WorkFrame
  <2>2. \A u \in Tasks : u # t => pc'[u] = pc[u]
    BY <1>6 DEF TaskStep, UserStep, JobStep, qedu_open, qedu_release, qedu_read, WriteEnter,
                WriteRejected, WriteInterrupted, WriteBegin, WriteFault, WriteParse,
                FactorialClear, FactorialSubmit, FactorialDone, FactorialAbort, DmaPrepare,
                DmaSubmit, DmaDone, DmaAbort, DmaAbortStage, CancelAdvance, CancelFinish,
                Goto, UseTypes
  <2>3. CASE pc[t] # "closed"
    BY <2>1, <2>2, <2>3 DEF FilesInv
  <2>4. CASE pc[t] = "closed"
    <3>1. "misc" \in res /\ drv # "teardown"
      BY <1>6, <2>4 DEF TaskStep
    <3>2. drv \in {"bound", "probing"}
      BY <3>1 DEF LifeInv, Phases
    <3>3. CASE drv = "probing"
      <4>1. PICK plan \in Plans, k \in 1..16 : Probing(plan, k)
        BY <3>3 DEF LifeInv
      <4>2. k \in 1..Len(plan) /\ "misc" \in Held(plan, k)
        BY <3>1, <4>1 DEF Probing
      <4>3. k = Len(plan)
        BY <4>2, HeldPinned
      <4>4. Head(todo) = "debugfs"
        BY <4>1, <4>3, ProbeFacts
      <4> QED BY <2>1, <3>3, <4>4 DEF FilesInv
    <3>4. CASE drv = "bound"
      BY <2>1, <3>4 DEF FilesInv
    <3> QED BY <3>2, <3>3, <3>4
  <2> QED BY <2>3, <2>4
<1>7. CASE StoreTimeout \/ HandlerStep \/ KworkerStep \/ EngineStep
  <2>1. UNCHANGED <<drv, todo>>
    BY <1>7, WorkFrame
  <2>2. pc' = pc
    BY <1>7 DEF StoreTimeout, timeout_ms_store, HandlerStep, IrqRead, IrqAck, IrqStage, IrqQueue,
                KworkerStep, WorkerStep, AdvanceBegin, AdvanceClear, AdvanceStart, FinishBegin,
                FinishPublish, EngineStep, BusTransfer, task_vars
  <2> QED BY <2>1, <2>2 DEF FilesInv
<1>8. CASE UNCHANGED driver_vars
  BY <1>8 DEF driver_vars, vars, task_vars, life_vars, FilesInv
<1> QED BY <1>1, <1>3, <1>4, <1>5, <1>6, <1>7, <1>8 DEF DriverNext

(* No resource is given back before those that rest on it. *)
LEMMA PinnedNext ==
  ASSUME LifeInv, LifeInv', UseInv, [DriverNext]_driver_vars
  PROVE  Pinned(res)'
<1>1. CASE drv' = "probing"
  <2>1. PICK plan \in Plans, k \in 1..16 : Probing(plan, k)'
    BY <1>1 DEF LifeInv
  <2>2. k \in 1..Len(plan) /\ res' = Held(plan, k)
    BY <2>1 DEF Probing
  <2>3. Pinned(Held(plan, k))
    BY <2>2, HeldPinned
  <2> QED BY <2>2, <2>3 DEF Pinned
<1>2. CASE drv' = "bound"
  BY <1>2 DEF LifeInv, Pinned, Resources
<1>3. CASE drv' = "unbound"
  BY <1>3 DEF LifeInv, Pinned
<1>4. CASE res' = res
  BY <1>4 DEF UseInv, Pinned
<1>5. CASE TeardownStep /\ res' # res
  <2>1. PICK s \in Resources : TornDown(s) /\ res' = res \ {s}
    BY <1>5 DEF TeardownStep, FreeIrq, StopStage, CancelWorks, FreeBuffer, Release, Resources
  <2>2. todo # <<>> /\ Undoes(todo, res) /\ Head(todo) = s
    BY <2>1 DEF TornDown, LifeInv
  <2>3. \A p \in Order : s = p[2] => p[1] \notin Elems(todo)
    BY <2>2, UndoesTail
  <2>4. \A p \in Order : s = p[2] => p[1] \notin res
    BY <2>2, <2>3 DEF Undoes
  <2>5. s \in {"drvdata", "bar0"} => "irq" \notin res
    <3>1. <<"irq", "drvdata">> \in Order /\ <<"irq", "bar0">> \in Order
      BY DEF Order
    <3> QED BY <2>4, <3>1
  <2>6. s \in {"buffer", "bar0"} => "wq" \notin res
    <3>1. <<"wq", "buffer">> \in Order /\ <<"wq", "bar0">> \in Order
      BY DEF Order
    <3> QED BY <2>4, <3>1
  <2> QED BY <2>1, <2>5, <2>6 DEF UseInv, Pinned
<1>6. res' = res \/ TeardownStep \/ drv' \in {"probing", "bound"}
  <2>1. ASSUME NEW b \in BOOLEAN, ProbeBegin(b) PROVE res' = res
    BY <2>1 DEF ProbeBegin
  <2>2. ASSUME ProbeStep PROVE res' = res \/ drv' \in {"probing", "bound"}
    BY <2>2 DEF ProbeStep, qedu_alloc_device, AllocBuffer, NothingHeld, Acquire, TestFactorial,
                PollDone, qedu_raise_test_irq, qedu_dma_smoke_test, ProbeFails, Probed
  <2>3. ASSUME RemoveBegin PROVE res' = res
    BY <2>3 DEF RemoveBegin
  <2>4. ASSUME UNCHANGED driver_vars PROVE res' = res
    BY <2>4 DEF driver_vars, life_vars
  <2> QED BY <2>1, <2>2, <2>3, <2>4, WorkFrame DEF DriverNext
<1> QED BY <1>1, <1>2, <1>4, <1>5, <1>6

(* Nothing of the bottom half is left when the workqueue goes. *)
LEMMA IdleAtRelease ==
  ASSUME LifeInv, UseTypes, UseInv, TornDown("wq")
  PROVE  irq.at = "off" /\ wq = <<>> /\ worker = "idle"
<1>1. drv = "teardown" /\ todo # <<>> /\ Undoes(todo, res) /\ Head(todo) = "wq"
  BY DEF TornDown, LifeInv
<1>2. \A p \in Order : "wq" = p[2] => p[1] \notin Elems(todo)
  BY <1>1, UndoesTail
<1>3. /\ <<"irq", "wq">> \in Order /\ <<"cancel_advance", "wq">> \in Order
      /\ <<"cancel_finish", "wq">> \in Order
  BY DEF Order
<1>4. {"irq", "cancel_advance", "cancel_finish"} \cap Elems(todo) = {}
  BY <1>2, <1>3
<1>5. "irq" \notin res
  BY <1>1, <1>4 DEF Undoes
<1>6. ~Pending("advance") /\ ~Pending("finish") /\ worker \notin {"sleep", "start", "publish"}
  BY <1>1, <1>4, <1>5 DEF UseInv, Cancelled
<1>7. Elems(wq) = {}
  BY <1>6, PendingFacts DEF UseTypes, Works
<1> QED BY <1>5, <1>6, <1>7, PendingFacts DEF UseInv, Uses, UseTypes

LEMMA UsesNext ==
  ASSUME Unbind = FALSE, LifeInv, UseTypes, FilesInv, UseInv, [DriverNext]_driver_vars
  PROVE  Uses'
<1> USE DEF Uses
<1>0. Uses
  BY DEF UseInv
<1>1. ASSUME UNCHANGED <<irq, worker, wq>>, res \subseteq res' PROVE Uses'
  BY <1>0, <1>1
<1>2. CASE (\E b \in BOOLEAN : ProbeBegin(b)) \/ ProbeStep \/ RemoveBegin
  <2>1. UNCHANGED <<irq, worker>>
    BY <1>2, LifeFrame
  <2>2. wq' = wq /\ res \subseteq res'
    BY <1>2 DEF ProbeBegin, RemoveBegin, ProbeStep, qedu_alloc_device, AllocBuffer, NothingHeld,
                Acquire, TestFactorial, PollDone, qedu_raise_test_irq, qedu_dma_smoke_test,
                ProbeFails, vars, bh_vars
  <2> QED BY <1>1, <2>1, <2>2
<1>3. CASE TeardownStep
  <2>1. UNCHANGED <<irq, worker>>
    BY <1>3, LifeFrame
  <2>2. CASE FreeIrq
    BY <1>0, <2>1, <2>2 DEF FreeIrq, vars, bh_vars
  <2>3. CASE StopStage
    BY <1>0, <2>3 DEF StopStage
  <2>4. CASE CancelWorks
    <3>1. PICK w \in Works : wq' = Drop(w)
      BY <2>4 DEF CancelWorks, Works
    <3>2. wq = <<>> => wq' = <<>>
      <4>1. wq = <<>> => ~Pending("advance") /\ ~Pending("finish")
        BY PendingFacts, EmptyElems DEF UseTypes
      <4> QED BY <3>1, <4>1 DEF Drop, Works
    <3>3. res' = res
      BY <2>4 DEF CancelWorks
    <3> QED BY <1>0, <2>1, <3>2, <3>3
  <2>5. CASE FreeBuffer
    BY <1>0, <2>1, <2>5 DEF FreeBuffer, bh_vars
  <2>6. ASSUME NEW s \in Resources, Release(s) PROVE Uses'
    <3>1. CASE s = "wq"
      <4>1. TornDown("wq") /\ UNCHANGED <<irq, worker, wq>>
        BY <2>6, <3>1 DEF Release, vars, bh_vars
      <4>2. irq.at = "off" /\ wq = <<>> /\ worker = "idle"
        BY <4>1, IdleAtRelease
      <4> QED BY <4>1, <4>2
    <3>2. CASE s # "wq"
      BY <1>0, <2>1, <2>6, <3>2 DEF Release, vars, bh_vars
    <3> QED BY <3>1, <3>2
  <2> QED BY <1>3, <2>2, <2>3, <2>4, <2>5, <2>6 DEF TeardownStep
<1>4. ASSUME NEW t \in Tasks, TaskStep(t) PROVE Uses'
  <2>1. UNCHANGED <<worker, irq>> /\ wq' \in {wq, Drop("advance"), Drop("finish")}
    BY <1>4 DEF TaskStep, UserStep, JobStep, qedu_open, qedu_release, qedu_read, WriteEnter,
                WriteRejected, WriteInterrupted, WriteBegin, WriteFault, WriteParse,
                FactorialClear, FactorialSubmit, FactorialDone, FactorialAbort, DmaPrepare,
                DmaSubmit, DmaDone, DmaAbort, DmaAbortStage, CancelAdvance, CancelFinish,
                bh_vars
  <2>2. wq = <<>> => wq' = <<>>
    <3>1. wq = <<>> => ~Pending("advance") /\ ~Pending("finish")
      BY PendingFacts, EmptyElems DEF UseTypes
    <3> QED BY <2>1, <3>1 DEF Drop, Works
  <2>3. res' = res
    BY <1>4, WorkFrame
  <2> QED BY <1>0, <2>1, <2>2, <2>3
<1>5. CASE StoreTimeout \/ EngineStep
  <2>1. res' = res
    BY <1>5, WorkFrame
  <2>2. UNCHANGED <<irq, worker, wq>>
    BY <1>5 DEF StoreTimeout, timeout_ms_store, EngineStep, BusTransfer, bh_vars
  <2> QED BY <1>1, <2>1, <2>2
<1>6. CASE HandlerStep
  <2>1. res' = res
    BY <1>6, WorkFrame
  <2>2. irq'.at # "off" => "irq" \in res
    BY <1>0, <1>6 DEF HandlerStep, IrqRead, IrqAck, IrqStage, IrqQueue, IrqOff
  <2>3. irq'.at = "queue" => "wq" \in res
    <3>1. CASE IrqRead
      BY <3>1 DEF IrqRead, UseTypes, IrqState
    <3>2. CASE IrqAck
      BY <3>2 DEF IrqAck, IrqOff, UseTypes, IrqState
    <3>3. CASE irq' = IrqOff
      BY <3>3 DEF IrqOff
    <3> QED BY <1>6, <3>1, <3>2, <3>3 DEF HandlerStep, IrqQueue
  <2>4. worker' = worker /\ (wq' = wq \/ irq.at = "queue")
    BY <1>6 DEF HandlerStep, IrqRead, IrqAck, IrqStage, IrqQueue
  <2> QED BY <1>0, <2>1, <2>2, <2>3, <2>4
<1>7. CASE KworkerStep
  <2>1. res' = res
    BY <1>7, WorkFrame
  <2>2. irq' = irq /\ (worker # "idle" \/ wq # <<>>)
    BY <1>7 DEF KworkerStep, WorkerStep, AdvanceBegin, AdvanceClear, AdvanceStart, FinishBegin,
                FinishPublish, Run
  <2> QED BY <1>0, <2>1, <2>2
<1>8. CASE UNCHANGED driver_vars
  BY <1>1, <1>8 DEF driver_vars, vars, bh_vars, life_vars
<1> QED BY <1>2, <1>3, <1>4, <1>5, <1>6, <1>7, <1>8 DEF DriverNext

(* The bottom half at rest satisfies whatever the list still has to cancel. *)
LEMMA IdleCancelled ==
  ASSUME wq' = <<>>, worker' = "idle"
  PROVE  Cancelled'
<1>1. Len(wq') = 0
  BY EmptySeq
<1>2. ~Pending("advance")' /\ ~Pending("finish")'
  BY <1>1 DEF Pending
<1> QED BY <1>2 DEF Cancelled

LEMMA CancelledNext ==
  ASSUME Unbind = FALSE, LifeInv, UseTypes, UseTypes', FilesInv, UseInv,
         [DriverNext]_driver_vars
  PROVE  Cancelled'
<1>0. Uses /\ Cancelled
  BY DEF UseInv
<1>1. CASE drv' # "teardown"
  BY <1>1 DEF Cancelled
<1>2. CASE ProbeFails
  <2>1. UNCHANGED <<wq, worker, res>>
    BY <1>2 DEF ProbeFails, vars, bh_vars
  <2>2. PICK plan \in Plans, k \in 1..16 : Probing(plan, k)
    BY <1>2 DEF ProbeFails, LifeInv
  <2>3. k \in 1..Len(plan) /\ res = Held(plan, k)
    BY <2>2 DEF Probing
  <2>4. "irq" \notin res => "wq" \notin res
    BY <2>3, HeldPinned
  <2>5. CASE "irq" \in res
    BY <2>1, <2>5 DEF Cancelled
  <2>6. CASE "irq" \notin res
    BY <1>0, <2>1, <2>4, <2>6, IdleCancelled DEF Uses
  <2> QED BY <2>5, <2>6
<1>3. CASE RemoveBegin
  <2>1. "irq" \in res'
    BY <1>3 DEF RemoveBegin, LifeInv, Resources
  <2> QED BY <2>1 DEF Cancelled
<1>4. CASE TeardownStep
  <2>0. worker' = worker
    BY <1>4, LifeFrame
  <2>1. PICK s : TornDown(s) /\ (res' = res \ {s} \/ res' = res)
    BY <1>4 DEF TeardownStep, FreeIrq, StopStage, CancelWorks, FreeBuffer, Release
  <2>2. /\ drv = "teardown" /\ todo # <<>> /\ Undoes(todo, res) /\ Head(todo) = s
        /\ todo' = Tail(todo)
    BY <2>1 DEF TornDown, LifeInv
  <2>3. Elems(todo) = {s} \cup Elems(todo')
    <3>1. todo \in Seq(Steps)
      BY <2>2 DEF Undoes
    <3> QED BY <2>2, <3>1, TailFacts
  <2>4. CASE FreeIrq
    <3>1. TornDown("irq") /\ wq' = wq /\ s = "irq"
      BY <2>1, <2>4 DEF FreeIrq, TornDown, vars, bh_vars
    <3>2. "irq" \in res
      <4>1. Head(todo) = todo[1] /\ 1 \in 1..Len(todo)
        BY <2>2, TailFacts DEF Undoes
      <4> QED BY <2>2, <3>1, <4>1 DEF Undoes, Resources
    <3>3. CASE "wq" \in res
      <4>1. {"cancel_advance", "cancel_finish"} \subseteq Elems(todo)
        BY <2>2, <3>2, <3>3 DEF Undoes
      <4>2. {"cancel_advance", "cancel_finish"} \subseteq Elems(todo')
        BY <2>3, <3>1, <4>1
      <4> QED BY <4>2 DEF Cancelled
    <3>4. CASE "wq" \notin res
      BY <1>0, <2>0, <3>1, <3>4, IdleCancelled DEF Uses
    <3> QED BY <3>3, <3>4
  <2>5. CASE CancelWorks
    <3>1. res' = res /\ (s = "cancel_advance" \/ s = "cancel_finish")
      BY <2>1, <2>5 DEF CancelWorks, TornDown
    <3>2. SUFFICES ASSUME "irq" \notin res
                   PROVE  /\ "cancel_advance" \notin Elems(todo') =>
                                ~Pending("advance")' /\ worker \notin {"sleep", "start"}
                          /\ "cancel_finish" \notin Elems(todo') =>
                                ~Pending("finish")' /\ worker # "publish"
      BY <2>0, <3>1 DEF Cancelled
    <3>3. \A w : Pending(w)' <=> w \in Elems(wq')
      BY DEF Pending, Elems
    <3>4. \A w : Pending(w) <=> w \in Elems(wq)
      BY PendingFacts DEF UseTypes
    <3>5. CASE s = "cancel_advance"
      <4>1. worker \notin {"sleep", "start"} /\ wq' = Drop("advance")
        BY <2>1, <2>5, <3>5 DEF CancelWorks, TornDown
      <4>2. Elems(wq') \subseteq Elems(wq) \ {"advance"}
        BY <4>1, PendingFacts DEF UseTypes, Works
      <4>3. "cancel_finish" \notin Elems(todo') => "finish" \notin Elems(wq) /\ worker # "publish"
        BY <1>0, <2>2, <2>3, <3>2, <3>4, <3>5 DEF Cancelled
      <4> QED BY <3>3, <4>1, <4>2, <4>3
    <3>6. CASE s = "cancel_finish"
      <4>1. worker # "publish" /\ wq' = Drop("finish")
        BY <2>1, <2>5, <3>6 DEF CancelWorks, TornDown
      <4>2. Elems(wq') \subseteq Elems(wq) \ {"finish"}
        BY <4>1, PendingFacts DEF UseTypes, Works
      <4>3. "cancel_advance" \notin Elems(todo') =>
              "advance" \notin Elems(wq) /\ worker \notin {"sleep", "start"}
        BY <1>0, <2>2, <2>3, <3>2, <3>4, <3>6 DEF Cancelled
      <4> QED BY <3>3, <4>1, <4>2, <4>3
    <3> QED BY <3>1, <3>5, <3>6
  <2>6. CASE StopStage \/ FreeBuffer \/ \E r \in Resources : Release(r)
    <3>1. wq' = wq
      BY <2>6 DEF StopStage, FreeBuffer, Release, vars, bh_vars
    <3>2. s \notin {"irq", "cancel_advance", "cancel_finish"}
      BY <2>1, <2>6 DEF StopStage, FreeBuffer, Release, TornDown, Resources
    <3>3. Pending("advance")' = Pending("advance") /\ Pending("finish")' = Pending("finish")
      BY <3>1 DEF Pending
    <3>4. "irq" \in res => "irq" \in res'
      BY <2>1, <3>2
    <3>5. \A x \in {"cancel_advance", "cancel_finish"} : x \in Elems(todo) => x \in Elems(todo')
      BY <2>3, <3>2
    <3> QED BY <1>0, <2>0, <2>2, <3>3, <3>4, <3>5 DEF Cancelled
  <2> QED BY <1>4, <2>4, <2>5, <2>6 DEF TeardownStep
<1>5. CASE /\ drv = "teardown" /\ "irq" \notin res
           /\ (\E t \in Tasks : TaskStep(t)) \/ HandlerStep
  <2>1. ASSUME NEW t \in Tasks PROVE ~TaskStep(t)
    <3>1. pc[t] = "closed"
      BY <1>5 DEF FilesInv
    <3> QED BY <1>5, <3>1 DEF TaskStep
  <2>2. ~HandlerStep
    <3>1. irq.at = "off"
      BY <1>0, <1>5 DEF Uses
    <3> QED BY <1>5, <3>1 DEF HandlerStep, IrqRead, IrqAck, IrqStage, IrqQueue
  <2> QED BY <1>5, <2>1, <2>2
<1>6. CASE StoreTimeout \/ EngineStep
  <2>1. UNCHANGED <<drv, todo, res>>
    BY <1>6, WorkFrame
  <2>2. UNCHANGED <<wq, worker>>
    BY <1>6 DEF StoreTimeout, timeout_ms_store, EngineStep, BusTransfer, bh_vars
  <2> QED BY <1>0, <2>1, <2>2 DEF Cancelled, Pending
<1>7. CASE KworkerStep
  <2>1. UNCHANGED <<drv, todo, res>>
    BY <1>7, WorkFrame
  <2>2. \A w : Pending(w) <=> w \in Elems(wq)
    BY PendingFacts DEF UseTypes
  <2>3. \A w : Pending(w)' <=> w \in Elems(wq')
    BY DEF Pending, Elems
  <2>4. Elems(wq') \subseteq Elems(wq)
    BY <1>7, PendingFacts DEF KworkerStep, WorkerStep, AdvanceBegin, AdvanceClear, AdvanceStart,
                FinishBegin, FinishPublish, Run, UseTypes
  <2>5. worker' \in {"sleep", "start"} => "advance" \in Elems(wq) \/ worker = "sleep"
    BY <1>7, PendingFacts DEF KworkerStep, WorkerStep, AdvanceBegin, AdvanceClear, AdvanceStart,
                FinishBegin, FinishPublish, Run, UseTypes
  <2>6. worker' = "publish" => "finish" \in Elems(wq)
    BY <1>7, PendingFacts DEF KworkerStep, WorkerStep, AdvanceBegin, AdvanceClear, AdvanceStart,
                FinishBegin, FinishPublish, Run, UseTypes
  <2> QED BY <1>0, <2>1, <2>2, <2>3, <2>4, <2>5, <2>6 DEF Cancelled
<1>8. CASE UNCHANGED driver_vars
  BY <1>0, <1>8 DEF driver_vars, vars, bh_vars, life_vars, Cancelled, Pending
<1>9. CASE /\ (\E t \in Tasks : TaskStep(t)) \/ HandlerStep
           /\ ~(drv = "teardown" /\ "irq" \notin res)
  <2>1. UNCHANGED <<drv, res>>
    BY <1>9, WorkFrame
  <2> QED BY <1>9, <2>1 DEF Cancelled
<1>10. CASE (\E b \in BOOLEAN : ProbeBegin(b)) \/ ProbeStep
  <2>1. CASE ~ProbeFails
    <3>1. drv' # "teardown"
      BY <1>10, <2>1 DEF ProbeBegin, ProbeStep, qedu_alloc_device, AllocBuffer, NothingHeld, Acquire,
             TestFactorial, PollDone, qedu_raise_test_irq, qedu_dma_smoke_test, Probed
    <3> QED BY <1>1, <3>1
  <2> QED BY <1>2, <2>1
<1> QED BY <1>3, <1>4, <1>5, <1>6, <1>7, <1>8, <1>9, <1>10 DEF DriverNext

LEMMA BindingInit == DriverInit => BindingInv
<1> SUFFICES ASSUME DriverInit PROVE BindingInv
  OBVIOUS
<1>1. UseTypes
  BY DEF DriverInit, Init, EduInit, UseTypes, Queues, IrqOff, IrqState, Works, Stages, Outside
<1>2. FilesInv
  BY DEF DriverInit, Init, FilesInv
<1>3. UseInv
  BY DEF DriverInit, Init, IrqOff, UseInv, Uses, Cancelled, Pinned
<1> QED BY <1>1, <1>2, <1>3, LifeInit DEF BindingInv

LEMMA BindingNext ==
  ASSUME Unbind = FALSE, BindingInv, [DriverNext]_driver_vars
  PROVE  BindingInv'
<1>1. LifeInv /\ UseTypes /\ FilesInv /\ UseInv
  BY DEF BindingInv
<1>2. LifeInv' /\ UseTypes'
  BY <1>1, LifeNext, TypesNext
<1>3. FilesInv'
  BY <1>1, FilesNext
<1>4. Pinned(res)' /\ Uses' /\ Cancelled'
  BY <1>1, <1>2, PinnedNext, UsesNext, CancelledNext
<1> QED BY <1>2, <1>3, <1>4 DEF BindingInv, UseInv

(* As long as the device is not unbound under an open file, nobody runs on resources
   that are gone: not the handler, not the kworker, not a task inside write(2). *)
THEOREM NothingUsedAfterRelease ==
  ASSUME Unbind = FALSE
  PROVE  DriverSpec => []NoUseAfterRelease
<1>1. DriverInit => BindingInv
  BY BindingInit
<1>2. BindingInv /\ [DriverNext]_driver_vars => BindingInv'
  BY BindingNext
<1>3. BindingInv => NoUseAfterRelease
  <2>1. SUFFICES ASSUME BindingInv PROVE NoUseAfterRelease
    OBVIOUS
  <2>2. Pinned(res) /\ Uses
    BY <2>1 DEF BindingInv, UseInv
  <2>3. ASSUME NEW t \in Tasks, pc[t] # "closed"
        PROVE  {"drvdata", "bar0", "irq", "wq", "buffer", "misc"} \subseteq res
    <3>1. drv = "bound" \/ (drv = "probing" /\ Head(todo) = "debugfs")
      BY <2>1, <2>3 DEF BindingInv, FilesInv
    <3>2. CASE drv = "bound"
      BY <2>1, <3>2 DEF BindingInv, LifeInv, Resources
    <3>3. CASE drv = "probing" /\ Head(todo) = "debugfs"
      <4>1. PICK plan \in Plans, k \in 1..16 : Probing(plan, k)
        BY <2>1, <3>3 DEF BindingInv, LifeInv
      <4>2. res = Held(plan, Len(plan))
        BY <3>3, <4>1, ProbeFacts DEF Probing
      <4> QED BY <4>2, HeldAtEnd DEF Resources
    <3> QED BY <3>1, <3>2, <3>3
  <2> QED BY <2>2, <2>3 DEF NoUseAfterRelease, Pinned, Uses
<1> QED BY <1>1, <1>2, <1>3, PTL DEF DriverSpec
-----------------------------------------------------------------------------
(* No transfer outlives its buffer *)

LEMMA LockKept ==
  ASSUME UseTypes, LockInv, [DriverNext]_driver_vars
  PROVE  LockInv'
<1> USE QeduAssumption
<1>1. ASSUME UNCHANGED <<pc, lock>> PROVE LockInv'
  BY <1>1 DEF LockInv
<1>2. CASE \/ \E b \in BOOLEAN : ProbeBegin(b)
           \/ ProbeStep \/ RemoveBegin \/ TeardownStep
  BY <1>1, <1>2, LifeFrame
<1>3. CASE StoreTimeout \/ HandlerStep \/ KworkerStep \/ EngineStep \/ UNCHANGED driver_vars
  BY <1>1, <1>3 DEF StoreTimeout, timeout_ms_store, HandlerStep, IrqRead, IrqAck, IrqStage, IrqQueue,
                KworkerStep, WorkerStep, AdvanceBegin, AdvanceClear, AdvanceStart, FinishBegin,
                FinishPublish, EngineStep, BusTransfer, driver_vars, vars, task_vars, job_vars
<1>4. ASSUME NEW t \in Tasks, TaskStep(t) PROVE LockInv'
  <2>1. \A u \in Tasks : u # t => pc'[u] = pc[u]
    BY <1>4 DEF TaskStep, UserStep, JobStep, qedu_open, qedu_release, qedu_read, WriteEnter,
                WriteRejected, WriteInterrupted, WriteBegin, WriteFault, WriteParse,
                FactorialClear, FactorialSubmit, FactorialDone, FactorialAbort, DmaPrepare,
                DmaSubmit, DmaDone, DmaAbort, DmaAbortStage, CancelAdvance, CancelFinish,
                Goto, UseTypes
  <2>2. \/ lock' = lock /\ (pc[t] \in HeldPcs <=> pc'[t] \in HeldPcs)
        \/ lock = NoTask /\ lock' = t /\ pc'[t] \in HeldPcs
        \/ pc[t] \in HeldPcs /\ lock' = NoTask /\ pc'[t] \notin HeldPcs
    BY <1>4 DEF TaskStep, UserStep, JobStep, qedu_open, qedu_release, qedu_read, WriteEnter,
                WriteRejected, WriteInterrupted, WriteBegin, WriteFault, WriteParse,
                FactorialClear, FactorialSubmit, FactorialDone, FactorialAbort, DmaPrepare,
                DmaSubmit, DmaDone, DmaAbort, DmaAbortStage, CancelAdvance, CancelFinish,
                Goto, UseTypes, Succeed, Fail, OutUnlock, job_vars, HeldPcs, FactPcs, DmaPcs,
                AbortPcs
  <2> QED BY <2>1, <2>2 DEF LockInv
<1> QED BY <1>2, <1>3, <1>4 DEF DriverNext

(* Given-up waits and polls are never forgotten. *)
LEMMA HistoryGrows ==
  ASSUME aborts \in Nat, [DriverNext]_driver_vars
  PROVE  /\ aborts' \in Nat /\ (aborts' = 0 => aborts = 0)
         /\ ~poll_out' => ~poll_out
<1>1. aborts' \in {aborts, aborts + 1}
  <2>1. ASSUME NEW t \in Tasks, TaskStep(t) PROVE aborts' \in {aborts, aborts + 1}
    BY <2>1 DEF TaskStep, UserStep, JobStep, qedu_open, qedu_release, qedu_read, WriteEnter,
                WriteRejected, WriteInterrupted, WriteBegin, WriteFault, WriteParse,
                FactorialClear, FactorialSubmit, FactorialDone, FactorialAbort, DmaPrepare,
                DmaSubmit, DmaDone, DmaAbort, DmaAbortStage, CancelAdvance, CancelFinish,
                Succeed, Fail, WaitAborts, job_vars
  <2>2. CASE StoreTimeout \/ HandlerStep \/ KworkerStep \/ EngineStep \/ UNCHANGED driver_vars
    BY <2>2 DEF StoreTimeout, timeout_ms_store, HandlerStep, IrqRead, IrqAck, IrqStage, IrqQueue,
                KworkerStep, WorkerStep, AdvanceBegin, AdvanceClear, AdvanceStart, FinishBegin,
                FinishPublish, EngineStep, BusTransfer, driver_vars, vars, job_vars
  <2> QED BY <2>1, <2>2, LifeFrame DEF DriverNext
<1>2. poll_out' = poll_out \/ ProbeFails
  <2>1. CASE ProbeStep
    BY <2>1 DEF ProbeStep, qedu_alloc_device, AllocBuffer, NothingHeld, Acquire, TestFactorial,
                PollDone, qedu_raise_test_irq, qedu_dma_smoke_test
  <2>2. CASE (\E b \in BOOLEAN : ProbeBegin(b)) \/ RemoveBegin \/ TeardownStep
    BY <2>2 DEF ProbeBegin, RemoveBegin, TeardownStep, FreeIrq, StopStage, CancelWorks, FreeBuffer,
                Release, TornDown
  <2> QED BY <2>1, <2>2, WorkFrame DEF DriverNext, driver_vars, life_vars
<1>3. ProbeFails => (~poll_out' => ~poll_out)
  BY DEF ProbeFails
<1> QED BY <1>1, <1>2, <1>3

(* A step that touches neither transfer, handler, queue nor kworker. *)
LEMMA DmaFrame ==
  ASSUME DmaInv, aborts = 0, ~poll_out,
         UNCHANGED <<pc, dma_cmd, irq, wq, worker, wild>>, ~dma_stale',
         "DMA" \in irq_status' <=> "DMA" \in irq_status,
         "DMA" \in completed_events' => "DMA" \in completed_events,
         Smoking => Smoking' \/ NoTransfer'
  PROVE  DmaInv'
<1>1. NoTransfer => NoTransfer'
  BY DEF NoTransfer
<1>2. OneTransfer => OneTransfer'
  BY DEF OneTransfer
<1>3. AckedOnLine => AckedOnLine'
  BY DEF AckedOnLine
<1> QED BY <1>1, <1>2, <1>3 DEF DmaInv, Whereabouts

(* Where the self-test's transfer begins and where it is waited for. *)
LEMMA SmokeThenPoll ==
  ASSUME LifeInv, Probed("smoke")
  PROVE  drv' = "probing" /\ Head(todo') = "poll_smoke"
<1>1. PICK plan \in Plans, k \in 1..16 : Probing(plan, k)
  BY DEF LifeInv, Probed
<1>2. plan[k] = "smoke" /\ k \in 1..Len(plan)
  BY <1>1, ProbeFacts DEF Probed, Probing
<1>3. Len(plan) = 16 /\ k = 13 /\ plan[14] = "poll_smoke" /\ plan \in Seq(Steps)
  <2>1. CASE plan = ProbePlan(TRUE)
    <3>1. Len(plan) = 16 /\ plan \in Seq(Steps)
      BY <2>1, LongPlan
    <3>2. /\ plan[1] = "drvdata" /\ plan[2] = "enabled" /\ plan[3] = "regions" /\ plan[4] = "bar0"
          /\ plan[5] = "irq" /\ plan[6] = "dma_mask" /\ plan[7] = "master" /\ plan[8] = "buffer"
          /\ plan[9] = "wq" /\ plan[10] = "factorial" /\ plan[11] = "poll_factorial"
          /\ plan[12] = "raise_irq" /\ plan[14] = "poll_smoke" /\ plan[15] = "misc"
          /\ plan[16] = "debugfs"
      BY <2>1, LongPlan
    <3> QED BY <1>2, <3>1, <3>2
  <2>2. CASE plan = ProbePlan(FALSE)
    <3>1. Len(plan) = 11
      BY <2>2, ShortPlan
    <3>2. /\ plan[1] = "drvdata" /\ plan[2] = "enabled" /\ plan[3] = "regions" /\ plan[4] = "bar0"
          /\ plan[5] = "irq" /\ plan[6] = "dma_mask" /\ plan[7] = "master" /\ plan[8] = "buffer"
          /\ plan[9] = "wq" /\ plan[10] = "misc" /\ plan[11] = "debugfs"
      BY <2>2, ShortPlan
    <3> QED BY <1>2, <3>1, <3>2
  <2> QED BY <2>1, <2>2 DEF Plans
<1>4. Tail(todo) = SubSeq(plan, k + 1, Len(plan)) /\ Tail(todo) # <<>>
  <2>1. k < Len(plan)
    BY <1>3
  <2> QED BY <1>1, <2>1, ProbeFacts
<1>5. Head(SubSeq(plan, k + 1, Len(plan))) = plan[14]
  <2>1. k + 1 = 14 /\ k + 1 \in 1..Len(plan) /\ Len(plan) \in (k + 1)..Len(plan)
    BY <1>3
  <2> QED BY <1>3, <2>1, HeadTailOfSubSeq
<1> QED BY <1>3, <1>4, <1>5 DEF Probed

(* Outside a whole binding nobody waits for a transfer. *)
LEMMA NobodyWaits ==
  ASSUME FilesInv, drv # "bound", ~(drv = "probing" /\ Head(todo) = "debugfs")
  PROVE  \A t \in Tasks : pc[t] = "closed"
BY DEF FilesInv

(* Probe, its failures and remove. *)
LEMMA DmaLife ==
  ASSUME BindingInv, DmaInv, aborts = 0, ~poll_out, ~poll_out', Unbind = FALSE,
         \/ \E b \in BOOLEAN : ProbeBegin(b)
         \/ ProbeStep \/ RemoveBegin \/ TeardownStep
  PROVE  DmaInv'
<1>0. UNCHANGED <<pc, worker, irq>> /\ ~dma_stale /\ ~wild /\ Whereabouts
  BY LifeFrame DEF DmaInv
<1>1. CASE (\E b \in BOOLEAN : ProbeBegin(b)) \/ RemoveBegin
  <2>1. /\ UNCHANGED <<dma_cmd, wq, irq_status, completed_events, dma_stale, wild>>
        /\ drv # "probing"
    BY <1>1 DEF ProbeBegin, RemoveBegin, vars, bh_vars, edu_vars
  <2>2. ~Smoking
    BY <2>1 DEF Smoking
  <2> QED BY <1>0, <2>1, <2>2, DmaFrame
<1>2. CASE ProbeStep
  <2>1. CASE qedu_dma_smoke_test
    <3>1. drv = "probing" /\ Head(todo) = "smoke"
      BY <2>1 DEF qedu_dma_smoke_test, Probed
    <3>2. \A t \in Tasks : pc[t] = "closed"
      BY <3>1, NobodyWaits DEF BindingInv
    <3>3. NoTransfer
      BY <1>0, <3>1, <3>2 DEF Whereabouts, Smoking
    <3>4. drv' = "probing" /\ Head(todo') = "poll_smoke"
      BY <2>1, SmokeThenPoll DEF qedu_dma_smoke_test, BindingInv
    <3>5. /\ ~dma_irq'
          /\ UNCHANGED <<irq_status, wq, completed_events, dma_stale, wild>>
      BY <2>1, <3>3 DEF qedu_dma_smoke_test, StartDma, NoTransfer, Probed, bh_vars
    <3>6. Smoking'
      BY <1>0, <3>3, <3>4, <3>5 DEF Smoking, NoTransfer
    <3>7. AckedOnLine'
      BY <1>0, <3>5 DEF AckedOnLine, DmaInv
    <3>8. \A t \in Tasks : pc'[t] = "closed"
      BY <1>0, <3>2
    <3> QED BY <1>0, <3>5, <3>6, <3>7, <3>8 DEF DmaInv, Whereabouts, AbortPcs
  <2>2. CASE PollDone
    <3>1. UNCHANGED <<dma_cmd, wq, irq_status, completed_events, dma_stale, wild>>
      BY <2>2 DEF PollDone, Probed, vars, bh_vars, edu_vars
    <3>2. Smoking => NoTransfer'
      BY <1>0, <2>2, <3>1 DEF PollDone, Probed, Smoking, NoTransfer
    <3> QED BY <1>0, <3>1, <3>2, DmaFrame
  <2>3. CASE ProbeFails
    <3>1. UNCHANGED <<dma_cmd, wq, irq_status, completed_events, dma_stale, wild>>
      BY <2>3 DEF ProbeFails, vars, bh_vars, edu_vars
    <3>2. ~Smoking
      BY <2>3 DEF ProbeFails, Smoking
    <3> QED BY <1>0, <3>1, <3>2, DmaFrame
  <2>4. CASE \/ qedu_alloc_device \/ AllocBuffer \/ NothingHeld \/ TestFactorial
             \/ qedu_raise_test_irq \/ \E s \in Resources : Acquire(s)
    <3>1. ~Smoking
      BY <2>4 DEF qedu_alloc_device, AllocBuffer, NothingHeld, TestFactorial, qedu_raise_test_irq,
                  Acquire, Probed, Smoking, Resources
    <3>2. UNCHANGED <<dma_cmd, wq, dma_stale, wild>>
      BY <2>4 DEF qedu_alloc_device, AllocBuffer, NothingHeld, TestFactorial, qedu_raise_test_irq,
                  Acquire, Probed, vars, bh_vars, edu_vars
    <3>3. "DMA" \in irq_status' <=> "DMA" \in irq_status
      BY <2>4 DEF qedu_alloc_device, AllocBuffer, NothingHeld, TestFactorial, qedu_raise_test_irq,
                  Acquire, vars, edu_vars, Raise
    <3>4. "DMA" \in completed_events' => "DMA" \in completed_events
      BY <2>4 DEF qedu_alloc_device, AllocBuffer, NothingHeld, TestFactorial, qedu_raise_test_irq,
                  Acquire, vars, bh_vars
    <3> QED BY <1>0, <3>1, <3>2, <3>3, <3>4, DmaFrame
  <2> QED BY <1>2, <2>1, <2>2, <2>3, <2>4 DEF ProbeStep
<1>3. CASE TeardownStep
  <2>1. drv = "teardown"
    BY <1>3 DEF TeardownStep, FreeIrq, StopStage, CancelWorks, FreeBuffer, Release, TornDown
  <2>2. \A t \in Tasks : pc[t] = "closed"
    BY <2>1, NobodyWaits DEF BindingInv
  <2>3. NoTransfer /\ ~Smoking
    BY <1>0, <2>1, <2>2 DEF Whereabouts, Smoking
  <2>4. UNCHANGED <<dma_cmd, irq_status, completed_events, wild>>
    BY <1>3 DEF TeardownStep, FreeIrq, StopStage, CancelWorks, FreeBuffer, Release, TornDown,
                vars, bh_vars, edu_vars
  <2>5. ~dma_stale'
    <3>1. CASE FreeBuffer
      BY <2>3, <3>1 DEF FreeBuffer, NoTransfer
    <3>2. CASE ~FreeBuffer
      BY <1>0, <1>3, <3>2 DEF TeardownStep, FreeIrq, StopStage, CancelWorks, Release
    <3> QED BY <3>1, <3>2
  <2>6. wq' = wq
    <3>1. CASE CancelWorks
      <4>1. wq = <<>> /\ ~Pending("advance") /\ ~Pending("finish")
        BY <2>3, PendingFacts, EmptyElems DEF NoTransfer, BindingInv, UseTypes
      <4> QED BY <3>1, <4>1 DEF CancelWorks, Drop, Works
    <3>2. CASE ~CancelWorks
      BY <1>3, <3>2 DEF TeardownStep, FreeIrq, StopStage, FreeBuffer, Release, vars, bh_vars
    <3> QED BY <3>1, <3>2
  <2> QED BY <1>0, <2>3, <2>4, <2>5, <2>6, DmaFrame
<1> QED BY <1>1, <1>2, <1>3

(* The tasks. *)
LEMMA DmaTask ==
  ASSUME BindingInv, LockInv, DmaInv, aborts \in Nat, aborts = 0, aborts' = 0, ~poll_out,
         NEW t \in Tasks, TaskStep(t)
  PROVE  DmaInv'
<1>0. /\ UNCHANGED <<drv, todo, dma_stale, wild>>
      /\ pc \in [Tasks -> Outside \cup {"lock"} \cup HeldPcs]
      /\ \A u \in Tasks : pc[u] \notin AbortPcs
      /\ ~dma_stale /\ ~wild /\ Whereabouts /\ AckedOnLine
  BY DEF TaskStep, life_vars, BindingInv, UseTypes, DmaInv
<1>1. ~DmaAbort(t) /\ ~FactorialAbort(t)
  BY DEF DmaAbort, FactorialAbort, WaitAborts
<1>2. ~DmaAbortStage(t) /\ ~CancelAdvance(t) /\ ~CancelFinish(t)
  BY <1>0 DEF DmaAbortStage, CancelAdvance, CancelFinish, Goto, AbortPcs
<1>3. ASSUME pc[t] \in HeldPcs
      PROVE  /\ ~Smoking
             /\ \A u \in Tasks : u # t => pc[u] \notin HeldPcs
  <2>1. pc[t] # "closed"
    BY <1>3 DEF HeldPcs, FactPcs, DmaPcs, AbortPcs
  <2>2. ~Smoking
    BY <2>1 DEF BindingInv, FilesInv, Smoking
  <2> QED BY <1>3, <2>2 DEF LockInv
<1>4. CASE DmaSubmit(t)
  <2>1. pc[t] = "dma_submit" /\ pc' = [pc EXCEPT ![t] = "dma_wait"]
    BY <1>4 DEF DmaSubmit, Goto
  <2>2. ~Smoking /\ \A u \in Tasks : u # t => pc[u] \notin HeldPcs
    BY <1>3, <2>1 DEF HeldPcs, DmaPcs
  <2>3. NoTransfer
    BY <1>0, <2>1, <2>2 DEF Whereabouts, HeldPcs, DmaPcs
  <2>4. UNCHANGED <<irq_status, irq, wq, worker, completed_events>>
    BY <1>4 DEF DmaSubmit, bh_vars
  <2>5. "DMA" \notin completed_events
    BY <2>1 DEF DmaInv
  <2>6. Len(wq') = 0
    BY <2>3, <2>4 DEF NoTransfer
  <2>7. OneTransfer'
    BY <2>3, <2>4, <2>5, <2>6 DEF OneTransfer, NoTransfer
  <2>8. pc'[t] = "dma_wait" /\ \A u \in Tasks : pc'[u] \notin AbortPcs
    BY <1>0, <2>1 DEF AbortPcs
  <2>9. \A u \in Tasks : pc'[u] = "dma_submit" => "DMA" \notin completed_events'
    BY <2>4, <2>5
  <2>10. Whereabouts' /\ AckedOnLine'
    BY <1>0, <2>4, <2>7, <2>8 DEF Whereabouts, AckedOnLine
  <2> QED BY <1>0, <2>8, <2>9, <2>10 DEF DmaInv
<1>5. CASE DmaDone(t)
  <2>1. pc[t] = "dma_wait" /\ pc' = [pc EXCEPT ![t] = "open"] /\ "DMA" \in completed_events
    BY <1>5 DEF DmaDone, Goto
  <2>2. ~Smoking
    BY <1>3, <2>1 DEF HeldPcs, DmaPcs
  <2>3. NoTransfer
    BY <1>0, <2>1, <2>2 DEF Whereabouts, OneTransfer, NoTransfer
  <2>4. UNCHANGED <<dma_cmd, irq_status, irq, wq, worker, completed_events>>
    BY <1>5 DEF DmaDone, bh_vars, edu_vars
  <2>5. NoTransfer' /\ AckedOnLine'
    BY <1>0, <2>3, <2>4 DEF NoTransfer, AckedOnLine
  <2>6. \A u \in Tasks : pc'[u] \notin AbortPcs /\ (pc'[u] = "dma_submit" => pc[u] = "dma_submit")
    BY <1>0, <2>1 DEF AbortPcs
  <2> QED BY <1>0, <2>4, <2>5, <2>6 DEF DmaInv, Whereabouts
<1>6. CASE ~DmaSubmit(t) /\ ~DmaDone(t)
  <2>1. UNCHANGED <<dma_cmd, dma_irq, irq_status, irq, wq, worker>>
    BY <1>1, <1>2, <1>6 DEF TaskStep, UserStep, JobStep, qedu_open, qedu_release, qedu_read, WriteEnter,
                WriteRejected, WriteInterrupted, WriteBegin, WriteFault, WriteParse,
                FactorialClear, FactorialSubmit, FactorialDone, DmaPrepare, bh_vars, edu_vars
  <2>2. "DMA" \in completed_events' => "DMA" \in completed_events
    BY <1>1, <1>2, <1>6 DEF TaskStep, UserStep, JobStep, qedu_open, qedu_release, qedu_read, WriteEnter,
                WriteRejected, WriteInterrupted, WriteBegin, WriteFault, WriteParse,
                FactorialClear, FactorialSubmit, FactorialDone, DmaPrepare, bh_vars
  <2>3. /\ \A u \in Tasks : u # t => pc'[u] = pc[u]
        /\ pc'[t] \notin AbortPcs
        /\ pc[t] = "dma_wait" <=> pc'[t] = "dma_wait"
    BY <1>0, <1>1, <1>2, <1>6 DEF TaskStep, UserStep, JobStep, qedu_open, qedu_release, qedu_read,
                WriteEnter, WriteRejected, WriteInterrupted, WriteBegin, WriteFault, WriteParse,
                FactorialClear, FactorialSubmit, FactorialDone, DmaPrepare, Goto, AbortPcs
  <2>4. pc'[t] = "dma_submit" => "DMA" \notin completed_events'
    BY <1>0, <1>1, <1>2, <1>6 DEF TaskStep, UserStep, JobStep, qedu_open, qedu_release, qedu_read,
                WriteEnter, WriteRejected, WriteInterrupted, WriteBegin, WriteFault, WriteParse,
                FactorialClear, FactorialSubmit, FactorialDone, DmaPrepare, Goto
  <2>5. NoTransfer => NoTransfer'
    BY <2>1 DEF NoTransfer
  <2>6. OneTransfer => OneTransfer'
    BY <2>1, <2>2 DEF OneTransfer
  <2>7. Smoking => Smoking'
    BY <1>0, <2>1 DEF Smoking
  <2>8. AckedOnLine'
    BY <1>0, <2>1 DEF AckedOnLine
  <2>9. Whereabouts'
    BY <1>0, <2>3, <2>5, <2>6, <2>7 DEF Whereabouts
  <2>10. \A u \in Tasks : /\ pc'[u] \notin AbortPcs
                          /\ pc'[u] = "dma_submit" => "DMA" \notin completed_events'
    BY <1>0, <2>2, <2>3, <2>4 DEF DmaInv
  <2> QED BY <1>0, <2>8, <2>9, <2>10 DEF DmaInv
<1> QED BY <1>4, <1>5, <1>6

(* The handler. *)
LEMMA DmaHandler ==
  ASSUME BindingInv, DmaInv, aborts = 0, ~poll_out, HandlerStep
  PROVE  DmaInv'
<1>0. /\ UNCHANGED <<pc, worker, dma_cmd, dma_irq, drv, todo, dma_stale, wild>>
      /\ ~dma_stale /\ ~wild /\ Whereabouts /\ AckedOnLine
      /\ irq \in IrqState /\ dma_stage \in Stages
  BY DEF HandlerStep, IrqRead, IrqAck, IrqStage, IrqQueue, task_vars, edu_vars, life_vars, DmaInv,
         BindingInv, UseTypes
<1>1. SUFFICES /\ "DMA" \in completed_events' => "DMA" \in completed_events
               /\ AckedOnLine' /\ Whereabouts'
  BY <1>0 DEF DmaInv
<1>2. "DMA" \in completed_events' => "DMA" \in completed_events
  BY DEF HandlerStep, IrqRead, IrqAck, IrqStage, IrqQueue
<1>3. CASE IrqRead
  <2>1. /\ irq.at = "off" /\ irq'.at = "ack" /\ irq'.status = irq_status
        /\ UNCHANGED <<irq_status, wq, completed_events>>
    BY <1>0, <1>3 DEF IrqRead, IrqState, edu_vars
  <2>2. NoTransfer => NoTransfer'
    BY <1>0, <2>1 DEF NoTransfer
  <2>3. OneTransfer => OneTransfer'
    BY <1>0, <2>1 DEF OneTransfer
  <2>4. Smoking => Smoking'
    BY <1>0, <2>1 DEF Smoking
  <2>5. AckedOnLine'
    BY <2>1 DEF AckedOnLine
  <2> QED BY <1>0, <1>2, <2>2, <2>3, <2>4, <2>5 DEF Whereabouts
<1>4. CASE IrqAck
  <2>1. /\ irq.at = "ack" /\ irq'.at \in {"stage", "off"}
        /\ irq'.at = "stage" <=> "DMA" \in irq.status
        /\ irq_status' = irq_status \ irq.status /\ wq' = wq
        /\ "DMA" \in completed_events' => "DMA" \in completed_events
    BY <1>0, <1>4 DEF IrqAck, IrqState, IrqOff
  <2>2. "DMA" \in irq.status => "DMA" \in irq_status
    BY <1>0, <2>1 DEF AckedOnLine
  <2>3. NoTransfer => NoTransfer'
    BY <1>0, <2>1, <2>2 DEF NoTransfer
  <2>4. OneTransfer => OneTransfer'
    BY <1>0, <2>1, <2>2 DEF OneTransfer
  <2>5. Smoking => Smoking'
    BY <1>0, <2>1, <2>2 DEF Smoking
  <2>6. AckedOnLine'
    BY <2>1 DEF AckedOnLine
  <2> QED BY <1>0, <1>2, <2>3, <2>4, <2>5, <2>6 DEF Whereabouts
<1>5. CASE irq.at = "stage"
  <2>1. irq'.at \in {"queue", "off"}
    <3>1. CASE IrqStage
      BY <1>0, <3>1 DEF IrqStage, IrqOff, IrqState, Stages
    <3>2. CASE irq' = IrqOff
      BY <3>2 DEF IrqOff
    <3> QED BY <1>5, <3>1, <3>2 DEF HandlerStep, IrqRead, IrqAck, IrqQueue
  <2>2. UNCHANGED <<irq_status, wq, completed_events>>
    BY <1>5 DEF HandlerStep, IrqRead, IrqAck, IrqStage, IrqQueue, edu_vars
  <2>3. OneTransfer /\ \E t \in Tasks : pc[t] = "dma_wait"
    BY <1>0, <1>5 DEF Whereabouts, NoTransfer, Smoking
  <2>4. OneTransfer'
    BY <1>0, <1>5, <2>1, <2>2, <2>3 DEF OneTransfer
  <2>5. AckedOnLine'
    BY <2>1 DEF AckedOnLine
  <2> QED BY <1>0, <1>2, <2>3, <2>4, <2>5 DEF Whereabouts
<1>6. CASE IrqQueue
  <2>1. /\ irq.at = "queue" /\ irq'.at = "off"
        /\ UNCHANGED <<irq_status, completed_events>>
    BY <1>6 DEF IrqQueue, IrqOff, edu_vars
  <2>2. OneTransfer /\ \E t \in Tasks : pc[t] = "dma_wait"
    BY <1>0, <2>1 DEF Whereabouts, NoTransfer, Smoking
  <2>3. wq = <<>>
    BY <2>1, <2>2 DEF OneTransfer
  <2>4. Len(wq') <= 1
    <3>1. wq' = <<>> \/ wq' = <<irq.work>>
      BY <1>6, <2>3 DEF IrqQueue
    <3>2. Len(<<irq.work>>) = 1 /\ Len(<<>>) = 0
      OBVIOUS
    <3>3. CASE wq' = <<>>
      BY <3>2, <3>3
    <3>4. CASE wq' = <<irq.work>>
      BY <3>2, <3>4
    <3> QED BY <3>1, <3>3, <3>4
  <2>5. OneTransfer'
    BY <1>0, <2>1, <2>2, <2>4 DEF OneTransfer
  <2>6. AckedOnLine'
    BY <2>1 DEF AckedOnLine
  <2> QED BY <1>0, <1>2, <2>2, <2>5, <2>6 DEF Whereabouts
<1> QED BY <1>3, <1>4, <1>5, <1>6 DEF HandlerStep, IrqStage

(* The kworker. *)
LEMMA DmaKworker ==
  ASSUME BindingInv, LockInv, DmaInv, aborts = 0, ~poll_out, KworkerStep
  PROVE  DmaInv'
<1>0. /\ UNCHANGED <<pc, irq, irq_status, dma_stale, wild>>
      /\ ~dma_stale /\ ~wild /\ Whereabouts /\ AckedOnLine /\ wq \in Queues
  BY DEF KworkerStep, WorkerStep, AdvanceBegin, AdvanceClear, AdvanceStart, FinishBegin,
         FinishPublish, task_vars, edu_vars, life_vars, DmaInv, BindingInv, UseTypes
<1>1. worker # "idle" \/ wq # <<>>
  BY DEF KworkerStep, WorkerStep, AdvanceBegin, AdvanceClear, AdvanceStart, FinishBegin,
         FinishPublish, Run
<1>2. OneTransfer /\ \E t \in Tasks : pc[t] = "dma_wait"
  BY <1>0, <1>1 DEF Whereabouts, NoTransfer, Smoking
<1>3. wq # <<>> => Tail(wq) = <<>>
  BY <1>0, <1>2 DEF OneTransfer, Queues
<1>4. OneTransfer'
  <2>1. CASE AdvanceBegin \/ FinishBegin
    <3>1. wq # <<>> /\ wq' = <<>> /\ UNCHANGED <<dma_cmd, completed_events>>
      BY <1>3, <2>1 DEF AdvanceBegin, FinishBegin, Run, edu_vars
    <3>2. Len(wq') <= 1
      BY <3>1
    <3> QED BY <1>0, <1>2, <3>1, <3>2 DEF OneTransfer
  <2>2. CASE AdvanceClear
    <3>1. worker # "idle" /\ UNCHANGED <<wq, dma_cmd, completed_events>>
      BY <2>2 DEF AdvanceClear
    <3> QED BY <1>0, <1>2, <3>1 DEF OneTransfer
  <2>3. CASE AdvanceStart
    <3>1. worker # "idle" /\ worker' = "idle" /\ UNCHANGED <<wq, completed_events>>
      BY <2>3 DEF AdvanceStart
    <3> QED BY <1>0, <1>2, <3>1 DEF OneTransfer
  <2>4. CASE FinishPublish
    <3>1. worker # "idle" /\ worker' = "idle" /\ UNCHANGED <<wq, dma_cmd>>
      BY <2>4 DEF FinishPublish, edu_vars
    <3> QED BY <1>0, <1>2, <3>1 DEF OneTransfer
  <2> QED BY <2>1, <2>2, <2>3, <2>4 DEF KworkerStep, WorkerStep
<1>5. AckedOnLine'
  BY <1>0 DEF AckedOnLine
<1>6. \A t \in Tasks : pc[t] # "dma_submit"
  BY <1>2 DEF LockInv, HeldPcs, DmaPcs
<1> QED BY <1>0, <1>2, <1>4, <1>5, <1>6 DEF DmaInv, Whereabouts

(* The device. *)
LEMMA DmaEngineStep ==
  ASSUME BindingInv, DmaInv, aborts = 0, ~poll_out, EngineStep
  PROVE  DmaInv'
<1>0. /\ UNCHANGED <<pc, irq, wq, worker, completed_events, drv, todo>>
      /\ ~dma_stale /\ ~wild /\ Whereabouts /\ AckedOnLine
  BY WorkFrame DEF EngineStep, BusTransfer, task_vars, bh_vars, DmaInv
<1>1. CASE FactorialEngine /\ UNCHANGED <<task_vars, job_vars, bh_vars, life_vars>>
  <2>1. UNCHANGED <<dma_cmd, dma_irq, dma_stale, wild>>
    BY <1>1 DEF FactorialEngine, life_vars
  <2>2. "DMA" \in irq_status' <=> "DMA" \in irq_status
    BY <1>1 DEF FactorialEngine, Raise
  <2>3. Smoking => Smoking'
    BY <1>0, <2>1, <2>2 DEF Smoking
  <2> QED BY <1>0, <2>1, <2>2, <2>3, DmaFrame
<1>2. CASE BusTransfer
  <2>1. /\ dma_cmd # "none" /\ dma_cmd' = "none"
        /\ irq_status' = IF dma_irq THEN irq_status \cup {"DMA"} ELSE irq_status
    BY <1>2 DEF BusTransfer, DmaEngine, Raise
  <2>2. ~dma_stale' /\ ~wild'
    BY <1>0, <1>2 DEF BusTransfer
  <2>3. CASE Smoking
    <3>1. irq_status' = irq_status
      BY <2>1, <2>3 DEF Smoking
    <3>2. NoTransfer'
      BY <1>0, <2>1, <2>3, <3>1 DEF NoTransfer, Smoking
    <3>3. AckedOnLine'
      BY <1>0, <3>1 DEF AckedOnLine
    <3> QED BY <1>0, <2>2, <3>2, <3>3 DEF DmaInv, Whereabouts
  <2>4. CASE OneTransfer /\ \E t \in Tasks : pc[t] = "dma_wait"
    <3>1. OneTransfer'
      BY <1>0, <2>1, <2>4 DEF OneTransfer
    <3>2. AckedOnLine'
      BY <1>0, <2>1 DEF AckedOnLine
    <3> QED BY <1>0, <2>2, <2>4, <3>1, <3>2 DEF DmaInv, Whereabouts
  <2> QED BY <1>0, <2>1, <2>3, <2>4 DEF Whereabouts, NoTransfer
<1> QED BY <1>1, <1>2 DEF EngineStep

LEMMA DmaNext ==
  ASSUME Unbind = FALSE, WildInv, [DriverNext]_driver_vars
  PROVE  DmaInv'
<1>0. BindingInv /\ LockInv /\ DmaInv /\ aborts \in Nat
  BY DEF WildInv
<1>1. SUFFICES ASSUME aborts' = 0, ~poll_out' PROVE DmaInv'
  BY DEF DmaInv
<1>2. aborts = 0 /\ ~poll_out
  BY <1>0, <1>1, HistoryGrows
<1>3. CASE \/ \E b \in BOOLEAN : ProbeBegin(b)
           \/ ProbeStep \/ RemoveBegin \/ TeardownStep
  BY <1>0, <1>1, <1>2, <1>3, DmaLife
<1>4. ASSUME NEW t \in Tasks, TaskStep(t) PROVE DmaInv'
  BY <1>0, <1>1, <1>2, <1>4, DmaTask
<1>5. CASE HandlerStep
  BY <1>0, <1>2, <1>5, DmaHandler
<1>6. CASE KworkerStep
  BY <1>0, <1>2, <1>6, DmaKworker
<1>7. CASE EngineStep
  BY <1>0, <1>2, <1>7, DmaEngineStep
<1>8. CASE StoreTimeout \/ UNCHANGED driver_vars
  <2>1. UNCHANGED <<pc, dma_cmd, dma_irq, irq, irq_status, wq, worker, completed_events, drv, todo,
                    dma_stale, wild>>
    BY <1>8 DEF StoreTimeout, timeout_ms_store, driver_vars, vars, task_vars, bh_vars, edu_vars,
                life_vars
  <2>2. Smoking => Smoking'
    BY <2>1 DEF Smoking
  <2>3. ~dma_stale'
    BY <1>0, <1>2, <2>1 DEF DmaInv
  <2> QED BY <1>0, <1>2, <2>1, <2>2, <2>3, DmaFrame
<1> QED BY <1>3, <1>4, <1>5, <1>6, <1>7, <1>8 DEF DriverNext

LEMMA WildInit == DriverInit => WildInv
<1> SUFFICES ASSUME DriverInit PROVE WildInv
  OBVIOUS
<1>1. LockInv
  BY QeduAssumption DEF DriverInit, Init, LockInv, HeldPcs, FactPcs, DmaPcs, AbortPcs
<1>2. NoTransfer /\ AckedOnLine
  BY DEF DriverInit, Init, EduInit, NoTransfer, AckedOnLine, IrqOff
<1>3. DmaInv
  BY <1>2 DEF DriverInit, Init, DmaInv, Whereabouts, AbortPcs
<1>4. aborts \in Nat
  BY DEF DriverInit, Init
<1> QED BY <1>1, <1>3, <1>4, BindingInit DEF WildInv

(* As long as the device is not unbound under an open file, a transfer reaches freed
   memory only after a wait was aborted or a poll of the self-test gave up, in any number
   of bindings: the buffer that qedu_dma_exit() frees with bus mastering on is at rest. *)
THEOREM UnabortedIsNeverWild ==
  ASSUME Unbind = FALSE
  PROVE  DriverSpec => []UnabortedNeverWild
<1>1. DriverInit => WildInv
  BY WildInit
<1>2. ASSUME WildInv, [DriverNext]_driver_vars PROVE WildInv'
  <2>1. BindingInv /\ LockInv /\ aborts \in Nat /\ UseTypes
    BY <1>2 DEF WildInv, BindingInv
  <2>2. BindingInv'
    BY <1>2, <2>1, BindingNext
  <2>3. LockInv'
    BY <1>2, <2>1, LockKept
  <2>4. aborts' \in Nat
    BY <1>2, <2>1, HistoryGrows
  <2>5. DmaInv'
    BY <1>2, DmaNext
  <2> QED BY <2>2, <2>3, <2>4, <2>5 DEF WildInv
<1>3. WildInv => UnabortedNeverWild
  BY DEF WildInv, DmaInv, UnabortedNeverWild
<1> QED BY <1>1, <1>2, <1>3, PTL DEF DriverSpec
=============================================================================
