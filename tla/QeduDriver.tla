----------------------------- MODULE QeduDriver -----------------------------
(***************************************************************************)
(* The life of a binding: qedu_probe() with its error labels and           *)
(* qedu_remove() (qedu_main.c) over the layers of qedu_irq.c, qedu_dma.c,  *)
(* qedu_chrdev.c and qedu_debugfs.c, around the bound driver of module     *)
(* Qedu.  The device keeps its state from one binding to the next.         *)
(*                                                                         *)
(* A binding is a list of things to do: probe acquires resources from the  *)
(* list; a failure replaces it by the steps behind the matching error      *)
(* label; remove starts with the full teardown.                            *)
(***************************************************************************)
EXTENDS Qedu

CONSTANTS MaxBinds,   \* bound: bindings of the driver to the device
          Unbind      \* TRUE: the device may be unbound while files are open

ASSUME DriverAssumption == MaxBinds \in Nat /\ Unbind \in BOOLEAN

VARIABLES
  drv,       \* what the driver core is doing: see Phases
  todo,      \* what is left of qedu_probe(), of its error path or of qedu_remove()
  res,       \* resources held
  binds,     \* history: bindings so far
  dma_stale, \* the running transfer's bus address is of a freed buffer
  poll_out,  \* history: a self-test poll timed out
  wild       \* history: a transfer reached freed memory

life_vars == <<drv, todo, res, binds, dma_stale, poll_out, wild>>
driver_vars == <<vars, life_vars>>

Phases    == {"unbound", "probing", "bound", "teardown"}
Resources == {"drvdata", "enabled", "regions", "bar0", "irq", "master", "buffer",
              "wq", "misc", "debugfs"}
Steps     == Resources \cup {"dma_mask", "factorial", "poll_factorial", "raise_irq",
                             "smoke", "poll_smoke", "stage", "cancel_advance",
                             "cancel_finish"}

Selftest  == <<"factorial", "poll_factorial", "raise_irq", "smoke", "poll_smoke">>
ProbePlan(selftest) ==
  <<"drvdata", "enabled", "regions", "bar0", "irq", "dma_mask", "master", "buffer",
    "wq">> \o (IF selftest THEN Selftest ELSE <<>>) \o <<"misc", "debugfs">>

PciExit   == <<"bar0", "regions", "enabled">>
DmaExit   == <<"stage", "cancel_advance", "cancel_finish", "wq", "buffer", "master">>
(* err_irq_dma: *)
ErrIrqDma == <<"irq">> \o DmaExit \o PciExit \o <<"drvdata">>
(* err_irq: *)
ErrIrq    == <<"irq">> \o PciExit \o <<"drvdata">>
RemovePlan == <<"debugfs", "misc">> \o ErrIrqDma

(* Mutant: probe takes err_irq where qedu_dma_init() has already succeeded. *)
ErrorPathSkipsDma(s) ==
  CASE s = "drvdata"  -> <<>>
    [] s = "enabled"  -> <<"drvdata">>
    [] s = "regions"  -> <<"enabled", "drvdata">>
    [] s = "bar0"     -> <<"regions", "enabled", "drvdata">>
    [] s = "irq"      -> PciExit \o <<"drvdata">>
    [] s = "buffer"   -> <<"master">> \o ErrIrq
    [] s = "wq"       -> <<"buffer", "master">> \o ErrIrq
    [] OTHER          -> ErrIrq

(* What runs after step s of the probe failed. *)
ErrorPath(s) ==
  CASE s = "drvdata"  -> <<>>
    [] s = "enabled"  -> <<"drvdata">>
    [] s = "regions"  -> <<"enabled", "drvdata">>
    [] s = "bar0"     -> <<"regions", "enabled", "drvdata">>
    [] s = "irq"      -> PciExit \o <<"drvdata">>
    [] s = "dma_mask" -> ErrIrq
    [] s = "buffer"   -> <<"master">> \o ErrIrq
    [] s = "wq"       -> <<"buffer", "master">> \o ErrIrq
    [] OTHER          -> ErrIrqDma

DriverInit ==
  /\ Init
  /\ drv = "unbound"
  /\ todo = <<>>
  /\ res = {}
  /\ binds = 0
  /\ dma_stale = FALSE
  /\ poll_out = FALSE
  /\ wild = FALSE

-----------------------------------------------------------------------------
(* qedu_probe() *)

ProbeBegin(selftest) ==
  /\ drv = "unbound"
  /\ binds < MaxBinds
  /\ drv' = "probing"
  /\ todo' = ProbePlan(selftest)
  /\ binds' = binds + 1
  /\ UNCHANGED <<vars, res, dma_stale, poll_out, wild>>

(* The next step s of the probe is done. *)
Probed(s) ==
  /\ drv = "probing"
  /\ Head(todo) = s
  /\ todo' = Tail(todo)
  /\ drv' = IF Tail(todo) = <<>> THEN "bound" ELSE "probing"
  /\ UNCHANGED <<binds, dma_stale, wild>>

(* devm_kzalloc() and the initialisation of struct qedu_dev. *)
qedu_alloc_device ==
  /\ Probed("drvdata")
  /\ res' = res \cup {"drvdata"}
  /\ completed_events' = {}
  /\ result_size' = 0
  /\ timeout_ms' = QEDU_DEFAULT_TIMEOUT_MS
  /\ next_io_id' = 0
  /\ active_io_id' = 0
  /\ result_io_id' = 0
  /\ active_engine' = "NONE"
  /\ dma_stage' = "IDLE"
  /\ jobs' = [i \in 1..MaxIo |-> NoPayload]
  /\ UNCHANGED <<task_vars, lock, input, clean, aborts, wq, worker, irq, edu_vars, poll_out>>

(* The calls that hand out a resource and touch nothing else. *)
Acquire(s) ==
  /\ s \in Resources \ {"drvdata", "buffer"}
  /\ Probed(s)
  /\ res' = res \cup {s}
  /\ UNCHANGED <<vars, poll_out>>

(* dma_set_mask_and_coherent(), and a debugfs failure, which probe ignores. *)
NothingHeld ==
  /\ \E s \in {"dma_mask", "debugfs"} : Probed(s)
  /\ UNCHANGED <<vars, res, poll_out>>

AllocBuffer ==
  /\ Probed("buffer")
  /\ res' = res \cup {"buffer"}
  /\ buf' = Zeroed
  /\ UNCHANGED <<task_vars, job_vars, bh_vars, fact_busy, fact_irq, fact_reg, dma_cmd,
                 dma_irq, edu_buf, irq_status, poll_out>>

(* qedu_test_registers(): start, then poll BUSY. *)
TestFactorial ==
  /\ Probed("factorial")
  /\ WriteFactorial(NoPayload)
  /\ UNCHANGED <<task_vars, job_vars, bh_vars, fact_irq, dma_cmd, dma_irq, edu_buf,
                 irq_status, buf, res, poll_out>>

(* Mutant: the smoke test does not wait for the transfer. *)
PollDoneEarly ==
  /\ \/ Probed("poll_factorial") /\ ~fact_busy
     \/ Probed("poll_smoke")
  /\ UNCHANGED <<vars, res, poll_out>>

PollDone ==
  /\ \/ Probed("poll_factorial") /\ ~fact_busy
     \/ Probed("poll_smoke") /\ dma_cmd = "none"
  /\ UNCHANGED <<vars, res, poll_out>>

(* The bit the self-test raises is the factorial engine's own. *)
qedu_raise_test_irq ==
  /\ Probed("raise_irq")
  /\ Raise("FACTORIAL", TRUE)
  /\ UNCHANGED <<task_vars, job_vars, bh_vars, fact_busy, fact_irq, fact_reg, dma_cmd,
                 dma_irq, edu_buf, buf, res, poll_out>>

qedu_dma_smoke_test ==
  /\ Probed("smoke")
  /\ buf' = Bytes(NoPayload)
  /\ StartDma("to_device", FALSE)
  /\ UNCHANGED <<task_vars, job_vars, bh_vars, fact_busy, fact_irq, fact_reg, edu_buf,
                 irq_status, res, poll_out>>

(* Mutant: the polls have no time limit. *)
ProbeFailsNoTimeout ==
  /\ drv = "probing"
  /\ Head(todo) \notin {"master", "factorial", "raise_irq", "smoke", "debugfs",
                         "poll_factorial", "poll_smoke"}
  /\ todo' = ErrorPath(Head(todo))
  /\ drv' = IF todo' = <<>> THEN "unbound" ELSE "teardown"
  /\ UNCHANGED <<vars, res, binds, dma_stale, poll_out, wild>>

(* pci_set_master(), the register writes of the self-test and debugfs cannot fail
   the probe; everything else can. *)
ProbeFails ==
  /\ drv = "probing"
  /\ Head(todo) \notin {"master", "factorial", "raise_irq", "smoke", "debugfs"}
  /\ todo' = ErrorPath(Head(todo))
  /\ drv' = IF todo' = <<>> THEN "unbound" ELSE "teardown"
  /\ poll_out' = (poll_out \/ Head(todo) \in {"poll_factorial", "poll_smoke"})
  /\ UNCHANGED <<vars, res, binds, dma_stale, wild>>

ProbeStep ==
  \/ qedu_alloc_device \/ AllocBuffer \/ NothingHeld
  \/ \E s \in Resources : Acquire(s)
  \/ TestFactorial \/ PollDone \/ qedu_raise_test_irq \/ qedu_dma_smoke_test
  \/ ProbeFails

-----------------------------------------------------------------------------
(* qedu_remove() and the error labels *)

(* An open file pins the module, but not the binding. *)
RemoveBegin ==
  /\ drv = "bound"
  /\ Unbind \/ \A t \in Tasks : pc[t] = "closed"
  /\ drv' = "teardown"
  /\ todo' = RemovePlan
  /\ UNCHANGED <<vars, res, binds, dma_stale, poll_out, wild>>

TornDown(s) ==
  /\ drv = "teardown"
  /\ Head(todo) = s
  /\ todo' = Tail(todo)
  /\ drv' = IF Tail(todo) = <<>> THEN "unbound" ELSE "teardown"
  /\ UNCHANGED <<binds, poll_out, wild>>

(* Mutant: the handler is freed without waiting for a running instance. *)
FreeIrqNoSync ==
  /\ TornDown("irq")
  /\ res' = res \ {"irq"}
  /\ UNCHANGED <<vars, dma_stale>>

(* free_irq() waits for a running handler. *)
FreeIrq ==
  /\ TornDown("irq")
  /\ irq.at = "off"
  /\ res' = res \ {"irq"}
  /\ UNCHANGED <<vars, dma_stale>>

StopStage ==
  /\ TornDown("stage")
  /\ dma_stage' = "IDLE"
  /\ UNCHANGED <<task_vars, job_vars, completed_events, wq, worker, irq, edu_vars, res,
                 dma_stale>>

(* cancel_work_sync() of the two items. *)
CancelWorks ==
  /\ \/ /\ TornDown("cancel_advance")
        /\ worker \notin {"sleep", "start"}
        /\ wq' = Drop("advance")
     \/ /\ TornDown("cancel_finish")
        /\ worker # "publish"
        /\ wq' = Drop("finish")
  /\ UNCHANGED <<task_vars, job_vars, completed_events, dma_stage, worker, irq,
                 edu_vars, res, dma_stale>>

(* A transfer that is running when the buffer is freed keeps its bus address. *)
FreeBuffer ==
  /\ TornDown("buffer")
  /\ res' = res \ {"buffer"}
  /\ result_size' = 0
  /\ dma_stale' = (dma_cmd # "none")
  /\ UNCHANGED <<task_vars, lock, next_io_id, active_io_id, active_engine,
                 result_io_id, timeout_ms, input, jobs, clean, aborts, bh_vars, edu_vars>>

Release(s) ==
  /\ s \in Resources \ {"irq", "buffer"}
  /\ TornDown(s)
  /\ res' = res \ {s}
  /\ UNCHANGED <<vars, dma_stale>>

TeardownStep ==
  \/ FreeIrq \/ StopStage \/ CancelWorks \/ FreeBuffer
  \/ \E s \in Resources : Release(s)

-----------------------------------------------------------------------------
(* The bound driver inside a binding *)

(* /dev/qedu and its attributes exist from misc_register() to misc_deregister(); a
   module that is going away cannot be opened any more. *)
TaskStep(t) ==
  /\ UserStep(t) \/ JobStep(t)
  /\ pc[t] = "closed" => "misc" \in res /\ (drv = "teardown" => Unbind)
  /\ UNCHANGED life_vars

StoreTimeout ==
  /\ "misc" \in res
  /\ \E v \in Timeouts : timeout_ms_store(v)
  /\ UNCHANGED life_vars

(* The handler runs while it is registered; without a workqueue a DMA interrupt
   is only acknowledged. *)
HandlerStep ==
  /\ \/ IrqRead /\ "irq" \in res
     \/ IrqAck
     \/ IrqStage /\ "wq" \in res
     \/ /\ irq.at = "stage" /\ "wq" \notin res
        /\ irq' = IrqOff
        /\ UNCHANGED <<task_vars, job_vars, completed_events, dma_stage, wq, worker,
                       edu_vars>>
     \/ IrqQueue
  /\ UNCHANGED life_vars

KworkerStep == WorkerStep /\ UNCHANGED life_vars

(* With bus mastering off a transfer moves nothing; with it on, a transfer set up
   over a buffer that was freed since reaches whatever is there now. *)
BusTransfer ==
  /\ dma_cmd # "none"
  /\ IF "master" \in res /\ ~dma_stale
     THEN DmaEngine
     ELSE /\ dma_cmd' = "none"
          /\ Raise("DMA", dma_irq)
          /\ UNCHANGED <<fact_busy, fact_irq, fact_reg, dma_irq, edu_buf, buf>>
  /\ wild' = (wild \/ ("master" \in res /\ dma_stale))
  /\ dma_stale' = FALSE
  /\ UNCHANGED <<task_vars, job_vars, bh_vars, drv, todo, res, binds, poll_out>>

EngineStep ==
  \/ FactorialEngine /\ UNCHANGED <<task_vars, job_vars, bh_vars, life_vars>>
  \/ BusTransfer

DriverNext ==
  \/ \E selftest \in BOOLEAN : ProbeBegin(selftest)
  \/ ProbeStep
  \/ RemoveBegin
  \/ TeardownStep
  \/ \E t \in Tasks : TaskStep(t)
  \/ StoreTimeout
  \/ HandlerStep
  \/ KworkerStep
  \/ EngineStep

DriverSpec == DriverInit /\ [][DriverNext]_driver_vars

(* The driver core runs probe and remove to their end, interrupts and work items
   are served; nothing is assumed of the device, whose polls time out. *)
DriverFairSpec ==
  /\ DriverSpec
  /\ WF_driver_vars(ProbeStep)
  /\ WF_driver_vars(TeardownStep)
  /\ WF_driver_vars(HandlerStep)
  /\ WF_driver_vars(KworkerStep)

-----------------------------------------------------------------------------
(* Properties *)

(* Every way out of a binding, from any failing step of qedu_probe() and from
   qedu_remove(), releases exactly the resources that are held, each once;
   debugfs_remove_recursive() may be called without a directory. *)
TeardownExact ==
  /\ drv = "unbound" => res = {}
  /\ drv = "teardown" =>
       /\ res \subseteq {todo[i] : i \in 1..Len(todo)}
       /\ \A i \in 1..Len(todo) : todo[i] \in Resources \ {"debugfs"} => todo[i] \in res
       /\ \A i, j \in 1..Len(todo) : todo[i] = todo[j] => i = j

(* Nobody runs on resources that are gone: not the handler (BAR0, its own
   registration, and the workqueue it queues on), not the kworker (workqueue, buffer,
   BAR0), not a task inside write(2). *)
NoUseAfterRelease ==
  /\ irq.at # "off" => {"drvdata", "bar0", "irq"} \subseteq res
  /\ irq.at = "queue" => "wq" \in res
  /\ worker # "idle" \/ wq # <<>> => {"wq", "buffer", "bar0"} \subseteq res
  /\ \A t \in Tasks : pc[t] # "closed" =>
       {"drvdata", "bar0", "irq", "wq", "buffer", "misc"} \subseteq res

(* Unless a wait was aborted or a self-test poll gave up, no transfer ever reaches
   freed memory: qedu_dma_exit() frees the buffer while bus mastering is on, and
   a later binding turns it on again. *)
UnabortedNeverWild == aborts = 0 /\ ~poll_out => ~wild

(* qedu_main.c: teardown first stops new IRQ-driven work, then releases the rest. *)
TeardownStopsJobs ==
  drv = "teardown" /\ "irq" \notin res => \A t \in Tasks : pc[t] \notin HeldPcs

(* Probe and remove come to an end, whatever the device does: free_irq() and
   cancel_work_sync() wait for finite work, and polls time out. *)
BindingSettles == drv \in {"probing", "teardown"} ~> drv \in {"bound", "unbound"}
=============================================================================
