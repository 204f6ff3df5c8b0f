-------------------------- MODULE CaptureProof --------------------------
(***************************************************************************)
(* What an attempt leaves behind, what a published capture says of the     *)
(* machine and of the workload, and what becomes of the network card, for  *)
(* any experiments, modules, bounds, failures and signals.                 *)
(***************************************************************************)
EXTENDS VtdSession, SequenceTheorems, FiniteSetTheorems, TLAPS

Undos == Resources \union {"restore"}

\* The resource the current step has acquired and is about to register.
Pending(r) ==
    /\ pc = "work" /\ at \in DOMAIN workflow
    /\ \/ phase = "register" /\ workflow[at] = r
       \/ phase = "register" /\ workflow[at] = "vm" /\ r = "workload"
       \/ phase = "init" /\ workflow[at] = "trace" /\ r = "trace"

Undone(r) == r \in lost \/ r \in Range(stack) \/ cb = r \/ Pending(r)

Shape ==
    /\ attempt \in Nat /\ attempt > 0
    /\ workflow \in Seq(Steps)
    /\ stack \in Seq(Undos)
    /\ module \in [Modules \union Kept -> 0..attempt]
    /\ trace \in 0..attempt
    /\ Closing \/ cb = None
    /\ pc = "work" \/ Closing \/ stack = <<>>

(***************************************************************************)
(* The inductive invariant: a resource that is present has its undo on the *)
(* stack, in the callback that runs, in the step that is about to register *)
(* it, or among the lost.                                                  *)
(***************************************************************************)
UndoInv == Shape /\ \A r \in Resources : Present(r) => Undone(r)

-----------------------------------------------------------------------------
\* Appending an undo adds it to the resources on the stack and loses none.
LEMMA RangeAppend ==
    ASSUME NEW S, NEW s \in Seq(S), NEW e \in S
    PROVE  Append(s, e) \in Seq(S) /\ Range(Append(s, e)) = Range(s) \union {e}
<1> DEFINE a == Append(s, e)
<1>1. /\ a \in Seq(S) /\ Len(a) = Len(s) + 1 /\ Len(s) \in Nat
      /\ \A i \in 1..Len(s) : a[i] = s[i]
      /\ a[Len(s) + 1] = e
    OBVIOUS
<1>2. DOMAIN a = 1..Len(a) /\ DOMAIN s = 1..Len(s)
    BY <1>1
<1> HIDE DEF a
<1>3. 1..Len(a) = 1..Len(s) \union {Len(s) + 1}
    BY <1>1
<1>4. Range(a) = {a[i] : i \in 1..Len(a)} /\ Range(s) = {s[i] : i \in 1..Len(s)}
    BY <1>2 DEF Range
<1> QED
    BY <1>1, <1>3, <1>4 DEF a

\* Taking the last undo off the stack leaves all the others on it.
LEMMA RangeFront ==
    ASSUME NEW S, NEW s \in Seq(S), s # <<>>
    PROVE  /\ Front(s) \in Seq(S) /\ Last(s) \in S
           /\ Range(s) = Range(Front(s)) \union {Last(s)}
<1>1. Len(s) \in Nat /\ Len(s) > 0 /\ DOMAIN s = 1..Len(s) /\ \A i \in 1..Len(s) : s[i] \in S
    OBVIOUS
<1>2. Last(s) = s[Len(s)] /\ Last(s) \in S
    BY <1>1 DEF Last
<1>3. Front(s) = SubSeq(s, 1, Len(s) - 1)
    BY DEF Front
<1>4. /\ Front(s) \in Seq(S) /\ Len(Front(s)) = Len(s) - 1
      /\ \A i \in 1..(Len(s) - 1) : Front(s)[i] = s[i]
    BY <1>1, <1>3
<1>5. DOMAIN Front(s) = 1..(Len(s) - 1)
    BY <1>4
<1>6. Range(s) = {s[i] : i \in 1..Len(s)} /\ Range(Front(s)) = {s[i] : i \in 1..(Len(s) - 1)}
    BY <1>1, <1>4, <1>5 DEF Range
<1>7. 1..Len(s) = 1..(Len(s) - 1) \union {Len(s)}
    BY <1>1
<1> QED
    BY <1>2, <1>4, <1>6, <1>7

\* Names of resources, undos and steps do not clash.
LEMMA Names ==
    /\ Modules \intersect (FixedSteps \union {None}) = {}
    /\ Resources \intersect Kept = {}
    /\ "restore" \notin Resources /\ None \notin Undos
    /\ \A m \in Modules : m \notin {"trace", "observer", "workload", "vm", "restore", "none"}
    /\ \A m \in Modules : m \notin {"swapon", "modprobe"} /\ m \notin Kept
BY SessionAssumption DEF Resources, Undos, FixedSteps, Kept, None

\* A step of a process or of the trace's reader brings nothing new to life.
LEMMA EnvironmentStep ==
    ASSUME Environment
    PROVE  /\ ObserverAlive' => ObserverAlive
           /\ WorkloadAlive' => WorkloadAlive
           /\ UNCHANGED <<control_vars, module, trace>>
<1>1. ASSUME ObserverStep(workflow \notin Careless),
             UNCHANGED <<control_vars, workload_vars, module, trace_vars, capture, file_vars>>
      PROVE  /\ ObserverAlive
             /\ UNCHANGED <<workload, control_vars, module, trace>>
    BY <1>1 DEF ObserverStep, ObserverSetup, ObserverReady, ObserverSetupFails, ObserverPoll,
                ObserverPollFails, ObserverWriteFails, ObserverStops, ObserverDrain, lab_health,
                ObserverExit, ObserverAlive, ObserverEnded, workload_vars, trace_vars
<1>2. ASSUME Workload
      PROVE  /\ WorkloadAlive
             /\ UNCHANGED <<observer, control_vars, module, trace>>
    BY <1>2 DEF Workload, WorkloadRuns, WorkloadEnds, WorkloadTerminates, Emit,
                WorkloadAlive, WorkloadEnded, None
<1>3. ASSUME Drain
      PROVE  UNCHANGED <<observer, workload, control_vars, module, trace>>
    BY <1>3 DEF Drain, DrainRead, DrainEnds, DrainFails, observer_vars, workload_vars
<1> QED
    BY <1>1, <1>2, <1>3 DEF Environment, ObserverAlive, WorkloadAlive

-----------------------------------------------------------------------------
\* The steps that bring in what has no undo.
Brings == Swapon \/ Modprobe \/ TraceMount

\* They leave everything alone that is there or has an undo.
LEMMA BringStep ==
    ASSUME Shape, Brings
    PROVE  /\ UNCHANGED <<attempt, workflow, pc, stack, cb, raised, signals, lost>>
           /\ UNCHANGED <<observer_vars, workload_vars, trace_vars, capture, file_vars>>
           /\ pc = "work" /\ at \in DOMAIN workflow
           /\ workflow[at] \in {"swapon", "modprobe", "trace"}
           /\ phase \in {"begin", "type1", "mount"}
           /\ \/ at' = at + 1 /\ phase' = "begin" /\ workflow[at] # "trace"
              \/ at' = at /\ phase' \in {"type1", "mount", "make"}
           /\ module' \in [Modules \union Kept -> 0..attempt]
           /\ \A m \in Modules : module'[m] = module[m]
           /\ \A r \in Modules \union Kept : module[r] # 0 => module'[r] = module[r]
<1> USE DEF Shape, Phase, NextStep, At
<1>1. ASSUME NEW r \in Kept, Bring(r)
      PROVE  /\ module' \in [Modules \union Kept -> 0..attempt]
             /\ \A m \in Modules : module'[m] = module[m]
             /\ \A q \in Modules \union Kept : module[q] # 0 => module'[q] = module[q]
  <2> DEFINE v == IF module[r] = 0 THEN attempt ELSE module[r]
  <2>1. module' = [module EXCEPT ![r] = v]
    BY <1>1 DEF Bring
  <2>2. v \in 0..attempt /\ (module[r] # 0 => v = module[r])
    OBVIOUS
  <2> HIDE DEF v
  <2> QED
    BY <2>1, <2>2, Names
<1>2. {"swap", "vfio-pci", "vfio_iommu_type1", "tracefs"} \subseteq Kept
    BY DEF Kept
<1>3. ASSUME Swapon PROVE \E r \in Kept : Bring(r)
    BY <1>2, <1>3 DEF Swapon
<1>4. ASSUME Modprobe PROVE \E r \in Kept : Bring(r)
    BY <1>2, <1>4 DEF Modprobe
<1>5. ASSUME TraceMount PROVE \E r \in Kept : Bring(r)
    BY <1>2, <1>5 DEF TraceMount
<1>6. \E r \in Kept : Bring(r)
    BY <1>3, <1>4, <1>5 DEF Brings
<1>7. /\ module' \in [Modules \union Kept -> 0..attempt]
      /\ \A m \in Modules : module'[m] = module[m]
      /\ \A r \in Modules \union Kept : module[r] # 0 => module'[r] = module[r]
    BY <1>1, <1>6
<1>8. CASE Swapon
    BY <1>7, <1>8 DEF Swapon
<1>9. CASE Modprobe
    BY <1>7, <1>9 DEF Modprobe
<1>10. CASE TraceMount
    BY <1>7, <1>10 DEF TraceMount
<1> QED
    BY <1>8, <1>9, <1>10 DEF Brings

\* Acquiring a resource leaves it to the step that acquired it, until it is registered.
LEMMA AcquireStep ==
    ASSUME UndoInv, Acquire
    PROVE  UndoInv'
<1> USE Names DEF UndoInv, Shape, Undone, Pending, Present, ObserverAlive, ObserverEnded,
        WorkloadAlive, WorkloadEnded, At, Phase, NextStep, Raise, Closing, Resources,
        observer_vars, workload_vars, trace_vars
<1>1. ASSUME NEW m \in Modules, ModuleRefuse(m) PROVE UndoInv'
    BY <1>1 DEF ModuleRefuse
<1>2. ASSUME NEW m \in Modules, ModuleInsert(m) PROVE UndoInv'
    BY <1>2 DEF ModuleInsert
<1>3. ASSUME NEW m \in Modules, ModuleRegister(m) PROVE UndoInv'
    BY <1>3, RangeAppend DEF ModuleRegister, Undos
<1>4. ASSUME TraceRefuse PROVE UndoInv'
    BY <1>4 DEF TraceRefuse
<1>5. ASSUME TraceMake PROVE UndoInv'
    BY <1>5 DEF TraceMake
<1>6. ASSUME TraceInit PROVE UndoInv'
    BY <1>6 DEF TraceInit
<1>7. ASSUME TraceInitFails PROVE UndoInv'
    BY <1>7 DEF TraceInitFails
<1>8. ASSUME TraceRegister PROVE UndoInv'
    <2>1. /\ stack' = Append(stack, "trace") /\ phase' = "enable"
          /\ At("trace", "register")
          /\ UNCHANGED <<attempt, workflow, pc, at, cb, lost, module, trace, observer, workload>>
        BY <1>8 DEF TraceRegister, Register
    <2>2. stack' \in Seq(Undos) /\ Range(stack') = Range(stack) \union {"trace"}
        BY <2>1, RangeAppend DEF Undos
    <2>3. Shape'
        BY <2>1, <2>2
    <2>4. ASSUME NEW r \in Resources, Present(r)' PROVE Undone(r)'
        BY <2>1, <2>2, <2>4
    <2> QED
        BY <2>3, <2>4
<1>9. ASSUME TraceStart PROVE UndoInv'
    BY <1>9 DEF TraceStart
<1>10. ASSUME ObserverStart PROVE UndoInv'
    BY <1>10 DEF ObserverStart, ObserverSpawn
<1>11. ASSUME ObserverRegister PROVE UndoInv'
  <2>1. "observer" \in Undos /\ stack' = Append(stack, "observer")
    BY <1>11 DEF ObserverRegister, Register, Undos
  <2>2. stack' \in Seq(Undos) /\ Range(stack') = Range(stack) \union {"observer"}
    BY <2>1, RangeAppend
  <2> QED
    BY <1>11, <2>2 DEF ObserverRegister, Register
<1>12. ASSUME ObserverIsReady PROVE UndoInv'
    BY <1>12 DEF ObserverIsReady
<1>13. ASSUME WorkloadStart PROVE UndoInv'
    BY <1>13 DEF WorkloadStart
<1>14. ASSUME WorkloadRegister PROVE UndoInv'
  <2>1. "workload" \in Undos /\ stack' = Append(stack, "workload")
    BY <1>14 DEF WorkloadRegister, Undos
  <2>2. stack' \in Seq(Undos) /\ Range(stack') = Range(stack) \union {"workload"}
    BY <2>1, RangeAppend
  <2>3. UNCHANGED <<attempt, workflow, pc, cb, lost, module, trace, observer, workload>>
    BY <1>14 DEF WorkloadRegister
  <2>4. pc = "work" /\ phase = "register" /\ workflow[at] \in {"workload", "vm"}
    BY <1>14 DEF WorkloadRegister
  <2> QED
    BY <2>2, <2>3, <2>4
<1>15. ASSUME Brings PROVE UndoInv'
  <2>1. Shape'
    BY <1>15, BringStep
  <2>2. ASSUME NEW r \in Resources, Present(r)' PROVE Present(r)
    BY <1>15, <2>2, BringStep
  <2>3. ASSUME NEW r \in Resources PROVE Undone(r)' <=> Undone(r)
    BY <1>15, BringStep
  <2> QED
    BY <2>1, <2>2, <2>3
<1> QED
    BY <1>1, <1>2, <1>3, <1>4, <1>5, <1>6, <1>7, <1>8, <1>9, <1>10, <1>11, <1>12, <1>13, <1>14,
       <1>15
       DEF Acquire, Brings

\* Waiting, collecting and stopping the virtual machine acquire nothing.
LEMMA ObserveStep ==
    ASSUME UndoInv, Observe
    PROVE  UndoInv'
<1> USE Names DEF UndoInv, Shape, Undone, Pending, Present, ObserverAlive, ObserverEnded,
        WorkloadAlive, WorkloadEnded, At, Phase, NextStep, Raise, Closing, Resources,
        observer_vars, workload_vars, trace_vars
<1>1. ASSUME OpenGate PROVE UndoInv'
    BY <1>1 DEF OpenGate, None
<1>2. ASSUME WaitWorkload \/ GuestRuns PROVE UndoInv'
    BY <1>2 DEF WaitWorkload, GuestRuns
<1>3. ASSUME VmStop PROVE UndoInv'
    BY <1>3 DEF VmStop, Terminate
<1>4. ASSUME VmStopped PROVE UndoInv'
    BY <1>4 DEF VmStopped
<1>5. ASSUME VmKill PROVE UndoInv'
    BY <1>5 DEF VmKill, Kill
<1>6. ASSUME CollectSignal PROVE UndoInv'
    BY <1>6 DEF CollectSignal, ObserverInterrupted
<1>7. ASSUME CollectObserver PROVE UndoInv'
    BY <1>7 DEF CollectObserver
<1>8. ASSUME CollectNoTrace PROVE UndoInv'
    BY <1>8 DEF CollectNoTrace
<1>9. ASSUME TraceStop PROVE UndoInv'
    BY <1>9 DEF TraceStop
<1>10. ASSUME CollectTrace PROVE UndoInv'
    BY <1>10 DEF CollectTrace
<1> QED
    BY <1>1, <1>2, <1>3, <1>4, <1>5, <1>6, <1>7, <1>8, <1>9, <1>10 DEF Observe

\* An undo that returns has removed its resource, one that raises has removed or lost it.
LEMMA CleanupStep ==
    ASSUME UndoInv, Cleanup
    PROVE  UndoInv'
<1> USE Names DEF UndoInv, Shape, Undone, Pending, Present, ObserverAlive, ObserverEnded,
        WorkloadAlive, WorkloadEnded, Phase, Returns, Raises, Closing, Resources,
        observer_vars, workload_vars, trace_vars
<1>1. ASSUME PopCallback PROVE UndoInv'
  <2>1. /\ stack' \in Seq(Undos) /\ cb' \in Undos
        /\ Range(stack) = Range(stack') \union {cb'}
    BY <1>1, RangeFront DEF PopCallback
  <2>2. Closing /\ cb = None
    BY <1>1 DEF PopCallback
  <2>3. UNCHANGED <<attempt, workflow, pc, lost, module, trace, observer, workload>>
    BY <1>1 DEF PopCallback
  <2>4. Shape'
    BY <2>1, <2>2, <2>3
  <2>5. ASSUME NEW r \in Resources, Present(r)' PROVE Undone(r)'
    <3>1. Present(r) /\ ~Pending(r)
      BY <2>2, <2>3, <2>5
    <3>2. r \in lost \/ r \in Range(stack)
      BY <2>2, <3>1 DEF None
    <3> QED
      BY <2>1, <2>3, <3>2 DEF Undone
  <2> QED
    BY <2>4, <2>5 DEF UndoInv
<1>2. ASSUME NEW p \in {"observer", "workload"}, StopSignal(p) PROVE UndoInv'
    BY <1>2 DEF StopSignal, Terminate, ObserverInterrupted
<1>3. ASSUME NEW p \in {"observer", "workload"}, StopWait(p) PROVE UndoInv'
    BY <1>3 DEF StopWait
<1>4. ASSUME NEW p \in {"observer", "workload"}, StopKill(p) PROVE UndoInv'
    BY <1>4 DEF StopKill, Kill, ObserverKilled
<1>5. ASSUME TraceClose PROVE UndoInv'
    BY <1>5 DEF TraceClose
<1>6. ASSUME TraceRemove PROVE UndoInv'
    BY <1>6 DEF TraceRemove
<1>7. ASSUME NEW m \in Modules, ModuleRemove(m) PROVE UndoInv'
    BY <1>7 DEF ModuleRemove
<1>8. ASSUME CallbackFails PROVE UndoInv'
    BY <1>8 DEF CallbackFails
<1>9. ASSUME CloseDone PROVE UndoInv'
    BY <1>9 DEF CloseDone, Goto, None
<1> QED
    BY <1>1, <1>2, <1>3, <1>4, <1>5, <1>6, <1>7, <1>8, <1>9 DEF Cleanup

\* The stack is empty from the end of the clean-up to the next attempt.
LEMMA PublishStep ==
    ASSUME UndoInv, Publish
    PROVE  UndoInv'
<1> USE Names DEF UndoInv, Shape, Undone, Pending, Present, ObserverAlive, WorkloadAlive,
        Closing, Goto, Raise, observer_vars, workload_vars, trace_vars
<1>1. ASSUME Finish \/ Save \/ Validate \/ WriteTemporary \/ Replace \/ SyncDirectory
      PROVE  UndoInv'
    BY <1>1 DEF Finish, Save, Validate, WriteTemporary, Replace, SyncDirectory
<1>2. ASSUME PublishFails PROVE UndoInv'
    BY <1>2 DEF PublishFails, Publishing
<1>3. ASSUME RecordFailure PROVE UndoInv'
    BY <1>3 DEF RecordFailure
<1>4. ASSUME ReturnOwnership PROVE UndoInv'
    BY <1>4 DEF ReturnOwnership
<1> QED
    BY <1>1, <1>2, <1>3, <1>4 DEF Publish

\* A signal loses at most the resource of the step or callback it hits, or all of the stack.
LEMMA SignalStep ==
    ASSUME UndoInv, Signal \/ SignalInBind
    PROVE  UndoInv'
<1> USE Names DEF UndoInv, Shape, Undone, Pending, Present, ObserverAlive, WorkloadAlive,
        Closing, observer_vars, workload_vars, trace_vars
<1>1. ASSUME SignalInWorkflow PROVE UndoInv'
  <2>1. UNCHANGED <<attempt, workflow, at, stack, cb, module, trace, observer, workload>>
    BY <1>1 DEF SignalInWorkflow
  <2>2. pc = "work" /\ pc' = "xclose" /\ phase # "init" /\ lost' = lost \union Unregistered
    BY <1>1 DEF SignalInWorkflow
  <2>3. Shape'
    BY <2>1, <2>2
  <2>4. ASSUME NEW r \in Resources, Present(r)' PROVE Undone(r)'
    <3>1. Present(r)
      BY <2>1, <2>4
    <3>2. Pending(r) => r \in Range(stack) \/ r \in Unregistered
      BY <2>2, <3>1 DEF Unregistered
    <3> QED
      BY <2>1, <2>2, <3>1, <3>2
  <2> QED
    BY <2>3, <2>4
<1>2. ASSUME SignalInTraceInit PROVE UndoInv'
    BY <1>2 DEF SignalInTraceInit, At
<1>3. ASSUME SignalInCallback PROVE UndoInv'
    BY <1>3 DEF SignalInCallback
<1>4. ASSUME SignalInClose PROVE UndoInv'
  <2>1. UNCHANGED <<attempt, workflow, cb, module, trace, observer, workload>> /\ cb = None
    BY <1>4 DEF SignalInClose
  <2>2. Shape'
    <3>1. stack' = stack \/ stack' = <<>>
      BY <1>4 DEF SignalInClose
    <3>2. stack' \in Seq(Undos)
      <4>1. stack \in Seq(Undos) /\ <<>> \in Seq(Undos)
        OBVIOUS
      <4> QED
        BY <3>1, <4>1, Zenon
    <3>3. pc' = "xclose" \/ stack' = <<>>
      BY <1>4 DEF SignalInClose
    <3> QED
      BY <2>1, <3>2, <3>3
  <2>3. \A r \in Resources : r \in lost \union Range(stack) => r \in lost' \union Range(stack')
    BY <1>4 DEF SignalInClose
  <2>4. ASSUME NEW r \in Resources, Present(r)' PROVE Undone(r)'
    <3>1. Present(r) /\ ~Pending(r) /\ cb # r
      BY <1>4, <2>1, <2>4 DEF SignalInClose, Resources, None
    <3> QED
      BY <2>3, <3>1
  <2> QED
    BY <2>2, <2>4
<1>5. ASSUME SignalInPublish PROVE UndoInv'
    BY <1>5 DEF SignalInPublish, Publishing
<1>6. ASSUME SignalAtEnd PROVE UndoInv'
    BY <1>6 DEF SignalAtEnd
<1>7. ASSUME SignalInBind PROVE UndoInv'
    BY <1>7 DEF SignalInBind, At
<1> QED
    BY <1>1, <1>2, <1>3, <1>4, <1>5, <1>6, <1>7 DEF Signal

\* The card's own steps touch nothing the session has acquired.
LEMMA CardStep ==
    ASSUME UndoInv, Audit \/ Own \/ Bind \/ Restore
    PROVE  UndoInv'
<1> USE Names DEF UndoInv, Shape, Undone, Pending, Present, ObserverAlive, WorkloadAlive,
        At, Phase, NextStep, Raise, Returns, Raises, Closing, Resources,
        observer_vars, workload_vars, trace_vars
<1>1. ASSUME Audit PROVE UndoInv'
    BY <1>1 DEF Audit
<1>2. ASSUME Own PROVE UndoInv'
  <2>1. "restore" \in Undos /\ stack' = Append(stack, "restore")
    BY <1>2 DEF Own, Undos
  <2>2. stack' \in Seq(Undos) /\ Range(stack') = Range(stack) \union {"restore"}
    BY <2>1, RangeAppend
  <2> QED
    BY <1>2, <2>2 DEF Own
<1>3. ASSUME Bind PROVE UndoInv'
  <2>1. UNCHANGED <<module, trace, observer, workload>>
    BY <1>3 DEF Bind
  <2>2. ASSUME BindDown \/ BindDowned \/ BindTouch \/ BindUnbind \/ BindVfio PROVE UndoInv'
    BY <2>1, <2>2 DEF BindDown, BindDowned, BindTouch, BindUnbind, BindVfio
  <2>3. ASSUME BindDone PROVE UndoInv'
    BY <2>1, <2>3 DEF BindDone
  <2>4. ASSUME BindDownUnnoticed PROVE UndoInv'
    BY <2>1, <2>4 DEF BindDownUnnoticed
  <2> QED
    BY <1>3, <2>2, <2>3, <2>4 DEF Bind
<1>4. ASSUME Restore PROVE UndoInv'
  <2>1. UNCHANGED <<module, trace, observer, workload>>
    BY <1>4 DEF Restore
  <2>2. ASSUME RestoreStart \/ RestoreUnbind \/ RestoreOverride \/ RestoreBind \/ RestoreProfile
        PROVE  UndoInv'
    BY <2>1, <2>2 DEF RestoreStart, RestoreUnbind, RestoreOverride, RestoreBind, RestoreProfile,
                      Restoring
  <2>3. ASSUME RestoreDone PROVE UndoInv'
    BY <2>1, <2>3 DEF RestoreDone, Restoring
  <2>4. ASSUME RestoreFails PROVE UndoInv'
    BY <2>1, <2>4 DEF RestoreFails
  <2> QED
    BY <1>4, <2>2, <2>3, <2>4 DEF Restore
<1> QED
    BY <1>1, <1>2, <1>3, <1>4

-----------------------------------------------------------------------------
\* Every resource that is present has its undo somewhere, in every reachable state.
LEMMA UndoInvariant == VtdSpec => []UndoInv
<1>1. VtdInit => UndoInv
  <2> SUFFICES ASSUME VtdInit PROVE UndoInv
    OBVIOUS
  <2> USE DEF VtdInit, SessionInit
  <2>1. Shape
    BY DEF Shape, Closing
  <2>2. ~ObserverAlive /\ ~WorkloadAlive
    BY DEF ObserverAbsent, ObserverAlive, WorkloadAlive, None
  <2>3. \A r \in Resources : Present(r) => r \in lost
    BY <2>2, Names DEF Present
  <2> QED
    BY <2>1, <2>3 DEF UndoInv, Undone
<1>2. UndoInv /\ [VtdNext]_vtd_vars => UndoInv'
  <2> SUFFICES ASSUME UndoInv, [VtdNext]_vtd_vars PROVE UndoInv'
    OBVIOUS
  <2>1. ASSUME VtdBegin PROVE UndoInv'
    <3>1. Shape'
      BY <2>1, SessionAssumption DEF VtdBegin, Begin, UndoInv, Shape, Closing
    <3>2. ~ObserverAlive' /\ ~WorkloadAlive'
      BY <2>1 DEF VtdBegin, Begin, ObserverAlive, WorkloadAlive, None
    <3>3. \A r \in Resources : ~Present(r)'
      BY <2>1, <3>2, Names DEF VtdBegin, Begin, UndoInv, Shape, Present
    <3> QED
      BY <3>1, <3>3 DEF UndoInv
  <2>2. ASSUME Environment PROVE UndoInv'
    BY <2>2, EnvironmentStep DEF UndoInv, Shape, Undone, Pending, Present, Closing, control_vars
  <2>3. ASSUME WorkFails \/ WorkDone PROVE UndoInv'
    BY <2>3 DEF WorkFails, WorkDone, UndoInv, Shape, Undone, Pending, Present, Closing, Goto,
                Raise, ObserverAlive, WorkloadAlive, observer_vars, workload_vars, trace_vars
  <2>4. ASSUME VtdController PROVE UndoInv'
    BY <2>3, <2>4, AcquireStep, ObserveStep, CleanupStep, PublishStep, CardStep
       DEF VtdController, Controller
  <2>5. ASSUME VtdSignal PROVE UndoInv'
    BY <2>5, SignalStep DEF VtdSignal
  <2>6. ASSUME UNCHANGED vtd_vars PROVE UndoInv'
    BY <2>6 DEF vtd_vars, session_vars, observer_vars, control_vars, workload_vars, trace_vars,
                UndoInv, Shape, Undone, Pending, Present, Closing, ObserverAlive, WorkloadAlive
  <2> QED
    BY <2>1, <2>2, <2>4, <2>5, <2>6 DEF VtdNext
<1> QED
    BY <1>1, <1>2, PTL DEF VtdSpec

(***************************************************************************)
(* Whatever the experiments, the modules, the failures and the signals:    *)
(* what Session.execute() leaves behind is the tracefs mount, the vfio     *)
(* modules or the swap, which have no undo, something whose undo a signal  *)
(* kept from being registered or from finishing, or something whose own    *)
(* undo failed, the close() Trace.__init__() calls itself included.        *)
(***************************************************************************)
THEOREM LeftoversAreExplained == VtdSpec => []LeftoverIsExplained
<1>1. UndoInv => LeftoverIsExplained
  <2> SUFFICES ASSUME UndoInv, pc = "idle", NEW r \in Resources, Present(r)
               PROVE  r \in lost
    BY Zenon DEF LeftoverIsExplained
  <2>1. stack = <<>> /\ cb = None
    BY DEF UndoInv, Shape, Closing
  <2>2. r \notin Range(stack) /\ cb # r /\ ~Pending(r)
    BY <2>1, Names DEF Range, Pending, Undos
  <2> QED
    BY <2>2 DEF UndoInv, Undone
<1> QED
    BY <1>1, UndoInvariant, PTL
-----------------------------------------------------------------------------
Claimed(r) == r \in Range(stack) \/ cb = r \/ Pending(r)

(***************************************************************************)
(* What the attempt is going to undo it has made itself, or it is gone.    *)
(***************************************************************************)
OwnInv ==
    /\ \A m \in Modules : Claimed(m) => module[m] \in {0, attempt}
    /\ Claimed("trace") => trace \in {0, attempt}

\* A step that claims nothing new and changes no module and no instance keeps OwnInv.
LEMMA ClaimsShrink ==
    ASSUME OwnInv, UNCHANGED <<attempt, module, trace>>,
           \A r \in Modules \union {"trace"} : Claimed(r)' => Claimed(r)
    PROVE  OwnInv'
BY DEF OwnInv

\* A claim comes from a module or an instance that was not there before.
LEMMA OwnAcquire ==
    ASSUME UndoInv, OwnInv, Acquire
    PROVE  OwnInv'
<1> USE Names DEF OwnInv, UndoInv, Shape, Claimed, Pending, At, Phase, NextStep, Raise, Closing,
        trace_vars
<1>1. ASSUME NEW m \in Modules, ModuleRefuse(m) PROVE OwnInv'
    BY <1>1 DEF ModuleRefuse
<1>2. ASSUME NEW m \in Modules, ModuleInsert(m) PROVE OwnInv'
    BY <1>2 DEF ModuleInsert
<1>3. ASSUME NEW m \in Modules, ModuleRegister(m) PROVE OwnInv'
  <2>1. Range(stack') = Range(stack) \union {m}
    BY <1>3, RangeAppend DEF ModuleRegister, Undos, Resources
  <2> QED
    BY <1>3, <2>1 DEF ModuleRegister
<1>4. ASSUME TraceRefuse PROVE OwnInv'
    BY <1>4 DEF TraceRefuse
<1>5. ASSUME TraceMake PROVE OwnInv'
    BY <1>5 DEF TraceMake
<1>6. ASSUME TraceInit \/ TraceInitFails PROVE OwnInv'
    BY <1>6 DEF TraceInit, TraceInitFails
<1>7. ASSUME TraceRegister PROVE OwnInv'
  <2>1. Range(stack') = Range(stack) \union {"trace"}
    BY <1>7, RangeAppend DEF TraceRegister, Register, Undos, Resources
  <2> QED
    BY <1>7, <2>1 DEF TraceRegister, Register
<1>8. ASSUME TraceStart PROVE OwnInv'
    BY <1>8 DEF TraceStart
<1>9. ASSUME ObserverStart PROVE OwnInv'
    BY <1>9 DEF ObserverStart
<1>10. ASSUME ObserverRegister PROVE OwnInv'
  <2>1. Range(stack') = Range(stack) \union {"observer"}
    BY <1>10, RangeAppend DEF ObserverRegister, Register, Undos, Resources
  <2> QED
    BY <1>10, <2>1 DEF ObserverRegister, Register
<1>11. ASSUME ObserverIsReady PROVE OwnInv'
    BY <1>11 DEF ObserverIsReady
<1>12. ASSUME WorkloadStart PROVE OwnInv'
    BY <1>12 DEF WorkloadStart
<1>13. ASSUME WorkloadRegister PROVE OwnInv'
  <2>1. Range(stack') = Range(stack) \union {"workload"}
    BY <1>13, RangeAppend DEF WorkloadRegister, Undos, Resources
  <2>2. UNCHANGED <<attempt, workflow, pc, cb, module, trace>> /\ phase' = "begin"
    BY <1>13 DEF WorkloadRegister
  <2> QED
    BY <2>1, <2>2
<1>14. ASSUME Brings PROVE OwnInv'
    BY <1>14, BringStep
<1> QED
    BY <1>1, <1>2, <1>3, <1>4, <1>5, <1>6, <1>7, <1>8, <1>9, <1>10, <1>11, <1>12, <1>13, <1>14
       DEF Acquire, Brings

\* Waiting and collecting claim nothing.
LEMMA OwnObserve ==
    ASSUME UndoInv, OwnInv, Observe
    PROVE  OwnInv'
<1> USE DEF Claimed, Pending, At, Phase, NextStep, Raise, trace_vars
<1>1. UNCHANGED <<attempt, stack, cb, module, trace>>
    BY DEF Observe, OpenGate, WaitWorkload, GuestRuns, VmStop, VmStopped, VmKill, CollectSignal,
           CollectObserver, CollectNoTrace, TraceStop, CollectTrace
<1>2. ~(pc' = "work" /\ phase' \in {"register", "init"})
    BY DEF Observe, OpenGate, WaitWorkload, GuestRuns, VmStop, VmStopped, VmKill, CollectSignal,
           CollectObserver, CollectNoTrace, TraceStop, CollectTrace
<1> QED
    BY <1>1, <1>2, ClaimsShrink

\* The undo of a module or an instance runs on a claimed one.
LEMMA OwnCleanup ==
    ASSUME UndoInv, OwnInv, Cleanup
    PROVE  OwnInv'
<1> USE Names DEF Claimed, Pending, Phase, Returns, Raises, Closing, trace_vars
<1>1. ASSUME PopCallback PROVE OwnInv'
  <2>1. Range(stack) = Range(stack') \union {cb'}
    BY <1>1, RangeFront DEF PopCallback, UndoInv, Shape
  <2>2. UNCHANGED <<attempt, pc, module, trace>> /\ Closing
    BY <1>1 DEF PopCallback
  <2> QED
    BY <2>1, <2>2, ClaimsShrink
<1>2. ASSUME NEW p \in {"observer", "workload"}, StopSignal(p) \/ StopWait(p) \/ StopKill(p)
      PROVE  OwnInv'
    BY <1>2, ClaimsShrink DEF StopSignal, StopWait, StopKill, None
<1>3. ASSUME TraceClose PROVE OwnInv'
    BY <1>3, ClaimsShrink DEF TraceClose
<1>4. ASSUME TraceRemove PROVE OwnInv'
    BY <1>4 DEF TraceRemove, OwnInv, None
<1>5. ASSUME NEW m \in Modules, ModuleRemove(m) PROVE OwnInv'
    BY <1>5 DEF ModuleRemove, OwnInv, UndoInv, Shape, None
<1>6. ASSUME CallbackFails PROVE OwnInv'
    BY <1>6, ClaimsShrink DEF CallbackFails, None
<1>7. ASSUME CloseDone PROVE OwnInv'
    BY <1>7, ClaimsShrink DEF CloseDone, Goto
<1> QED
    BY <1>1, <1>2, <1>3, <1>4, <1>5, <1>6, <1>7 DEF Cleanup

\* Publishing claims nothing.
LEMMA OwnPublish ==
    ASSUME UndoInv, OwnInv, Publish
    PROVE  OwnInv'
<1>1. UNCHANGED <<attempt, stack, cb, module, trace>> /\ pc' # "work"
    BY DEF Publish, Finish, Save, Validate, WriteTemporary, Replace, SyncDirectory, PublishFails,
           RecordFailure, ReturnOwnership, Goto, Raise, trace_vars
<1> QED
    BY <1>1, ClaimsShrink DEF Claimed, Pending

\* A signal only takes claims away.
LEMMA OwnSignal ==
    ASSUME UndoInv, OwnInv, Signal \/ SignalInBind
    PROVE  OwnInv'
<1> USE Names DEF Claimed, Pending, trace_vars
<1>1. ASSUME SignalInWorkflow \/ SignalInPublish \/ SignalAtEnd \/ SignalInBind PROVE OwnInv'
  <2>1. UNCHANGED <<attempt, stack, cb, module, trace>> /\ pc' # "work"
    BY <1>1 DEF SignalInWorkflow, SignalInPublish, SignalAtEnd, SignalInBind
  <2> QED
    BY <2>1, ClaimsShrink
<1>2. ASSUME SignalInTraceInit PROVE OwnInv'
    BY <1>2 DEF SignalInTraceInit, At, OwnInv
<1>3. ASSUME SignalInCallback PROVE OwnInv'
    BY <1>3, ClaimsShrink DEF SignalInCallback, Closing, None
<1>4. ASSUME SignalInClose PROVE OwnInv'
  <2>1. UNCHANGED <<attempt, cb, module, trace>> /\ pc' # "work"
    BY <1>4 DEF SignalInClose
  <2>2. Range(stack') \subseteq Range(stack)
    BY <1>4 DEF SignalInClose, Range
  <2> QED
    BY <2>1, <2>2, ClaimsShrink
<1> QED
    BY <1>1, <1>2, <1>3, <1>4 DEF Signal

\* The card's steps claim only the card.
LEMMA OwnCard ==
    ASSUME UndoInv, OwnInv, Audit \/ Own \/ Bind \/ Restore
    PROVE  OwnInv'
<1> USE Names DEF Claimed, Pending, At, Phase, NextStep, Raise, Returns, Raises, Closing, trace_vars
<1>1. ASSUME Own PROVE OwnInv'
  <2>1. Range(stack') = Range(stack) \union {"restore"}
    BY <1>1, RangeAppend DEF Own, Undos, UndoInv, Shape
  <2>2. UNCHANGED <<attempt, pc, cb, module, trace>> /\ phase' = "begin"
    BY <1>1 DEF Own
  <2> QED
    BY <2>1, <2>2, ClaimsShrink
<1>2. ASSUME Audit \/ Bind PROVE OwnInv'
  <2>1. UNCHANGED <<attempt, stack, cb, module, trace>>
    BY <1>2 DEF Audit, Bind, BindDown, BindDowned, BindDownUnnoticed, BindTouch, BindUnbind,
                BindVfio, BindDone
  <2>2. phase' \notin {"register", "init"}
    BY <1>2 DEF Audit, Bind, BindDown, BindDowned, BindDownUnnoticed, BindTouch, BindUnbind,
                BindVfio, BindDone
  <2> QED
    BY <2>1, <2>2, ClaimsShrink
<1>3. ASSUME Restore PROVE OwnInv'
  <2>1. UNCHANGED <<attempt, stack, module, trace>> /\ cb' \in {cb, None}
    BY <1>3 DEF Restore, RestoreStart, RestoreUnbind, RestoreOverride, RestoreBind,
                RestoreProfile, RestoreDone, RestoreFails
  <2>2. phase' \notin {"register", "init"}
    BY <1>3 DEF Restore, RestoreStart, RestoreUnbind, RestoreOverride, RestoreBind,
                RestoreProfile, RestoreDone, RestoreFails
  <2> QED
    BY <2>1, <2>2, ClaimsShrink DEF None
<1> QED
    BY <1>1, <1>2, <1>3

\* Only the attempt that made a module or an instance claims it, in every reachable state.
LEMMA OwnInvariant == VtdSpec => []OwnInv
<1>1. VtdInit => OwnInv
    BY Names DEF VtdInit, SessionInit, OwnInv, Claimed, Pending, Range, None
<1>2. UndoInv /\ OwnInv /\ [VtdNext]_vtd_vars => OwnInv'
  <2> SUFFICES ASSUME UndoInv, OwnInv, [VtdNext]_vtd_vars PROVE OwnInv'
    OBVIOUS
  <2>1. ASSUME VtdBegin PROVE OwnInv'
    <3>1. stack' = <<>> /\ cb' = None /\ phase' = "begin"
      BY <2>1 DEF VtdBegin, Begin
    <3>2. \A r \in Modules \union {"trace"} : ~Claimed(r)'
      BY <3>1, Names DEF Claimed, Pending, Range, None
    <3> QED
      BY <3>2 DEF OwnInv
  <2>2. ASSUME Environment PROVE OwnInv'
    BY <2>2, EnvironmentStep, ClaimsShrink DEF Claimed, Pending, control_vars
  <2>3. ASSUME WorkFails \/ WorkDone PROVE OwnInv'
    BY <2>3, ClaimsShrink DEF WorkFails, WorkDone, Claimed, Pending, Goto, Raise, trace_vars
  <2>4. ASSUME VtdController PROVE OwnInv'
    BY <2>3, <2>4, OwnAcquire, OwnObserve, OwnCleanup, OwnPublish, OwnCard
       DEF VtdController, Controller
  <2>5. ASSUME VtdSignal PROVE OwnInv'
    BY <2>5, OwnSignal DEF VtdSignal
  <2>6. ASSUME UNCHANGED vtd_vars PROVE OwnInv'
    BY <2>6, ClaimsShrink DEF vtd_vars, session_vars, control_vars, trace_vars, Claimed, Pending
  <2> QED
    BY <2>1, <2>2, <2>4, <2>5, <2>6 DEF VtdNext
<1> QED
    BY <1>1, <1>2, UndoInvariant, PTL DEF VtdSpec

(***************************************************************************)
(* No step of an attempt, its clean-up and its failures included, removes  *)
(* or replaces a module or a trace instance another attempt has left.      *)
(***************************************************************************)
THEOREM ForeignIsNeverTouched == VtdSpec => ForeignUntouched
<1> DEFINE Untouched ==
        /\ trace \notin {0, attempt} => trace' = trace
        /\ \A m \in DOMAIN module : module[m] \notin {0, attempt} => module'[m] = module[m]
<1>1. UndoInv /\ OwnInv /\ [VtdNext]_vtd_vars => [Untouched]_session_vars
  <2> SUFFICES ASSUME UndoInv, OwnInv, [VtdNext]_vtd_vars PROVE Untouched
    OBVIOUS
  <2> USE DEF trace_vars
  <2>1. CASE UNCHANGED <<module, trace>>
    BY <2>1
  <2>2. ASSUME NEW m \in Modules, ModuleInsert(m) \/ ModuleRemove(m) PROVE Untouched
    BY <2>2 DEF ModuleInsert, ModuleRemove, UndoInv, Shape, OwnInv, Claimed
  <2>3. ASSUME TraceMake \/ TraceInitFails \/ TraceRemove \/ SignalInTraceInit PROVE Untouched
    BY <2>3 DEF TraceMake, TraceInitFails, TraceRemove, SignalInTraceInit, OwnInv, Claimed,
                Pending, At
  <2>10. ASSUME Brings PROVE Untouched
    BY <2>10, BringStep DEF UndoInv, Shape
  <2>4. ASSUME Acquire PROVE Untouched
    BY <2>1, <2>2, <2>3, <2>4, <2>10
       DEF Acquire, Brings, ModuleRefuse, ModuleRegister, TraceRefuse, TraceInit, TraceRegister,
           TraceStart, ObserverStart, ObserverRegister, ObserverIsReady, WorkloadStart,
           WorkloadRegister
  <2>5. ASSUME Cleanup PROVE Untouched
    BY <2>1, <2>2, <2>3, <2>5
       DEF Cleanup, PopCallback, StopSignal, StopWait, StopKill, TraceClose, CallbackFails,
           CloseDone
  <2>6. ASSUME Observe \/ Publish \/ WorkFails \/ WorkDone PROVE Untouched
    BY <2>1, <2>6
       DEF Observe, OpenGate, WaitWorkload, GuestRuns, VmStop, VmStopped, VmKill, CollectSignal,
           CollectObserver, CollectNoTrace, TraceStop, CollectTrace, Publish, Finish, Save,
           Validate, WriteTemporary, Replace, SyncDirectory, PublishFails, RecordFailure,
           ReturnOwnership, WorkFails, WorkDone
  <2>7. ASSUME Audit \/ Own \/ Bind \/ Restore PROVE Untouched
    BY <2>1, <2>7 DEF Audit, Own, Bind, Restore
  <2>8. ASSUME Signal \/ SignalInBind PROVE Untouched
    BY <2>1, <2>3, <2>8 DEF Signal, SignalInWorkflow, SignalInCallback, SignalInClose,
                            SignalInPublish, SignalAtEnd, SignalInBind
  <2>9. ASSUME VtdBegin \/ Environment \/ UNCHANGED vtd_vars PROVE Untouched
    BY <2>1, <2>9, EnvironmentStep DEF VtdBegin, Begin, vtd_vars, session_vars
  <2> QED
    BY <2>4, <2>5, <2>6, <2>7, <2>8, <2>9 DEF VtdNext, VtdController, Controller, VtdSignal
<1> QED
    BY <1>1, UndoInvariant, OwnInvariant, PTL DEF VtdSpec, ForeignUntouched

-----------------------------------------------------------------------------
\* The workflow is past a step of this name.
Passed(step) == \E j \in DOMAIN workflow : j < at /\ workflow[j] = step

-----------------------------------------------------------------------------
(***************************************************************************)
(* The card.  Until audit() it is as the attempt found it; afterwards      *)
(* every difference has a flag of DeviceOwnership that says so, or the     *)
(* attempt has lost the profile, and a flag that is set has a restore() to *)
(* act on it.                                                              *)
(***************************************************************************)
CardTypes ==
    /\ driver \in {"host", "vfio", None} /\ override \in {"default", "vfio"}
    /\ original \in {"default", "vfio"}
    /\ profile \in BOOLEAN /\ connection \in BOOLEAN
    /\ driver_touched \in BOOLEAN /\ vfio_acquired \in BOOLEAN /\ profile_down \in BOOLEAN
    /\ at \in Nat \ {0} /\ workflow \in Workflows \union {<<>>}

Audited == Passed("audit")

RestoreArmed == "restore" \in Range(stack) \/ cb = "restore" \/ "restore" \in lost

Noted ==
    /\ before = <<"host", original, connection>>
    /\ driver # "host" \/ override # original => driver_touched
    /\ profile # connection => profile_down \/ At("bind", "downed") \/ "profile" \in lost
    /\ profile_down => connection
    /\ profile => connection
    /\ driver_touched \/ profile_down => RestoreArmed

Phases ==
    /\ \A ph \in {"unbind", "bindvfio", "bound"} : At("bind", ph) => driver_touched
    /\ At("bind", "downed") => connection
    /\ Restoring("bind") => override = original
    /\ Restoring("profile") => ~driver_touched
    /\ Restoring("done") => ~driver_touched /\ ~profile_down

CardInv ==
    /\ CardTypes
    /\ Audited => Noted /\ Phases
    /\ ~Audited => Card = before
    /\ Passed("own") /\ pc = "work" => "restore" \in Range(stack)
    /\ "restore" \in Range(stack) \/ cb = "restore" => Audited

-----------------------------------------------------------------------------
\* A virtual machine or a workload that runs was started by a step that is over or is this one.
WorkloadInv ==
    /\ WorkloadAlive /\ pc = "work" =>
          \E j \in DOMAIN workflow :
             /\ j <= at /\ workflow[j] \in {"workload", "vm"}
             /\ \A k \in j..(at - 1) : workflow[k] \notin {"wait", "vmstop"}
    /\ "workload" \in Range(stack) =>
          \E j \in DOMAIN workflow : j < at /\ workflow[j] \in {"workload", "vm"}
    /\ \A i, j \in DOMAIN stack : stack[i] = "workload" /\ stack[j] = "restore" => j < i
    /\ cb = "restore" => "workload" \notin Range(stack)

-----------------------------------------------------------------------------
(***************************************************************************)
(* The records.  While the workflow runs, what a collector has written and *)
(* what still waits in its buffer are the records the workload has caused, *)
(* in order, unless a loss has been counted or a write of the observer has *)
(* failed; the collectors are told to stop only by collect(), when the     *)
(* workload has ended.                                                     *)
(***************************************************************************)
Reached(step) == \E j \in DOMAIN workflow : j <= at /\ workflow[j] = step

\* s and then t are the numbers from 1 to n.
Numbered(s, t, n) ==
    /\ Len(s) + Len(t) = n
    /\ \A i \in 1..Len(s) : s[i] = i
    /\ \A i \in 1..Len(t) : t[i] = Len(s) + i

Caused == WorkloadAlive \/ emitted > 0

CausedInv == Caused => Reached("workload") \/ Reached("vm")

ObserverDown == {"none", "starting", "loading"}
ObserverUp == {"polling", "draining", "reporting", "closing", "ok"}

ObserverStream ==
    /\ ~Reached("observer") => observer = "none"
    /\ Passed("observer") \/ "LX_READY" \in control => observer \notin ObserverDown
    /\ observer \in ObserverDown => ~attached /\ ring = <<>> /\ out = <<>> /\ ~unwritten
    /\ exiting => Reached("collect")
    /\ observer = "polling" => attached
    /\ observer = "draining" => exiting
    /\ observer = "ok" => ~err
    /\ observer \in {"reporting", "closing", "ok"} /\ ~err => exiting /\ ring = <<>>
    /\ observer \in {"closing", "ok"} /\ ~err => lab_dropped = 0 /\ lab_failures = 0
    /\ observer \in ObserverUp /\ unwritten => err \/ workflow \in Careless
    /\ observer \in ObserverUp /\ ~err /\ ~unwritten /\ lab_dropped = 0 /\ lab_failures = 0 =>
          Numbered(out, ring, emitted)

ObserverInv ==
    /\ lab_dropped \in Nat /\ lab_failures \in Nat /\ err \in BOOLEAN /\ exiting \in BOOLEAN
    /\ unwritten \in BOOLEAN
    /\ pc = "work" => ObserverStream

TraceStream ==
    /\ \A ph \in {"init", "register", "enable"} : At("trace", ph) => trace = attempt
    /\ Passed("trace") => trace = attempt /\ (tracing \/ stopping)
    /\ stopping => Reached("collect")
    /\ drain = "ended" => stopping
    /\ ~overrun => Numbered(text, buffer, emitted)

TraceInv ==
    /\ overrun \in BOOLEAN /\ stopping \in BOOLEAN /\ tracing \in BOOLEAN
    /\ pc = "work" /\ Uses("trace") => TraceStream

\* The records of collector c in a file: none, or those from 1 to n in one block.
Without(s, c) == \A i \in 1..Len(s) : ~(s[i].kind = "record" /\ s[i].who = c)

Holds(s, c, n) ==
    \E b \in 0..Len(s) :
       /\ b + n <= Len(s)
       /\ \A i \in 1..n : s[b + i] = Event("record", c, i)
       /\ \A i \in 1..Len(s) : s[i].kind = "record" /\ s[i].who = c => i \in (b + 1)..(b + n)

ObserverTaken == Passed("collect") \/ At("collect", "trace") \/ At("collect", "join")

\* All the observer's records, unless it could not write one and did not notice.
ObserverPart(s) == (unwritten /\ workflow \in Careless) \/ Holds(s, "observer", emitted)

\* All the records of the trace that its reader has read.
TracePart(s) ==
    drain = "ended" /\ \E n \in Nat : n + Len(buffer) = emitted /\ Holds(s, "tracefs", n)

Whole(s) ==
    /\ Uses("observer") => ObserverPart(s)
    /\ Uses("trace") => TracePart(s)

\* What has been collected when, up to the publication and in what is published.
CompleteInv ==
    /\ pc = "work" /\ Uses("observer") =>
          IF ObserverTaken THEN ObserverPart(capture)
                           ELSE Without(capture, "observer")
    /\ pc = "work" /\ Uses("trace") =>
          IF Passed("collect") THEN TracePart(capture)
                               ELSE Without(capture, "tracefs")
    /\ pc = "work" => \A ph \in {"join", "status"} :
          At("collect", ph) => Uses(IF ph = "join" THEN "trace" ELSE "observer")
    /\ pc = "close" /\ (Uses("observer") \/ Uses("trace")) => ~WorkloadAlive
    /\ pc \in {"close", "finish", "save"} => Whole(capture)
    /\ pc \in {"validate", "temporary", "replace"} => Whole(staged)
    /\ Fresh => Whole(target)

-----------------------------------------------------------------------------
\* On the way to the publication nothing has been lost.
Clean == (pc = "work" => ~raised) /\ (pc \in {"work", "close"} /\ ~raised => lost = {})

\* The attempt has undone everything and will start nothing more.
Settled == pc # "work" /\ stack = <<>> /\ cb = None /\ NothingPresent /\ Card = before

Stamp ==
    /\ pc # "idle" => capture # <<>> /\ capture[1].n = attempt
    /\ staged # NoFile => staged[1].n = attempt
    /\ target # NoFile => target[1].n \in 1..attempt

SettledInv ==
    /\ pc = "finish" \/ Publishing => Settled
    /\ Fresh => Settled

RestoredInv == Clean /\ Stamp /\ SettledInv

-----------------------------------------------------------------------------
\* The names of the phases the session itself uses; the card's steps have others.
SessionPhases == {"begin", "type1", "mount", "make", "register", "init", "enable", "ready", "status",
                  "trace", "join", "wait"}
CardSteps == {"audit", "own", "bind", "restore"}

(***************************************************************************)
(* What a step of the controller that does not deal with the card does to  *)
(* what the card depends on.                                               *)
(***************************************************************************)
Bystander ==
    /\ workflow' = workflow
    /\ at' # at => at' = at + 1 /\ at \in DOMAIN workflow /\ workflow[at] \notin CardSteps
    /\ phase' \in SessionPhases
    /\ ~At("bind", "downed")
    /\ lost \subseteq lost'
    /\ "restore" \in Range(stack) \/ cb = "restore" => RestoreArmed'
    /\ "restore" \in Range(stack') \/ cb' = "restore" => "restore" \in Range(stack) \/ cb = "restore"
    /\ pc' = "work" => pc = "work" /\ ("restore" \in Range(stack) => "restore" \in Range(stack'))

\* A workflow is a sequence of steps.
LEMMA WorkflowTyped ==
    ASSUME CardTypes
    PROVE  workflow \in Seq(Steps) /\ DOMAIN workflow = 1..Len(workflow) /\ Len(workflow) \in Nat
<1>1. workflow \in Workflows => workflow \in Seq(Steps)
    BY SessionAssumption
<1>2. <<>> \in Seq(Steps)
    OBVIOUS
<1>3. workflow \in Seq(Steps)
    BY <1>1, <1>2, Zenon DEF CardTypes
<1> QED
    BY <1>3

\* The order of virt-vtd's run(), seen from the step the workflow is at.
LEMMA CardOrder ==
    ASSUME CardTypes, at \in DOMAIN workflow
    PROVE  /\ workflow[at] \in {"own", "bind", "restore"} => Audited
           /\ workflow[at] = "bind" => Passed("own")
           /\ workflow[at] = "audit" => ~Audited /\ ~Passed("own")
<1>1. workflow \in Workflows
    BY DEF CardTypes
<1>2. \A j : j \in 1..(at - 1) <=> j \in DOMAIN workflow /\ j < at
    BY WorkflowTyped DEF CardTypes
<1> QED
    BY <1>1, <1>2, CardAssumption DEF Audited, Passed

\* What the workflow has passed grows by the step that ends.
LEMMA PassedNext ==
    ASSUME CardTypes, workflow' = workflow, at \in DOMAIN workflow, at' = at + 1, NEW s
    PROVE  Passed(s)' <=> Passed(s) \/ workflow[at] = s
<1>1. DOMAIN workflow \subseteq Nat
    BY WorkflowTyped
<1> QED
    BY <1>1 DEF Passed, CardTypes

\* A step that is not the card's keeps what is known of the card.
LEMMA CardFrame ==
    ASSUME CardInv, Bystander, UNCHANGED device_vars
    PROVE  CardInv'
<1> USE DEF device_vars
<1>1. CardTypes'
    BY DEF CardInv, CardTypes, Bystander
<1>2. \A s \in CardSteps : Passed(s)' <=> Passed(s)
    BY PassedNext DEF CardInv, Bystander, Passed
<1>3. Audited' <=> Audited
    BY <1>2 DEF Audited, CardSteps
<1>4. Audited => Phases'
    BY DEF Bystander, Phases, At, Restoring, SessionPhases
<1>5. Audited => Noted'
  <2> SUFFICES ASSUME Noted PROVE Noted'
    BY DEF CardInv
  <2>1. RestoreArmed => RestoreArmed'
    BY DEF Bystander, RestoreArmed
  <2>2. UNCHANGED <<before, original, connection, driver, override, profile, driver_touched, profile_down>>
    OBVIOUS
  <2> QED
    BY <2>1, <2>2 DEF Noted, Bystander
<1>6. ~Audited => Card' = before'
    BY DEF CardInv, Card
<1>7. Passed("own")' /\ pc' = "work" => "restore" \in Range(stack')
    BY <1>2 DEF CardInv, Bystander, CardSteps
<1> QED
    BY <1>1, <1>3, <1>4, <1>5, <1>6, <1>7 DEF CardInv, Bystander

\* Acquiring a resource is none of the card's business.
LEMMA AcquireAside ==
    ASSUME UndoInv, Acquire
    PROVE  Bystander
<1> USE Names DEF Bystander, RestoreArmed, At, Phase, NextStep, Raise, SessionPhases, CardSteps,
        UndoInv, Shape
<1>1. ASSUME NEW m \in Modules, ModuleRefuse(m) \/ ModuleInsert(m) PROVE Bystander
    BY <1>1 DEF ModuleRefuse, ModuleInsert
<1>2. ASSUME NEW m \in Modules, ModuleRegister(m) PROVE Bystander
  <2>1. Range(stack') = Range(stack) \union {m}
    BY <1>2, RangeAppend DEF ModuleRegister, Undos, Resources
  <2>2. m \notin CardSteps
    BY SessionAssumption DEF FixedSteps, CardSteps
  <2> QED
    BY <1>2, <2>1, <2>2 DEF ModuleRegister
<1>7. ASSUME Brings PROVE Bystander
    BY <1>7, BringStep
<1>3. ASSUME TraceRefuse \/ TraceMake \/ TraceInit \/ TraceInitFails \/ TraceStart PROVE Bystander
    BY <1>3 DEF TraceRefuse, TraceMake, TraceInit, TraceInitFails, TraceStart
<1>4. ASSUME TraceRegister \/ ObserverRegister PROVE Bystander
  <2>1. PICK r \in {"trace", "observer"} : stack' = Append(stack, r)
    BY <1>4 DEF TraceRegister, ObserverRegister, Register
  <2>2. Range(stack') = Range(stack) \union {r}
    BY <2>1, RangeAppend DEF Undos, Resources
  <2> QED
    BY <1>4, <2>2 DEF TraceRegister, ObserverRegister, Register
<1>5. ASSUME ObserverStart \/ ObserverIsReady \/ WorkloadStart PROVE Bystander
    BY <1>5 DEF ObserverStart, ObserverIsReady, WorkloadStart
<1>6. ASSUME WorkloadRegister PROVE Bystander
  <2>1. Range(stack') = Range(stack) \union {"workload"}
    BY <1>6, RangeAppend DEF WorkloadRegister, Undos, Resources
  <2>2. /\ UNCHANGED <<workflow, pc, cb, lost>> /\ at' = at + 1 /\ phase' = "begin"
        /\ at \in DOMAIN workflow /\ workflow[at] \in {"workload", "vm"}
    BY <1>6 DEF WorkloadRegister
  <2> QED
    BY <2>1, <2>2
<1> QED
    BY <1>1, <1>2, <1>3, <1>4, <1>5, <1>6, <1>7 DEF Acquire, Brings

\* So is waiting, collecting and stopping the virtual machine.
LEMMA ObserveAside ==
    ASSUME Observe
    PROVE  Bystander
<1> USE DEF Bystander, RestoreArmed, At, Phase, NextStep, Raise, SessionPhases, CardSteps
<1>1. ASSUME OpenGate \/ WaitWorkload \/ GuestRuns PROVE Bystander
    BY <1>1 DEF OpenGate, WaitWorkload, GuestRuns
<1>2. ASSUME VmStop \/ VmStopped \/ VmKill PROVE Bystander
    BY <1>2 DEF VmStop, VmStopped, VmKill
<1>3. ASSUME CollectSignal \/ CollectObserver \/ CollectNoTrace \/ TraceStop \/ CollectTrace
      PROVE  Bystander
    BY <1>3 DEF CollectSignal, CollectObserver, CollectNoTrace, TraceStop, CollectTrace
<1> QED
    BY <1>1, <1>2, <1>3 DEF Observe

\* The undos of the other resources leave the card's where it is.
LEMMA CleanupAside ==
    ASSUME UndoInv, Cleanup
    PROVE  Bystander
<1> USE Names DEF Bystander, RestoreArmed, At, Phase, Returns, Raises, Closing, SessionPhases
<1>1. ASSUME PopCallback PROVE Bystander
  <2>1. Range(stack) = Range(stack') \union {cb'}
    BY <1>1, RangeFront DEF PopCallback, UndoInv, Shape
  <2> QED
    BY <1>1, <2>1 DEF PopCallback, None
<1>2. ASSUME NEW p \in {"observer", "workload"}, StopSignal(p) \/ StopWait(p) \/ StopKill(p)
      PROVE  Bystander
    BY <1>2 DEF StopSignal, StopWait, StopKill, None
<1>3. ASSUME TraceClose \/ TraceRemove PROVE Bystander
    BY <1>3 DEF TraceClose, TraceRemove, None
<1>4. ASSUME NEW m \in Modules, ModuleRemove(m) PROVE Bystander
    BY <1>4 DEF ModuleRemove, None
<1>5. ASSUME CallbackFails PROVE Bystander
    BY <1>5 DEF CallbackFails, None
<1>6. ASSUME CloseDone PROVE Bystander
    BY <1>6 DEF CloseDone, Goto
<1> QED
    BY <1>1, <1>2, <1>3, <1>4, <1>5, <1>6 DEF Cleanup

\* Publishing, and leaving the workflow, leave the stack alone.
LEMMA PublishAside ==
    ASSUME CardTypes, Publish \/ WorkFails \/ WorkDone
    PROVE  Bystander
<1> USE DEF Bystander, RestoreArmed, At, Goto, Raise, SessionPhases
<1>1. ASSUME Finish \/ Save \/ Validate \/ WriteTemporary \/ Replace \/ SyncDirectory
      PROVE  Bystander
    BY <1>1 DEF Finish, Save, Validate, WriteTemporary, Replace, SyncDirectory
<1>2. ASSUME PublishFails \/ RecordFailure \/ ReturnOwnership PROVE Bystander
    BY <1>2 DEF PublishFails, RecordFailure, ReturnOwnership, Publishing
<1>3. ASSUME WorkFails PROVE Bystander
    BY <1>3 DEF WorkFails
<1>4. ASSUME WorkDone PROVE Bystander
  <2>1. at \notin DOMAIN workflow
    BY <1>4, WorkflowTyped DEF WorkDone
  <2> QED
    BY <1>4, <2>1 DEF WorkDone
<1> QED
    BY <1>1, <1>2, <1>3, <1>4 DEF Publish

\* A signal that ends a restore() early loses it; one that drops the stack loses all of it.
LEMMA SignalAside ==
    ASSUME Signal
    PROVE  Bystander
<1> USE DEF Bystander, RestoreArmed, At, SessionPhases
<1>1. ASSUME SignalInWorkflow \/ SignalInTraceInit PROVE Bystander
    BY <1>1 DEF SignalInWorkflow, SignalInTraceInit
<1>2. ASSUME SignalInCallback PROVE Bystander
    BY <1>2 DEF SignalInCallback, Closing, None
<1>3. ASSUME SignalInClose PROVE Bystander
  <2>1. Range(<<>>) = {}
    BY DEF Range
  <2> QED
    BY <1>3, <2>1 DEF SignalInClose, Closing
<1>4. ASSUME SignalInPublish \/ SignalAtEnd PROVE Bystander
    BY <1>4 DEF SignalInPublish, SignalAtEnd, Publishing
<1> QED
    BY <1>1, <1>2, <1>3, <1>4 DEF Signal

-----------------------------------------------------------------------------
\* audit() records the card as the attempt found it; from now on every difference is noted.
LEMMA CardAudit ==
    ASSUME CardInv, UndoInv, Audit
    PROVE  CardInv'
<1>1. /\ pc = "work" /\ at \in DOMAIN workflow /\ workflow[at] = "audit"
      /\ UNCHANGED <<workflow, pc, stack, cb, lost, driver, override, profile, before>>
      /\ at' = at + 1 /\ phase' = "begin" /\ driver = "host"
      /\ connection' = profile /\ original' = override
      /\ driver_touched' = FALSE /\ vfio_acquired' = FALSE /\ profile_down' = FALSE
    BY DEF Audit, At, NextStep
<1>2. CardTypes
    BY DEF CardInv
<1>3. ~Audited /\ ~Passed("own") /\ Card = before
    BY <1>1, <1>2, CardOrder DEF CardInv
<1>4. Audited' /\ ~Passed("own")'
    BY <1>1, <1>2, <1>3, PassedNext DEF Audited
<1>5. CardTypes'
  <2>1. at' \in Nat \ {0}
    BY <1>1, <1>2 DEF CardTypes
  <2> QED
    BY <1>1, <1>2, <2>1, Zenon DEF CardTypes
<1>6. Noted'
    BY <1>1, <1>3 DEF Noted, Card
<1>7. Phases'
    BY <1>1 DEF Phases, At, Restoring
<1>8. "restore" \notin Range(stack) /\ cb # "restore"
    BY <1>3 DEF CardInv
<1> QED
    BY <1>1, <1>4, <1>5, <1>6, <1>7, <1>8 DEF CardInv

\* restore() is registered before the first change.
LEMMA CardOwn ==
    ASSUME CardInv, UndoInv, Own
    PROVE  CardInv'
<1>1. /\ pc = "work" /\ at \in DOMAIN workflow /\ workflow[at] = "own"
      /\ UNCHANGED <<workflow, pc, cb, lost>> /\ UNCHANGED device_vars
      /\ stack' = Append(stack, "restore") /\ at' = at + 1 /\ phase' = "begin"
    BY DEF Own, At
<1>2. CardTypes
    BY DEF CardInv
<1>3. Audited /\ Noted
    BY <1>1, <1>2, CardOrder DEF CardInv
<1>4. Audited'
    BY <1>1, <1>2, <1>3, PassedNext DEF Audited
<1>5. Range(stack') = Range(stack) \union {"restore"}
    BY <1>1, RangeAppend DEF Undos, UndoInv, Shape
<1>6. CardTypes'
    BY <1>1, <1>2 DEF CardTypes, device_vars
<1>7. Noted'
  <2>1. ~At("bind", "downed")
    BY <1>1 DEF At
  <2>2. UNCHANGED <<before, original, connection, driver, override, profile, driver_touched,
                    profile_down>>
    BY <1>1 DEF device_vars
  <2> QED
    BY <1>1, <1>3, <1>5, <2>1, <2>2 DEF Noted, RestoreArmed
<1>8. Phases'
    BY <1>1 DEF Phases, At, Restoring
<1> QED
    BY <1>4, <1>5, <1>6, <1>7, <1>8 DEF CardInv

\* What every step of bind_vfio() leaves alone.
LEMMA BindContext ==
    ASSUME CardInv, Bind
    PROVE  /\ pc = "work" /\ at \in DOMAIN workflow /\ workflow[at] = "bind"
           /\ CardTypes /\ Audited /\ Noted /\ Phases /\ "restore" \in Range(stack)
           /\ UNCHANGED <<workflow, stack, cb, connection, original, before>>
           /\ at' \in {at, at + 1} /\ Audited' /\ lost \subseteq lost' /\ RestoreArmed'
           /\ at' \in Nat \ {0}
<1>1. /\ pc = "work" /\ at \in DOMAIN workflow /\ workflow[at] = "bind"
      /\ UNCHANGED <<workflow, stack, cb, connection, original, before>>
      /\ at' \in {at, at + 1} /\ lost \subseteq lost'
    BY DEF Bind, BindDown, BindDowned, BindDownUnnoticed, BindTouch, BindUnbind, BindVfio, BindDone,
           At, Phase, NextStep, Raise
<1>2. CardTypes
    BY DEF CardInv
<1>3. Audited /\ Noted /\ Phases /\ "restore" \in Range(stack)
    BY <1>1, <1>2, CardOrder DEF CardInv
<1>4. Audited'
  <2>1. CASE at' = at
    BY <1>1, <1>3, <2>1 DEF Audited, Passed
  <2>2. CASE at' = at + 1
    BY <1>1, <1>2, <1>3, <2>2, PassedNext DEF Audited
  <2> QED
    BY <1>1, <2>1, <2>2
<1>5. at' \in Nat \ {0}
    BY <1>1, <1>2 DEF CardTypes
<1> QED
    BY <1>1, <1>2, <1>3, <1>4, <1>5 DEF RestoreArmed

\* Whatever bind_vfio() has changed, its flags say so or the profile is lost.
LEMMA CardBind ==
    ASSUME CardInv, Bind
    PROVE  CardInv'
<1> USE BindContext
<1> SUFFICES CardTypes' /\ Noted' /\ Phases'
    BY DEF CardInv
<1>1. ASSUME BindDown PROVE CardTypes' /\ Noted' /\ Phases'
  <2>1. /\ profile' = (profile /\ ~connection) /\ phase' = IF connection THEN "downed" ELSE "touch"
        /\ UNCHANGED <<driver, override, driver_touched, vfio_acquired, profile_down, pc, at, lost>>
    BY <1>1 DEF BindDown, Phase
  <2>2. CardTypes'
    BY <2>1 DEF CardTypes
  <2>3. Noted'
    BY <2>1 DEF Noted, At, CardTypes
  <2>4. Phases'
    BY <2>1 DEF Phases, At, Restoring, CardTypes
  <2> QED
    BY <2>2, <2>3, <2>4
<1>2. ASSUME BindDowned PROVE CardTypes' /\ Noted' /\ Phases'
  <2>1. /\ profile_down' = TRUE /\ phase = "downed" /\ phase' = "touch"
        /\ UNCHANGED <<driver, override, profile, driver_touched, vfio_acquired, pc, at, lost>>
    BY <1>2 DEF BindDowned, Phase, At
  <2>2. CardTypes'
    BY <2>1, Zenon DEF CardTypes
  <2>3. connection
    BY <2>1 DEF Phases, At
  <2>4. Noted'
    BY <2>1, <2>3 DEF Noted
  <2>5. Phases'
    BY <2>1 DEF Phases, At, Restoring
  <2> QED
    BY <2>2, <2>4, <2>5
<1>3. ASSUME BindDownUnnoticed PROVE CardTypes' /\ Noted' /\ Phases'
  <2>1. /\ profile' = FALSE /\ phase' = "begin" /\ pc' = "xclose" /\ "profile" \in lost'
        /\ UNCHANGED <<driver, override, driver_touched, vfio_acquired, profile_down, at>>
    BY <1>3 DEF BindDownUnnoticed, Raise
  <2>2. CardTypes'
    BY <2>1, Zenon DEF CardTypes
  <2>3. Noted'
    BY <2>1 DEF Noted, At, CardTypes
  <2>4. Phases'
    BY <2>1 DEF Phases, At, Restoring, CardTypes
  <2> QED
    BY <2>2, <2>3, <2>4
<1>4. ASSUME BindTouch PROVE CardTypes' /\ Noted' /\ Phases'
  <2>1. /\ driver_touched' = TRUE /\ override' = "vfio" /\ phase = "touch" /\ phase' = "unbind"
        /\ UNCHANGED <<driver, profile, vfio_acquired, profile_down, pc, at, lost>>
    BY <1>4 DEF BindTouch, Phase, At
  <2> QED
    BY <2>1 DEF CardTypes, Noted, Phases, At, Restoring
<1>5. ASSUME BindUnbind \/ BindVfio PROVE CardTypes' /\ Noted' /\ Phases'
  <2>1. /\ driver' \in {None, "vfio"} /\ phase \in {"unbind", "bindvfio"}
        /\ phase' \in {"bindvfio", "bound"} /\ driver_touched
        /\ UNCHANGED <<override, profile, driver_touched, vfio_acquired, profile_down, pc, at, lost>>
    BY <1>5 DEF BindUnbind, BindVfio, Phase, At, Phases
  <2> QED
    BY <2>1 DEF CardTypes, Noted, Phases, At, Restoring
<1>6. ASSUME BindDone PROVE CardTypes' /\ Noted' /\ Phases'
  <2>1. /\ vfio_acquired' = TRUE /\ phase = "bound" /\ phase' = "begin" /\ at' = at + 1
        /\ UNCHANGED <<driver, override, profile, driver_touched, profile_down, pc, lost>>
    BY <1>6 DEF BindDone, NextStep, At
  <2> QED
    BY <2>1 DEF CardTypes, Noted, Phases, At, Restoring
<1> QED
    BY <1>1, <1>2, <1>3, <1>4, <1>5, <1>6 DEF Bind

\* What every step of restore() leaves alone.
LEMMA RestoreContext ==
    ASSUME CardInv, Restore
    PROVE  /\ (pc = "work" /\ at \in DOMAIN workflow /\ workflow[at] = "restore") \/ Closing
           /\ CardTypes /\ Audited /\ Noted /\ Phases
           /\ UNCHANGED <<workflow, stack, pc, connection, original, before>>
           /\ at' \in {at, at + 1} /\ Audited' /\ lost \subseteq lost' /\ at' \in Nat \ {0}
           /\ Passed("own")' => Passed("own")
           /\ cb' = "restore" => cb = "restore"
<1>1. /\ \/ pc = "work" /\ at \in DOMAIN workflow /\ workflow[at] = "restore"
         \/ Closing /\ cb = "restore"
      /\ UNCHANGED <<workflow, stack, pc, connection, original, before>>
      /\ at' \in {at, at + 1} /\ lost \subseteq lost' /\ cb' \in {cb, None}
      /\ at' = at + 1 => at \in DOMAIN workflow /\ workflow[at] = "restore"
    <2> USE DEF Restoring, At, Phase, Closing, device_vars
    <2>1. CASE RestoreStart \/ RestoreUnbind \/ RestoreOverride \/ RestoreBind \/ RestoreProfile
      BY <2>1 DEF RestoreStart, RestoreUnbind, RestoreOverride, RestoreBind, RestoreProfile,
                  CardInv, CardTypes
    <2>2. CASE RestoreDone
      BY <2>2 DEF RestoreDone, Returns, NextStep, CardInv, CardTypes
    <2>3. CASE RestoreFails
      BY <2>3 DEF RestoreFails, Raises, CardInv, CardTypes
    <2> QED
      BY <2>1, <2>2, <2>3 DEF Restore
<1>2. CardTypes
    BY DEF CardInv
<1>3. Audited /\ Noted /\ Phases
    BY <1>1, <1>2, CardOrder DEF CardInv
<1>4. Audited' /\ (Passed("own")' => Passed("own"))
  <2>1. CASE at' = at
    BY <1>1, <1>3, <2>1 DEF Audited, Passed
  <2>2. CASE at' = at + 1
    BY <1>1, <1>2, <1>3, <2>2, PassedNext DEF Audited
  <2> QED
    BY <1>1, <2>1, <2>2
<1>5. at' \in Nat \ {0}
    BY <1>1, <1>2 DEF CardTypes
<1>6. cb' = "restore" => cb = "restore"
    BY <1>1 DEF None
<1> QED
    BY <1>1, <1>2, <1>3, <1>4, <1>5, <1>6, Zenon

\* A flag restore() clears it has acted on; it ends with both flags cleared, or it is lost.
LEMMA CardRestore ==
    ASSUME CardInv, Restore
    PROVE  CardInv'
<1> USE RestoreContext
<1> SUFFICES CardTypes' /\ Noted' /\ Phases'
    BY DEF CardInv
<1> USE DEF Closing
<1>1. ASSUME RestoreStart PROVE CardTypes' /\ Noted' /\ Phases'
  <2>1. /\ phase' = IF driver_touched THEN "unbind" ELSE "profile"
        /\ UNCHANGED <<driver, override, profile, driver_touched, vfio_acquired, profile_down,
                       cb, at, lost>> /\ Restoring("begin")
    BY <1>1 DEF RestoreStart, Phase, device_vars
  <2>2. CardTypes'
    BY <2>1, Zenon DEF CardTypes
  <2>3. Noted'
    BY <2>1 DEF Noted, At, Restoring, RestoreArmed
  <2>4. Phases'
    BY <2>1 DEF Phases, At, Restoring
  <2> QED
    BY <2>2, <2>3, <2>4
<1>2. ASSUME RestoreUnbind PROVE CardTypes' /\ Noted' /\ Phases'
  <2>1. /\ driver' = (IF driver = "vfio" THEN None ELSE driver) /\ phase' = "override"
        /\ UNCHANGED <<override, profile, driver_touched, vfio_acquired, profile_down,
                       cb, at, lost>> /\ Restoring("unbind")
    BY <1>2 DEF RestoreUnbind, Phase
  <2>2. CardTypes'
    BY <2>1, Zenon DEF CardTypes
  <2>3. Noted'
    BY <2>1 DEF Noted, At, Restoring, RestoreArmed
  <2>4. Phases'
    BY <2>1 DEF Phases, At, Restoring
  <2> QED
    BY <2>2, <2>3, <2>4
<1>3. ASSUME RestoreOverride PROVE CardTypes' /\ Noted' /\ Phases'
  <2>1. /\ override' = original /\ phase' = "bind"
        /\ UNCHANGED <<driver, profile, driver_touched, vfio_acquired, profile_down,
                       cb, at, lost>> /\ Restoring("override")
    BY <1>3 DEF RestoreOverride, Phase
  <2>2. CardTypes'
    BY <2>1, Zenon DEF CardTypes
  <2>3. Noted'
    BY <2>1 DEF Noted, At, Restoring, RestoreArmed
  <2>4. Phases'
    BY <2>1 DEF Phases, At, Restoring
  <2> QED
    BY <2>2, <2>3, <2>4
<1>4. ASSUME RestoreBind PROVE CardTypes' /\ Noted' /\ Phases'
  <2>1. /\ driver' = "host" /\ driver_touched' = FALSE /\ vfio_acquired' = FALSE /\ phase' = "profile"
        /\ UNCHANGED <<override, profile, profile_down, cb, at, lost>> /\ Restoring("bind")
    BY <1>4 DEF RestoreBind, Phase
  <2>2. CardTypes'
    BY <2>1, Zenon DEF CardTypes
  <2>3. override = original
    BY <2>1 DEF Phases
  <2>4. Noted'
    BY <2>1, <2>3 DEF Noted, At, Restoring, RestoreArmed
  <2>5. Phases'
    BY <2>1 DEF Phases, At, Restoring
  <2> QED
    BY <2>2, <2>4, <2>5
<1>5. ASSUME RestoreProfile PROVE CardTypes' /\ Noted' /\ Phases'
  <2>1. /\ profile' = (profile \/ profile_down) /\ profile_down' = FALSE /\ phase' = "done"
        /\ UNCHANGED <<driver, override, driver_touched, vfio_acquired, cb, at, lost>>
        /\ Restoring("profile")
    BY <1>5 DEF RestoreProfile, Phase
  <2>2. CardTypes'
    BY <2>1, Zenon DEF CardTypes
  <2>3. ~driver_touched
    BY <2>1 DEF Phases
  <2>4. ~At("bind", "downed")
    BY <2>1 DEF At, Restoring
  <2>5. Noted'
    BY <2>1, <2>3, <2>4 DEF Noted, CardTypes
  <2>6. Phases'
    BY <2>1, <2>3 DEF Phases, At, Restoring
  <2> QED
    BY <2>2, <2>5, <2>6
<1>6. ASSUME RestoreDone PROVE CardTypes' /\ Noted' /\ Phases'
  <2>1. /\ UNCHANGED <<driver, override, profile, driver_touched, vfio_acquired, profile_down, lost>>
        /\ phase' = "begin" /\ ~driver_touched /\ ~profile_down /\ ~At("bind", "downed")
    BY <1>6 DEF RestoreDone, Returns, NextStep, device_vars, Phases, Restoring, At
  <2>2. CardTypes'
    BY <2>1, Zenon DEF CardTypes
  <2>3. Noted'
    BY <2>1 DEF Noted
  <2>4. Phases'
    BY <2>1 DEF Phases, At, Restoring
  <2> QED
    BY <2>2, <2>3, <2>4
<1>7. ASSUME RestoreFails PROVE CardTypes' /\ Noted' /\ Phases'
  <2>1. /\ UNCHANGED <<driver, override, profile, driver_touched, vfio_acquired, profile_down>>
        /\ phase' = "begin" /\ "restore" \in lost' /\ ~At("bind", "downed")
    BY <1>7 DEF RestoreFails, Raises, device_vars, At
  <2>2. CardTypes'
    BY <2>1, Zenon DEF CardTypes
  <2>3. Noted'
    BY <2>1 DEF Noted, RestoreArmed
  <2>4. Phases'
    BY <2>1 DEF Phases, At, Restoring
  <2> QED
    BY <2>2, <2>3, <2>4
<1> QED
    BY <1>1, <1>2, <1>3, <1>4, <1>5, <1>6, <1>7 DEF Restore

\* Every difference of the card is noted and has its restore(), in every reachable state.
LEMMA CardInvariant == VtdSpec => []CardInv
<1>1. VtdInit => CardInv
  <2> SUFFICES ASSUME VtdInit PROVE CardInv
    OBVIOUS
  <2>1. workflow = <<>> /\ stack = <<>> /\ cb = None /\ pc = "idle" /\ at = 1 /\ Card = before
    BY DEF VtdInit, SessionInit
  <2>2. CardTypes
    <3>1. at \in Nat \ {0} /\ profile \in BOOLEAN
      BY <2>1 DEF VtdInit
    <3> QED
      BY <2>1, <3>1, Zenon DEF VtdInit, CardTypes
  <2>3. ~Audited /\ Range(stack) = {}
    BY <2>1 DEF Audited, Passed, Range
  <2> QED
    BY <2>1, <2>2, <2>3 DEF CardInv, None
<1>2. UndoInv /\ CardInv /\ [VtdNext]_vtd_vars => CardInv'
  <2> SUFFICES ASSUME UndoInv, CardInv, [VtdNext]_vtd_vars PROVE CardInv'
    OBVIOUS
  <2>1. ASSUME VtdBegin PROVE CardInv'
    <3>1. /\ at' = 1 /\ stack' = <<>> /\ cb' = None /\ before' = Card /\ workflow' \in Workflows
          /\ UNCHANGED <<driver, override, profile, connection, original,
                         driver_touched, vfio_acquired, profile_down>>
      BY <2>1 DEF VtdBegin, Begin
    <3>2. CardTypes'
      BY <3>1 DEF CardTypes, CardInv
    <3>3. ~Passed("audit")' /\ ~Passed("own")'
      <4>1. DOMAIN workflow' = 1..Len(workflow')
        BY <3>1, SessionAssumption
      <4> QED
        BY <3>1, <4>1 DEF Passed
    <3>4. Range(stack') = {} /\ cb' # "restore" /\ Card' = before'
      BY <3>1 DEF Range, None, Card
    <3> QED
      BY <3>2, <3>3, <3>4 DEF CardInv, Audited
  <2>2. ASSUME Environment, UNCHANGED device_vars PROVE CardInv'
    BY <2>2, EnvironmentStep DEF control_vars, device_vars, CardInv, CardTypes, Audited, Passed,
       Noted, Phases, RestoreArmed, At, Restoring, Closing, Card
  <2>3. ASSUME Controller, UNCHANGED device_vars PROVE CardInv'
    <3>1. CardTypes
      BY DEF CardInv
    <3>2. Bystander
      BY <2>3, <3>1, AcquireAside, ObserveAside, CleanupAside, PublishAside DEF Controller
    <3> QED
      BY <2>3, <3>2, CardFrame
  <2>4. ASSUME Audit \/ Own \/ Bind \/ Restore PROVE CardInv'
    BY <2>4, CardAudit, CardOwn, CardBind, CardRestore
  <2>5. ASSUME Signal, UNCHANGED device_vars PROVE CardInv'
    BY <2>5, SignalAside, CardFrame
  <2>6. ASSUME SignalInBind PROVE CardInv'
    <3>1. /\ UNCHANGED <<workflow, at, stack, cb>> /\ UNCHANGED device_vars /\ pc' = "xclose"
          /\ phase' = "begin" /\ lost' = lost \union {"profile"}
      BY <2>6 DEF SignalInBind
    <3>2. CardTypes' /\ (Audited' <=> Audited)
      BY <3>1 DEF CardInv, CardTypes, device_vars, Audited, Passed
    <3>3. Noted => Noted'
      BY <3>1 DEF Noted, RestoreArmed, device_vars
    <3>4. Phases'
      BY <3>1 DEF Phases, At, Restoring
    <3> QED
      BY <3>1, <3>2, <3>3, <3>4 DEF CardInv, device_vars, Card
  <2>7. ASSUME UNCHANGED vtd_vars PROVE CardInv'
    BY <2>7 DEF vtd_vars, session_vars, control_vars, device_vars, CardInv, CardTypes, Audited,
       Passed, Noted, Phases, RestoreArmed, At, Restoring, Closing, Card
  <2> QED
    BY <2>1, <2>2, <2>3, <2>4, <2>5, <2>6, <2>7 DEF VtdNext, VtdController, VtdSignal
<1> QED
    BY <1>1, <1>2, UndoInvariant, PTL DEF VtdSpec

(***************************************************************************)
(* A card that is not as the attempt found it when execute() has ended is  *)
(* one whose restore() failed or was cut short by a signal, or one whose   *)
(* profile went down without a note of it: nmcli took it down and said     *)
(* otherwise, or a signal came between nmcli and profile_down = True.      *)
(***************************************************************************)
THEOREM CardAlwaysComesBack == VtdSpec => []CardComesBack
<1>1. UndoInv /\ CardInv => CardComesBack
  <2> SUFFICES ASSUME UndoInv, CardInv, pc = "idle", lost \intersect {"restore", "profile"} = {}
               PROVE  Card = before
    BY DEF CardComesBack
  <2>1. stack = <<>> /\ cb = None
    BY DEF UndoInv, Shape, Closing
  <2>2. ~RestoreArmed /\ ~At("bind", "downed") /\ "profile" \notin lost
    BY <2>1 DEF RestoreArmed, Range, None, At
  <2> QED
    BY <2>2 DEF CardInv, Noted, Card
<1> QED
    BY <1>1, UndoInvariant, CardInvariant, PTL

-----------------------------------------------------------------------------
(***************************************************************************)
(* The capture only grows, and its first event carries the number of the   *)
(* attempt.                                                                *)
(***************************************************************************)
Kinds == {"record", "capture_started", "collector_ready", "workload_started", "QEMU_STARTED",
          "workload_finished", "CLEANUP_BEGIN", "QEMU_STOPPED", "collector_finished",
          "capture_finished", "capture_failed"}
Whos == {"controller", "observer", "tracefs"}
Events == [kind : Kinds, who : Whos, n : Nat]

CaptureTypes ==
    /\ emitted \in Nat
    /\ ring \in Seq(Nat) /\ out \in Seq(Nat) /\ buffer \in Seq(Nat) /\ text \in Seq(Nat)
    /\ capture \in Seq(Events) /\ staged \in Seq(Events) /\ target \in Seq(Events)

Extends(t, s) == Len(t) >= Len(s) /\ \A i \in 1..Len(s) : t[i] = s[i]

\* An event has its type and its parts.
LEMMA EventTyped ==
    ASSUME NEW k \in Kinds, NEW w \in Whos, NEW m \in Nat
    PROVE  /\ Event(k, w, m) \in Events
           /\ Event(k, w, m).kind = k /\ Event(k, w, m).who = w /\ Event(k, w, m).n = m
BY DEF Event, Events

\* A collector's records, in the order in which it wrote them.
LEMMA RecordsTyped ==
    ASSUME NEW w \in Whos, NEW s \in Seq(Nat)
    PROVE  /\ Records(w, s) \in Seq(Events) /\ Len(Records(w, s)) = Len(s)
           /\ \A i \in 1..Len(s) : Records(w, s)[i] = Event("record", w, s[i])
<1>1. Len(s) \in Nat /\ DOMAIN s = 1..Len(s) /\ \A i \in 1..Len(s) : s[i] \in Nat
    OBVIOUS
<1>2. Records(w, s) = [i \in 1..Len(s) |-> Event("record", w, s[i])]
    BY <1>1 DEF Records
<1>3. ASSUME NEW i \in 1..Len(s) PROVE Event("record", w, s[i]) \in Events
  <2>1. "record" \in Kinds
    BY DEF Kinds
  <2>2. s[i] \in Nat
    BY <1>1
  <2> QED
    BY <2>1, <2>2, EventTyped, Zenon
<1> QED
    BY <1>1, <1>2, <1>3

\* One more event leaves the earlier ones where they are.
LEMMA AppendExtends ==
    ASSUME NEW s \in Seq(Events), NEW e \in Events
    PROVE  /\ Append(s, e) \in Seq(Events) /\ Extends(Append(s, e), s)
           /\ Len(Append(s, e)) = Len(s) + 1 /\ Append(s, e)[Len(s) + 1] = e
BY DEF Extends

\* t is s with the records of a collector and an event added.
Collected(t, s, w, q, e) == t = s \o Records(w, q) \o <<e>>

\* The records of a collector leave the earlier events where they are, too.
LEMMA ConcatExtends ==
    ASSUME NEW s \in Seq(Events), NEW w \in Whos, NEW q \in Seq(Nat), NEW e \in Events,
           NEW t, Collected(t, s, w, q, e)
    PROVE  /\ t \in Seq(Events) /\ Extends(t, s) /\ Len(t) = Len(s) + Len(q) + 1
           /\ \A i \in 1..Len(q) : t[Len(s) + i] = Event("record", w, q[i])
           /\ t[Len(t)] = e
<1> DEFINE r == Records(w, q)
           f == <<e>>
<1>1. r \in Seq(Events) /\ Len(r) = Len(q) /\ \A i \in 1..Len(q) : r[i] = Event("record", w, q[i])
    BY RecordsTyped
<1>2. f \in Seq(Events) /\ Len(f) = 1 /\ f[1] = e
    OBVIOUS
<1>3. t = (s \o r) \o f
    BY DEF Collected
<1> HIDE DEF r, f
<1>4. /\ s \o r \in Seq(Events) /\ Len(s \o r) = Len(s) + Len(r)
      /\ Len(s) \in Nat /\ Len(r) \in Nat
      /\ \A i \in 1..Len(s) : (s \o r)[i] = s[i]
      /\ \A i \in 1..Len(r) : (s \o r)[Len(s) + i] = r[i]
  <2>1. s \o r \in Seq(Events) /\ Len(s) \in Nat /\ Len(r) \in Nat
    BY <1>1
  <2>2. Len(s \o r) = Len(s) + Len(r)
    BY <1>1
  <2>3. \A i \in 1..Len(s) : (s \o r)[i] = s[i]
    BY <1>1, <2>1
  <2>4. \A i \in 1..Len(r) : (s \o r)[Len(s) + i] = r[i]
    BY <1>1, <2>1
  <2> QED
    BY <2>1, <2>2, <2>3, <2>4
<1>5. PICK u : u = s \o r
    OBVIOUS
<1>6. /\ u \in Seq(Events) /\ Len(u) = Len(s) + Len(q)
      /\ Len(s) \in Nat /\ Len(q) \in Nat
      /\ \A i \in 1..Len(s) : u[i] = s[i]
      /\ \A i \in 1..Len(q) : u[Len(s) + i] = r[i]
    BY <1>1, <1>4, <1>5, Zenon
<1>7. t = u \o f
    BY <1>3, <1>5, Zenon
<1>8. /\ u \o f \in Seq(Events) /\ Len(u \o f) = Len(u) + Len(f)
      /\ \A i \in 1..Len(u) : (u \o f)[i] = u[i]
      /\ \A i \in 1..Len(f) : (u \o f)[Len(u) + i] = f[i]
  <2>1. u \in Seq(Events) /\ Len(u) \in Nat
    BY <1>6
  <2>2. /\ u \o f \in Seq(Events) /\ Len(u \o f) = Len(u) + Len(f)
        /\ \A i \in 1..Len(u) + Len(f) :
              (u \o f)[i] = IF i <= Len(u) THEN u[i] ELSE f[i - Len(u)]
    BY <1>2, <2>1, ConcatProperties, Zenon
  <2>3. PICK v : v = u \o f
    OBVIOUS
  <2>4. \A i \in 1..Len(u) : v[i] = u[i]
    BY <1>2, <2>1, <2>2, <2>3
  <2>5. \A i \in 1..Len(f) : v[Len(u) + i] = f[i]
    BY <1>2, <2>1, <2>2, <2>3
  <2> QED
    BY <2>2, <2>3, <2>4, <2>5, Zenon
<1>9. /\ t \in Seq(Events) /\ Len(t) = Len(u) + 1
      /\ \A i \in 1..Len(u) : t[i] = u[i]
      /\ \A i \in 1..1 : t[Len(u) + i] = f[i]
    BY <1>2, <1>7, <1>8, Zenon
<1>10. t[Len(t)] = e
    BY <1>2, <1>6, <1>9
<1>11. \A i \in 1..Len(s) : t[i] = s[i]
    BY <1>6, <1>9
<1>12. ASSUME NEW i \in 1..Len(q) PROVE t[Len(s) + i] = Event("record", w, q[i])
  <2>1. Len(s) + i \in 1..Len(u)
    BY <1>6
  <2> QED
    BY <1>1, <1>6, <1>9, <2>1
<1> QED
    BY <1>6, <1>9, <1>10, <1>11, <1>12 DEF Extends

\* Concatenation of record numbers.
LEMMA NatConcat ==
    ASSUME NEW s \in Seq(Nat), NEW t \in Seq(Nat)
    PROVE  s \o t \in Seq(Nat) /\ <<>> \in Seq(Nat)
OBVIOUS

\* The records before one of them, after it, and all the others.
LEMMA NatParts ==
    ASSUME NEW s \in Seq(Nat), NEW n \in DOMAIN s
    PROVE  /\ SubSeq(s, 1, n - 1) \in Seq(Nat) /\ SubSeq(s, n + 1, Len(s)) \in Seq(Nat)
           /\ RemoveAt(s, n) \in Seq(Nat)
<1>1. n \in 1..Len(s) /\ Len(s) \in Nat
    OBVIOUS
<1>2. SubSeq(s, 1, n - 1) \in Seq(Nat) /\ SubSeq(s, n + 1, Len(s)) \in Seq(Nat)
    BY <1>1
<1>3. RemoveAt(s, n) = SubSeq(s, 1, n - 1) \o SubSeq(s, n + 1, Len(s))
    BY DEF RemoveAt
<1> QED
    BY <1>2, <1>3, NatConcat

\* What the processes write has its type.
LEMMA EnvironmentTypes ==
    ASSUME CaptureTypes, Environment
    PROVE  CaptureTypes' /\ UNCHANGED <<capture, staged, target>>
<1>1. UNCHANGED <<capture, staged, target>>
    BY DEF Environment, Workload, Drain, file_vars
<1>2. ASSUME ObserverStep(workflow \notin Careless), UNCHANGED <<workload_vars, trace_vars>>
      PROVE  CaptureTypes'
  <2>1. UNCHANGED <<emitted, buffer, text>>
    BY <1>2 DEF workload_vars, trace_vars
  <2>2. ring \in Seq(Nat) /\ out \in Seq(Nat)
    BY DEF CaptureTypes
  <2>3. CASE UNCHANGED <<ring, out>>
    BY <1>1, <2>1, <2>3 DEF CaptureTypes
  <2>4. CASE Consume
    <3>1. ring' \in Seq(Nat) /\ out' \in Seq(Nat)
      BY <2>2, <2>4, NatConcat DEF Consume
    <3> QED
      BY <1>1, <2>1, <3>1 DEF CaptureTypes
  <2>5. CASE ConsumeShort
    <3>1. PICK n \in DOMAIN ring : out' = out \o RemoveAt(ring, n)
      BY <2>5 DEF ConsumeShort
    <3>2. RemoveAt(ring, n) \in Seq(Nat)
      BY <2>2, <3>1, NatParts
    <3>3. ring' \in Seq(Nat) /\ out' \in Seq(Nat)
      BY <2>2, <2>5, <3>1, <3>2, NatConcat DEF ConsumeShort
    <3> QED
      BY <1>1, <2>1, <3>3 DEF CaptureTypes
  <2>6. CASE ObserverWriteFails(workflow \notin Careless)
    <3>1. PICK n \in DOMAIN ring : /\ out' = out \o SubSeq(ring, 1, n - 1)
                                   /\ ring' = SubSeq(ring, n + 1, Len(ring))
      BY <2>6 DEF ObserverWriteFails
    <3>2. SubSeq(ring, 1, n - 1) \in Seq(Nat) /\ SubSeq(ring, n + 1, Len(ring)) \in Seq(Nat)
      BY <2>2, <3>1, NatParts
    <3>3. ring' \in Seq(Nat) /\ out' \in Seq(Nat)
      BY <2>2, <3>1, <3>2, NatConcat
    <3> QED
      BY <1>1, <2>1, <3>3 DEF CaptureTypes
  <2> QED
    BY <1>2, <2>3, <2>4, <2>5, <2>6
       DEF ObserverStep, ObserverSetup, ObserverReady, ObserverSetupFails, ObserverPoll,
           ObserverPollFails, ObserverStops, ObserverDrain, lab_health, ObserverExit
<1>3. ASSUME Workload PROVE CaptureTypes'
  <2>1. UNCHANGED <<out, text>>
    BY <1>3 DEF Workload
  <2>2. CASE UNCHANGED <<emitted, buffer, ring>>
    BY <1>1, <2>1, <2>2 DEF CaptureTypes
  <2>3. CASE Emit
    <3>1. emitted' = emitted + 1 /\ emitted' \in Nat
      BY <2>3 DEF Emit, CaptureTypes
    <3>2. buffer' = buffer \/ buffer' = Append(buffer, emitted')
      BY <2>3 DEF Emit
    <3>3. ring' = ring \/ ring' = Append(ring, emitted')
      BY <2>3 DEF Emit, lab_output, lab_map_update, Unobserved
    <3>4. buffer' \in Seq(Nat)
      <4>1. buffer \in Seq(Nat) /\ Append(buffer, emitted') \in Seq(Nat)
        BY <3>1 DEF CaptureTypes
      <4> QED
        BY <3>2, <4>1, Zenon
    <3>5. ring' \in Seq(Nat)
      <4>1. ring \in Seq(Nat) /\ Append(ring, emitted') \in Seq(Nat)
        BY <3>1 DEF CaptureTypes
      <4> QED
        BY <3>3, <4>1, Zenon
    <3> QED
      BY <1>1, <2>1, <3>1, <3>4, <3>5 DEF CaptureTypes
  <2> QED
    BY <1>3, <2>2, <2>3 DEF Workload, WorkloadRuns, WorkloadEnds, WorkloadTerminates
<1>4. ASSUME Drain PROVE CaptureTypes'
  <2>1. UNCHANGED <<emitted, ring, out>>
    BY <1>4 DEF Drain, observer_vars, workload_vars
  <2>2. CASE UNCHANGED <<buffer, text>>
    BY <1>1, <2>1, <2>2 DEF CaptureTypes
  <2>3. CASE DrainRead
    <3>1. buffer' = <<>> /\ text' = text \o buffer /\ text \in Seq(Nat) /\ buffer \in Seq(Nat)
      BY <2>3 DEF DrainRead, CaptureTypes
    <3>2. buffer' \in Seq(Nat) /\ text' \in Seq(Nat)
      BY <3>1, NatConcat
    <3> QED
      BY <1>1, <2>1, <3>2 DEF CaptureTypes
  <2> QED
    BY <1>4, <2>2, <2>3 DEF Drain, DrainEnds, DrainFails
<1> QED
    BY <1>1, <1>2, <1>3, <1>4 DEF Environment

\* What the capture's types need of a step of the controller.
CaptureStep ==
    /\ UNCHANGED <<emitted, buffer, text>>
    /\ UNCHANGED <<ring, out>> \/ (ring' = <<>> /\ out' = <<>>)
    /\ \/ capture' = capture
       \/ \E k \in Kinds, w \in Whos : lifecycle(k, w)
       \/ \E w \in Whos : \E q \in {out, text} :
             Collected(capture', capture, w, q, Event("collector_finished", w, 0))
    /\ staged' \in {staged, capture, capture'} /\ target' \in {target, staged}

\* Acquiring adds at most one event of the controller.
LEMMA AcquireCapture ==
    ASSUME Acquire
    PROVE  CaptureStep
<1> USE DEF CaptureStep, workload_vars, trace_vars, observer_vars, file_vars, Kinds, Whos
<1>1. ASSUME NEW m \in Modules, ModuleRefuse(m) \/ ModuleInsert(m) \/ ModuleRegister(m)
      PROVE  CaptureStep
    BY <1>1 DEF ModuleRefuse, ModuleInsert, ModuleRegister
<1>2. ASSUME TraceRefuse \/ TraceMake \/ TraceInit \/ TraceInitFails \/ TraceRegister
      PROVE  CaptureStep
    BY <1>2 DEF TraceRefuse, TraceMake, TraceInit, TraceInitFails, TraceRegister
<1>3. ASSUME TraceStart PROVE CaptureStep
    BY <1>3 DEF TraceStart
<1>4. ASSUME ObserverStart PROVE CaptureStep
    BY <1>4 DEF ObserverStart, ObserverSpawn
<1>5. ASSUME ObserverRegister PROVE CaptureStep
    BY <1>5 DEF ObserverRegister
<1>6. ASSUME ObserverIsReady PROVE CaptureStep
    BY <1>6 DEF ObserverIsReady
<1>7. ASSUME WorkloadStart PROVE CaptureStep
    BY <1>7 DEF WorkloadStart
<1>8. ASSUME WorkloadRegister PROVE CaptureStep
    BY <1>8 DEF WorkloadRegister
<1>9. ASSUME Brings PROVE CaptureStep
    BY <1>9 DEF Brings, Swapon, Modprobe, TraceMount
<1> QED
    BY <1>1, <1>2, <1>3, <1>4, <1>5, <1>6, <1>7, <1>8, <1>9 DEF Acquire, Brings

\* Collecting adds what a collector has written.
LEMMA ObserveCapture ==
    ASSUME Observe
    PROVE  CaptureStep
<1> USE DEF CaptureStep, workload_vars, trace_vars, observer_vars, file_vars, Kinds, Whos
<1>1. ASSUME OpenGate \/ WaitWorkload \/ GuestRuns PROVE CaptureStep
    BY <1>1 DEF OpenGate, WaitWorkload, GuestRuns
<1>2. ASSUME VmStop \/ VmStopped \/ VmKill PROVE CaptureStep
    BY <1>2 DEF VmStop, VmStopped, VmKill, Terminate, Kill
<1>3. ASSUME CollectSignal PROVE CaptureStep
    BY <1>3 DEF CollectSignal, ObserverInterrupted
<1>4. ASSUME CollectObserver PROVE CaptureStep
  <2>1. Collected(capture', capture, "observer", out, Event("collector_finished", "observer", 0))
    BY <1>4 DEF CollectObserver, Collected
  <2> QED
    BY <1>4, <2>1 DEF CollectObserver
<1>5. ASSUME CollectNoTrace \/ TraceStop PROVE CaptureStep
    BY <1>5 DEF CollectNoTrace, TraceStop
<1>6. ASSUME CollectTrace PROVE CaptureStep
  <2>1. Collected(capture', capture, "tracefs", text, Event("collector_finished", "tracefs", 0))
    BY <1>6 DEF CollectTrace, Collected
  <2> QED
    BY <1>6, <2>1 DEF CollectTrace
<1> QED
    BY <1>1, <1>2, <1>3, <1>4, <1>5, <1>6 DEF Observe

\* Cleaning up, the card and the signals add nothing, publishing the controller's last event.
LEMMA OtherCapture ==
    ASSUME \/ Cleanup \/ Publish \/ WorkFails \/ WorkDone
           \/ Audit \/ Own \/ Bind \/ Restore \/ Signal \/ SignalInBind
    PROVE  CaptureStep
<1> USE DEF CaptureStep, workload_vars, trace_vars, observer_vars, file_vars, Kinds, Whos
<1>1. ASSUME PopCallback \/ TraceClose \/ TraceRemove \/ CallbackFails \/ CloseDone PROVE CaptureStep
    BY <1>1 DEF PopCallback, TraceClose, TraceRemove, CallbackFails, CloseDone
<1>2. ASSUME NEW p \in {"observer", "workload"}, StopSignal(p) \/ StopWait(p) \/ StopKill(p)
      PROVE  CaptureStep
    BY <1>2 DEF StopSignal, StopWait, StopKill, Terminate, Kill, ObserverInterrupted, ObserverKilled
<1>3. ASSUME NEW m \in Modules, ModuleRemove(m) PROVE CaptureStep
    BY <1>3 DEF ModuleRemove
<1>4. ASSUME Finish PROVE CaptureStep
    BY <1>4 DEF Finish
<1>5. ASSUME Save \/ Validate \/ WriteTemporary \/ Replace \/ SyncDirectory \/ PublishFails
      PROVE  CaptureStep
    BY <1>5 DEF Save, Validate, WriteTemporary, Replace, SyncDirectory, PublishFails
<1>6. ASSUME RecordFailure PROVE CaptureStep
    BY <1>6 DEF RecordFailure
<1>7. ASSUME ReturnOwnership \/ WorkFails \/ WorkDone PROVE CaptureStep
    BY <1>7 DEF ReturnOwnership, WorkFails, WorkDone
<1>8. ASSUME Audit \/ Own \/ Bind \/ Restore PROVE CaptureStep
    BY <1>8 DEF Audit, Own, Bind, Restore
<1>9. ASSUME SignalInWorkflow \/ SignalInTraceInit \/ SignalInCallback \/ SignalInClose
      PROVE  CaptureStep
    BY <1>9 DEF SignalInWorkflow, SignalInTraceInit, SignalInCallback, SignalInClose
<1>10. ASSUME SignalInPublish \/ SignalAtEnd \/ SignalInBind PROVE CaptureStep
    BY <1>10 DEF SignalInPublish, SignalAtEnd, SignalInBind
<1> QED
    BY <1>1, <1>2, <1>3, <1>4, <1>5, <1>6, <1>7, <1>8, <1>9, <1>10 DEF Cleanup, Publish, Signal

\* The controller adds its own events and the collectors' records to the capture.
LEMMA CaptureGrows ==
    ASSUME CaptureTypes, CaptureStep
    PROVE  CaptureTypes' /\ Extends(capture', capture)
<1>1. capture' \in Seq(Events) /\ Extends(capture', capture)
  <2>1. CASE capture' = capture
    BY <2>1 DEF CaptureTypes, Extends
  <2>2. ASSUME NEW k \in Kinds, NEW w \in Whos, lifecycle(k, w)
        PROVE  capture' \in Seq(Events) /\ Extends(capture', capture)
    <3>1. Event(k, w, 0) \in Events
      BY EventTyped
    <3>2. capture' = Append(capture, Event(k, w, 0)) /\ capture \in Seq(Events)
      BY <2>2 DEF lifecycle, CaptureTypes
    <3> QED
      BY <3>1, <3>2, AppendExtends
  <2>3. ASSUME NEW w \in Whos, NEW q \in {out, text},
               Collected(capture', capture, w, q, Event("collector_finished", w, 0))
        PROVE  capture' \in Seq(Events) /\ Extends(capture', capture)
    <3>1. "collector_finished" \in Kinds
      BY DEF Kinds
    <3>2. Event("collector_finished", w, 0) \in Events
      BY <3>1, EventTyped
    <3>3. q \in Seq(Nat) /\ capture \in Seq(Events)
      BY DEF CaptureTypes
    <3> QED
      BY <2>3, <3>2, <3>3, ConcatExtends, Zenon
  <2> QED
    BY <2>1, <2>2, <2>3 DEF CaptureStep
<1>2. staged' \in Seq(Events) /\ target' \in Seq(Events)
    BY <1>1, Zenon DEF CaptureStep, CaptureTypes
<1>3. ring' \in Seq(Nat) /\ out' \in Seq(Nat)
  <2>1. <<>> \in Seq(Nat)
    OBVIOUS
  <2> QED
    BY <2>1, Zenon DEF CaptureStep, CaptureTypes
<1> QED
    BY <1>1, <1>2, <1>3 DEF CaptureStep, CaptureTypes

-----------------------------------------------------------------------------
\* A settled attempt stays so, until the next one begins.
LEMMA StaysSettled ==
    ASSUME UndoInv, Settled,
           \/ VtdController \/ VtdSignal
           \/ Environment /\ UNCHANGED device_vars
    PROVE  Settled'
<1>1. stack = <<>> /\ cb = None /\ pc # "work" /\ NothingPresent /\ Card = before
    BY DEF Settled
<1>2. ASSUME UNCHANGED <<attempt, module, trace, observer, workload, driver, override, profile, before>>,
             stack' = <<>>, cb' = None, pc' # "work"
      PROVE  Settled'
    BY <1>1, <1>2 DEF Settled, NothingPresent, Present, ObserverAlive, WorkloadAlive, Card
<1>3. ASSUME Environment, UNCHANGED device_vars PROVE Settled'
  <2>1. /\ ObserverAlive' => ObserverAlive
        /\ WorkloadAlive' => WorkloadAlive
        /\ UNCHANGED <<stack, cb, pc, attempt, module, trace>>
    BY <1>3, EnvironmentStep DEF control_vars
  <2>2. NothingPresent'
    BY <1>1, <2>1 DEF NothingPresent, Present
  <2> QED
    BY <1>1, <1>3, <2>1, <2>2 DEF Settled, Card, device_vars
<1>4. ASSUME Publish, UNCHANGED device_vars PROVE Settled'
    BY <1>1, <1>2, <1>4 DEF Publish, Finish, Save, Validate, WriteTemporary, Replace, SyncDirectory,
       PublishFails, RecordFailure, ReturnOwnership, Goto, Raise, observer_vars, workload_vars,
       trace_vars, device_vars
<1>5. ASSUME Cleanup, UNCHANGED device_vars PROVE Settled'
  <2>1. CASE CloseDone
    BY <1>1, <1>2, <1>5, <2>1 DEF CloseDone, Goto, observer_vars, workload_vars, trace_vars, device_vars
  <2> QED
    BY <1>1, <1>5, <2>1, Names DEF Cleanup, PopCallback, StopSignal, StopWait, StopKill, TraceClose,
       TraceRemove, ModuleRemove, CallbackFails, None
<1>6. ~Acquire /\ ~Observe /\ ~WorkFails /\ ~WorkDone
    BY <1>1 DEF Acquire, ModuleRefuse, ModuleInsert, ModuleRegister, Swapon, Modprobe, TraceMount,
       TraceRefuse, TraceMake, TraceInit, TraceInitFails, TraceRegister, TraceStart, ObserverStart,
       ObserverRegister, ObserverIsReady, WorkloadStart, WorkloadRegister, Observe, OpenGate, WaitWorkload, GuestRuns, VmStop, VmStopped,
       VmKill, CollectSignal, CollectObserver, CollectNoTrace, TraceStop, CollectTrace, WorkFails,
       WorkDone, At
<1>7. ~Audit /\ ~Own /\ ~Bind /\ ~Restore /\ ~SignalInBind
    BY <1>1 DEF Audit, Own, Bind, BindDown, BindDowned, BindDownUnnoticed, BindTouch, BindUnbind,
       BindVfio, BindDone, Restore, RestoreStart, RestoreUnbind, RestoreOverride, RestoreBind,
       RestoreProfile, RestoreDone, RestoreFails, Restoring, SignalInBind, At, None
<1>8. ASSUME Signal, UNCHANGED device_vars PROVE Settled'
    BY <1>1, <1>2, <1>8 DEF Signal, SignalInWorkflow, SignalInTraceInit, SignalInCallback,
       SignalInClose, SignalInPublish, SignalAtEnd, At, observer_vars, workload_vars, trace_vars,
       device_vars
<1> QED
    BY <1>3, <1>4, <1>5, <1>6, <1>7, <1>8 DEF VtdController, Controller, VtdSignal

\* Where a step of the controller leaves it, and what it loses on the way.
LEMMA StaysClean ==
    ASSUME Clean, Controller \/ Audit \/ Own \/ Bind \/ Restore \/ Signal \/ SignalInBind
    PROVE  Clean'
<1> USE DEF Clean, At, Phase, NextStep, Raise, Goto, Returns, Raises, Closing
<1>1. ASSUME Acquire PROVE Clean'
    BY <1>1 DEF Acquire, ModuleRefuse, ModuleInsert, ModuleRegister, Swapon, Modprobe, TraceMount,
       TraceRefuse, TraceMake, TraceInit, TraceInitFails, TraceRegister, TraceStart, ObserverStart,
       ObserverRegister, ObserverIsReady, WorkloadStart, WorkloadRegister, Register
<1>2. ASSUME Observe PROVE Clean'
  <2>1. pc' = "work" => UNCHANGED <<pc, raised, lost>>
    BY <1>2 DEF Observe, OpenGate, WaitWorkload, GuestRuns, VmStop, VmStopped, VmKill, CollectSignal,
       CollectObserver, CollectNoTrace, TraceStop, CollectTrace
  <2>2. pc' # "close"
    BY <1>2 DEF Observe, OpenGate, WaitWorkload, GuestRuns, VmStop, VmStopped, VmKill, CollectSignal,
       CollectObserver, CollectNoTrace, TraceStop, CollectTrace
  <2> QED
    BY <2>1, <2>2
<1>3. ASSUME Cleanup PROVE Clean'
    BY <1>3 DEF Cleanup, PopCallback, StopSignal, StopWait, StopKill, TraceClose, TraceRemove,
       ModuleRemove, CallbackFails, CloseDone
<1>4. ASSUME Publish \/ WorkFails \/ WorkDone PROVE Clean'
    BY <1>4 DEF Publish, WorkFails, WorkDone, Finish, Save, Validate, WriteTemporary, Replace,
       SyncDirectory, PublishFails, RecordFailure, ReturnOwnership
<1>5. ASSUME Audit \/ Own \/ Bind PROVE Clean'
    BY <1>5 DEF Audit, Own, Bind, BindDown, BindDowned, BindDownUnnoticed, BindTouch, BindUnbind,
       BindVfio, BindDone
<1>6. ASSUME Restore PROVE Clean'
    BY <1>6 DEF Restore, RestoreStart, RestoreUnbind, RestoreOverride, RestoreBind, RestoreProfile,
       RestoreDone, RestoreFails
<1>7. ASSUME Signal \/ SignalInBind PROVE Clean'
    BY <1>7 DEF Signal, SignalInWorkflow, SignalInTraceInit, SignalInCallback, SignalInClose,
       SignalInPublish, SignalAtEnd, SignalInBind
<1> QED
    BY <1>1, <1>2, <1>3, <1>4, <1>5, <1>6, <1>7 DEF Controller

\* The stack is closed and nothing was lost: the attempt has settled.
LEMMA ClosedIsSettled ==
    ASSUME UndoInv, CardInv, Clean, pc = "close", ~raised, cb = None, stack = <<>>
    PROVE  Settled
<1>1. lost = {} /\ Range(stack) = {}
    BY DEF Clean, Range
<1>2. NothingPresent
  <2> SUFFICES ASSUME NEW r \in Resources PROVE ~Present(r)
    BY DEF NothingPresent
  <2>1. cb # r /\ ~Pending(r)
    BY Names DEF Pending, Undos
  <2> QED
    BY <1>1, <2>1 DEF UndoInv, Undone
<1>3. ~RestoreArmed /\ ~At("bind", "downed")
    BY <1>1 DEF RestoreArmed, At, None
<1>4. Card = before
    BY <1>1, <1>3 DEF CardInv, Noted, Card
<1> QED
    BY <1>2, <1>4 DEF Settled

\* Only the end of the clean-up leads to the publication, and only a publication to the target.
LEMMA PublicationPath ==
    ASSUME VtdController \/ VtdSignal
    PROVE  /\ UNCHANGED attempt
           /\ pc' = "finish" \/ Publishing' =>
                 \/ pc = "finish" \/ Publishing
                 \/ pc = "close" /\ ~raised /\ cb = None /\ stack = <<>> /\ CloseDone
           /\ target' # target => pc = "replace" /\ target' = staged
           /\ pc # "idle"
<1> USE DEF At, Phase, NextStep, Raise, Goto, Returns, Raises, Closing, Publishing, file_vars
<1>1. ASSUME Acquire PROVE /\ UNCHANGED <<attempt, target>> /\ pc = "work" /\ pc' \in {"work", "xclose"}
    BY <1>1 DEF Acquire, ModuleRefuse, ModuleInsert, ModuleRegister, Swapon, Modprobe, TraceMount,
       TraceRefuse, TraceMake, TraceInit, TraceInitFails, TraceRegister, TraceStart, ObserverStart,
       ObserverRegister, ObserverIsReady, WorkloadStart, WorkloadRegister, Register
<1>2. ASSUME Observe PROVE /\ UNCHANGED <<attempt, target>> /\ pc = "work" /\ pc' \in {"work", "xclose"}
    BY <1>2 DEF Observe, OpenGate, WaitWorkload, GuestRuns, VmStop, VmStopped, VmKill, CollectSignal,
       CollectObserver, CollectNoTrace, TraceStop, CollectTrace
<1>3. ASSUME Cleanup PROVE /\ UNCHANGED <<attempt, target>> /\ Closing /\ (pc' = pc \/ CloseDone)
  <2>1. CASE CloseDone
    BY <2>1 DEF CloseDone
  <2> QED
    BY <1>3, <2>1 DEF Cleanup, PopCallback, StopSignal, StopWait, StopKill, TraceClose, TraceRemove,
       ModuleRemove, CallbackFails
<1>4. ASSUME WorkFails \/ WorkDone
      PROVE UNCHANGED <<attempt, target>> /\ pc = "work" /\ pc' \in {"close", "xclose"}
    BY <1>4 DEF WorkFails, WorkDone
<1>5. ASSUME Audit \/ Own \/ Bind
      PROVE UNCHANGED <<attempt, target>> /\ pc = "work" /\ pc' \in {"work", "xclose"}
    BY <1>5 DEF Audit, Own, Bind, BindDown, BindDowned, BindDownUnnoticed, BindTouch, BindUnbind,
       BindVfio, BindDone
<1>6. ASSUME Restore PROVE UNCHANGED <<attempt, target, pc>> /\ pc \in {"work", "close", "xclose"}
    BY <1>6 DEF Restore, RestoreStart, RestoreUnbind, RestoreOverride, RestoreBind, RestoreProfile,
       RestoreDone, RestoreFails, Restoring
<1>7. ASSUME Signal \/ SignalInBind
      PROVE  UNCHANGED <<attempt, target>> /\ pc # "idle" /\ pc' \in {"close", "xclose", "record", "ownership", "idle"}
    BY <1>7 DEF Signal, SignalInWorkflow, SignalInTraceInit, SignalInCallback, SignalInClose,
       SignalInPublish, SignalAtEnd, SignalInBind
<1>8. ASSUME Publish
      PROVE  /\ UNCHANGED attempt /\ pc # "idle"
             /\ target' # target => pc = "replace" /\ target' = staged
             /\ pc' = "finish" \/ Publishing' => pc = "finish" \/ Publishing
    BY <1>8 DEF Publish, Finish, Save, Validate, WriteTemporary, Replace, SyncDirectory, PublishFails,
       RecordFailure, ReturnOwnership
<1>9. ASSUME CloseDone
      PROVE  pc' = "finish" => pc = "close" /\ ~raised /\ cb = None /\ stack = <<>>
    BY <1>9 DEF CloseDone
<1>10. ASSUME CloseDone PROVE pc' \in {"finish", "record"}
    BY <1>10 DEF CloseDone
<1> QED
    BY <1>1, <1>2, <1>3, <1>4, <1>5, <1>6, <1>7, <1>8, <1>9, <1>10
       DEF VtdController, Controller, VtdSignal

\* The types, the stamp and the settled attempt, in every reachable state.
LEMMA RestoredInvariant == VtdSpec => [](CaptureTypes /\ RestoredInv)
<1>1. VtdInit => CaptureTypes /\ RestoredInv
  <2> SUFFICES ASSUME VtdInit PROVE CaptureTypes /\ RestoredInv
    OBVIOUS
  <2>1. /\ pc = "idle" /\ attempt = 1 /\ emitted = 0 /\ buffer = <<>> /\ text = <<>>
        /\ ring = <<>> /\ out = <<>> /\ capture = <<>> /\ staged = <<>>
        /\ target = <<>> \/ target = OldCapture
    BY DEF VtdInit, SessionInit, ObserverAbsent, NoFile
  <2>2. OldCapture \in Seq(Events) /\ OldCapture[1].n = 1
    <3>1. /\ Event("capture_started", "controller", 1) \in Events
          /\ Event("record", "observer", 1) \in Events
          /\ Event("capture_finished", "controller", 0) \in Events
          /\ Event("capture_started", "controller", 1).n = 1
      BY EventTyped DEF Kinds, Whos
    <3> QED
      BY <3>1 DEF OldCapture
  <2>3. <<>> \in Seq(Events) /\ <<>> \in Seq(Nat)
    OBVIOUS
  <2>4. CaptureTypes
    BY <2>1, <2>2, <2>3 DEF CaptureTypes
  <2>5. Stamp
    BY <2>1, <2>2 DEF Stamp, NoFile
  <2> QED
    BY <2>1, <2>4, <2>5 DEF RestoredInv, Clean, SettledInv, Publishing, Fresh
<1>2. ASSUME UndoInv, CardInv, CaptureTypes, RestoredInv, [VtdNext]_vtd_vars
      PROVE  CaptureTypes' /\ RestoredInv'
  <2> USE <1>2
  <2>1. attempt \in Nat /\ attempt > 0
    BY DEF UndoInv, Shape
  <2>2. Clean /\ Stamp /\ SettledInv
    BY DEF RestoredInv
  <2>3. ASSUME VtdBegin PROVE CaptureTypes' /\ RestoredInv'
    <3>1. /\ pc' = "work" /\ attempt' = attempt + 1 /\ emitted' = 0 /\ buffer' = <<>> /\ text' = <<>>
          /\ ring' = <<>> /\ out' = <<>> /\ staged' = <<>> /\ UNCHANGED target
          /\ raised' = FALSE /\ lost' = {}
          /\ capture' = <<Event("capture_started", "controller", attempt')>>
      BY <2>3 DEF VtdBegin, Begin, NoFile
    <3>2. /\ Event("capture_started", "controller", attempt') \in Events
          /\ Event("capture_started", "controller", attempt').n = attempt'
      BY <2>1, <3>1, EventTyped DEF Kinds, Whos
    <3>3. capture' \in Seq(Events) /\ capture' # <<>> /\ capture'[1].n = attempt'
      BY <3>1, <3>2
    <3>4. <<>> \in Seq(Events) /\ <<>> \in Seq(Nat)
      OBVIOUS
    <3>5. CaptureTypes'
      BY <3>1, <3>3, <3>4 DEF CaptureTypes
    <3>6. target # NoFile => target[1].n \in 1..attempt
      BY <2>2 DEF Stamp
    <3>7. Stamp'
      BY <2>1, <3>1, <3>3, <3>6 DEF Stamp, NoFile
    <3>8. ~Fresh'
      BY <2>1, <3>1, <3>6 DEF Fresh
    <3> QED
      BY <3>1, <3>5, <3>7, <3>8 DEF RestoredInv, Clean, SettledInv, Publishing
  <2>4. ASSUME Environment, UNCHANGED device_vars PROVE CaptureTypes' /\ RestoredInv'
    <3>1. CaptureTypes' /\ UNCHANGED <<capture, staged, target>>
      BY <2>4, EnvironmentTypes
    <3>2. UNCHANGED <<pc, raised, lost, attempt>>
      BY <2>4, EnvironmentStep DEF control_vars
    <3>3. Settled => Settled'
      BY <2>4, StaysSettled
    <3> QED
      BY <2>2, <3>1, <3>2, <3>3 DEF RestoredInv, Clean, Stamp, SettledInv, Publishing, Fresh
  <2>5. ASSUME VtdController \/ VtdSignal PROVE CaptureTypes' /\ RestoredInv'
    <3>1. CaptureStep
      BY <2>5, AcquireCapture, ObserveCapture, OtherCapture DEF VtdController, Controller, VtdSignal
    <3>2. CaptureTypes' /\ Extends(capture', capture)
      BY <3>1, CaptureGrows
    <3>3. Settled => Settled'
      BY <2>5, StaysSettled
    <3>4. Clean'
      BY <2>2, <2>5, StaysClean DEF VtdController, VtdSignal
    <3>5. /\ UNCHANGED attempt
          /\ pc' = "finish" \/ Publishing' =>
                 \/ pc = "finish" \/ Publishing
                 \/ pc = "close" /\ ~raised /\ cb = None /\ stack = <<>> /\ CloseDone
          /\ target' # target => pc = "replace" /\ target' = staged
          /\ pc # "idle"
      BY <2>5, PublicationPath
    <3>6. capture' # <<>> /\ capture'[1] = capture[1] /\ capture[1].n = attempt /\ capture # <<>>
      <4>1. Len(capture) \in Nat /\ Len(capture) > 0 /\ capture[1].n = attempt
        BY <2>2, <3>5 DEF CaptureTypes, Stamp
      <4>2. Len(capture') >= Len(capture) /\ capture'[1] = capture[1]
        BY <3>2, <4>1 DEF Extends
      <4>3. capture' \in Seq(Events)
        BY <3>2 DEF CaptureTypes
      <4> QED
        BY <4>1, <4>2, <4>3
    <3>7. staged' # NoFile => staged'[1].n = attempt
      BY <2>2, <3>1, <3>6 DEF CaptureStep, Stamp
    <3>8. target' # NoFile => target'[1].n \in 1..attempt
      BY <2>1, <2>2, <3>5 DEF Stamp
    <3>9. Stamp'
      BY <3>5, <3>6, <3>7, <3>8 DEF Stamp
    <3>10. pc = "close" /\ ~raised /\ cb = None /\ stack = <<>> => Settled
      BY <2>2, ClosedIsSettled
    <3>11. Fresh' => Fresh \/ pc = "replace"
      BY <3>5 DEF Fresh
    <3>12. SettledInv'
      BY <2>2, <3>3, <3>5, <3>10, <3>11 DEF SettledInv, Publishing
    <3> QED
      BY <3>2, <3>4, <3>9, <3>12 DEF RestoredInv
  <2>6. ASSUME UNCHANGED vtd_vars PROVE CaptureTypes' /\ RestoredInv'
    BY <2>2, <2>6 DEF vtd_vars, session_vars, observer_vars, control_vars, workload_vars, trace_vars,
       file_vars, device_vars, CaptureTypes, RestoredInv, Clean, Stamp, SettledInv, Settled, Publishing, Fresh,
       NothingPresent, Present, ObserverAlive, WorkloadAlive, Card
  <2> QED
    BY <2>3, <2>4, <2>5, <2>6 DEF VtdNext
<1> QED
    BY <1>1, <1>2, UndoInvariant, CardInvariant, PTL DEF VtdSpec

(***************************************************************************)
(* "restored": True in a published capture is true, whatever the           *)
(* experiments and the failures, of everything that has an undo: the card  *)
(* is where it was, and what the attempt brought into the machine is gone  *)
(* but for the tracefs mount, the vfio modules and the swap.               *)
(***************************************************************************)
THEOREM PublishedMeansRestored == VtdSpec => []RestoredIsTrue
<1>1. RestoredInv => RestoredIsTrue
  <2> SUFFICES ASSUME RestoredInv, Fresh
               PROVE  {r \in Resources \union Kept : Present(r)} \subseteq Kept /\ Card = before
    BY DEF RestoredIsTrue
  <2>1. Settled
    BY DEF RestoredInv, SettledInv
  <2> QED
    BY <2>1 DEF Settled, NothingPresent
<1> QED
    BY <1>1, RestoredInvariant, PTL

-----------------------------------------------------------------------------
Starters == {"workload", "vm"}
Enders == {"wait", "vmstop"}

(***************************************************************************)
(* What the order of the undos needs of a step inside an attempt: where    *)
(* the workload may come from and how the stack may change.                *)
(***************************************************************************)
OrderStep ==
    /\ workflow' = workflow
    /\ at' # at => at' = at + 1 /\ at \in DOMAIN workflow
    /\ WorkloadAlive' /\ pc' = "work" =>
          /\ pc = "work"
          /\ \/ WorkloadAlive /\ (at' = at \/ workflow[at] \notin Enders)
             \/ at' = at /\ at \in DOMAIN workflow /\ workflow[at] \in Starters
    /\ \/ stack' = stack /\ cb' \in {cb, None}
       \/ \E r \in Undos :
             /\ stack' = Append(stack, r) /\ cb' = cb /\ cb = None /\ at \in DOMAIN workflow
             /\ r = "workload" => at' = at + 1 /\ workflow[at] \in Starters
             /\ r = "restore" => workflow[at] = "own"
       \/ stack # <<>> /\ stack' = Front(stack) /\ cb' = Last(stack) /\ at' = at
       \/ stack' = <<>> /\ cb' = cb

\* run() owns before it starts the virtual machine, and stops it before it restores.
LEMMA StartOrder ==
    ASSUME CardTypes, at \in DOMAIN workflow
    PROVE  /\ workflow[at] = "own" => \A j \in DOMAIN workflow : j < at => workflow[j] \notin Starters
           /\ workflow[at] = "restore" =>
                 \A j \in DOMAIN workflow : j < at /\ workflow[j] \in Starters =>
                    \E k \in j..(at - 1) : workflow[k] = "vmstop"
<1>1. workflow \in Workflows
    BY DEF CardTypes
<1>2. \A j : j \in 1..(at - 1) <=> j \in DOMAIN workflow /\ j < at
    BY WorkflowTyped DEF CardTypes
<1> QED
    BY <1>1, <1>2, CardAssumption DEF Starters

\* The virtual machine is stopped before the card is restored, by the workflow and by the stack.
LEMMA OrderKept ==
    ASSUME UndoInv, CardTypes, WorkloadInv, OrderStep
    PROVE  WorkloadInv'
<1>1. at \in Nat /\ DOMAIN workflow \subseteq Nat /\ workflow' = workflow
    BY WorkflowTyped DEF CardTypes, OrderStep
<1>2. stack \in Seq(Undos) /\ Len(stack) \in Nat /\ DOMAIN stack = 1..Len(stack)
    BY DEF UndoInv, Shape
<1>3. ASSUME WorkloadAlive', pc' = "work"
      PROVE  \E j \in DOMAIN workflow :
                /\ j <= at' /\ workflow[j] \in Starters
                /\ \A k \in j..(at' - 1) : workflow[k] \notin Enders
  <2>1. CASE at' = at /\ at \in DOMAIN workflow /\ workflow[at] \in Starters
    BY <1>1, <2>1
  <2>2. CASE pc = "work" /\ WorkloadAlive /\ (at' = at \/ workflow[at] \notin Enders)
    <3>1. PICK j \in DOMAIN workflow :
                /\ j <= at /\ workflow[j] \in Starters
                /\ \A k \in j..(at - 1) : workflow[k] \notin Enders
      BY <2>2 DEF WorkloadInv, Starters, Enders
    <3>2. CASE at' = at
      BY <3>1, <3>2
    <3>3. CASE at' # at
      <4>1. at' = at + 1 /\ workflow[at] \notin Enders
        BY <2>2, <3>3 DEF OrderStep
      <4>2. j <= at' /\ \A k \in j..(at' - 1) : workflow[k] \notin Enders
        BY <1>1, <3>1, <4>1
      <4> QED
        BY <3>1, <4>2
    <3> QED
      BY <3>2, <3>3
  <2> QED
    BY <1>3, <2>1, <2>2 DEF OrderStep
<1>4. at' >= at
    BY <1>1 DEF OrderStep
<1>5. "workload" \in Range(stack) => \E j \in DOMAIN workflow : j < at' /\ workflow[j] \in Starters
    BY <1>1, <1>4 DEF WorkloadInv, Starters, OrderStep
<1> DEFINE Ordered(s) ==
        \A i, j \in DOMAIN s : s[i] = "workload" /\ s[j] = "restore" => j < i
<1>6. /\ "workload" \in Range(stack') => \E j \in DOMAIN workflow : j < at' /\ workflow[j] \in Starters
      /\ Ordered(stack')
      /\ cb' = "restore" => "workload" \notin Range(stack')
  <2>1. Ordered(stack) /\ (cb = "restore" => "workload" \notin Range(stack))
    BY DEF WorkloadInv
  <2>2. CASE stack' = stack /\ cb' \in {cb, None}
    BY <1>5, <2>1, <2>2 DEF None
  <2>3. ASSUME NEW r \in Undos,
               stack' = Append(stack, r), cb' = cb, cb = None, at \in DOMAIN workflow,
               r = "workload" => at' = at + 1 /\ workflow[at] \in Starters,
               r = "restore" => workflow[at] = "own"
        PROVE  /\ "workload" \in Range(stack') =>
                     \E j \in DOMAIN workflow : j < at' /\ workflow[j] \in Starters
               /\ Ordered(stack')
               /\ cb' = "restore" => "workload" \notin Range(stack')
    <3>1. Range(stack') = Range(stack) \union {r}
      BY <1>2, <2>3, RangeAppend
    <3>2. /\ DOMAIN stack' = 1..(Len(stack) + 1) /\ stack'[Len(stack) + 1] = r
          /\ \A i \in 1..Len(stack) : stack'[i] = stack[i]
      BY <1>2, <2>3
    <3>3. r = "workload" => \E j \in DOMAIN workflow : j < at' /\ workflow[j] \in Starters
      BY <1>1, <2>3
    <3>4. r = "restore" => "workload" \notin Range(stack)
      BY <2>3, StartOrder DEF WorkloadInv, Starters, Enders
    <3>5. r = "restore" => \A i \in 1..Len(stack) : stack[i] # "workload"
      BY <1>2, <3>4 DEF Range
    <3>6. Ordered(stack')
      <4> SUFFICES ASSUME NEW i \in 1..(Len(stack) + 1), NEW j \in 1..(Len(stack) + 1),
                          stack'[i] = "workload", stack'[j] = "restore"
                   PROVE  j < i
        BY <3>2
      <4>1. CASE i \in 1..Len(stack) /\ j \in 1..Len(stack)
        BY <1>2, <2>1, <3>2, <4>1
      <4>2. CASE i = Len(stack) + 1
        BY <1>2, <3>2, <4>2
      <4>3. CASE j = Len(stack) + 1 /\ i \in 1..Len(stack)
        BY <3>2, <3>5, <4>3
      <4> QED
        BY <1>2, <4>1, <4>2, <4>3
    <3> QED
      BY <1>5, <2>3, <3>1, <3>3, <3>6 DEF None
  <2>4. CASE stack # <<>> /\ stack' = Front(stack) /\ cb' = Last(stack) /\ at' = at
    <3>1. Len(stack) > 0 /\ Last(stack) = stack[Len(stack)]
      BY <1>2, <2>4 DEF Last
    <3>2. /\ Len(stack') = Len(stack) - 1 /\ DOMAIN stack' = 1..(Len(stack) - 1)
          /\ \A i \in 1..(Len(stack) - 1) : stack'[i] = stack[i]
      <4>1. stack' = SubSeq(stack, 1, Len(stack) - 1)
        BY <2>4 DEF Front
      <4> QED
        BY <1>2, <3>1, <4>1
    <3>3. Range(stack') \subseteq Range(stack)
      BY <1>2, <3>2 DEF Range
    <3>4. Ordered(stack')
      BY <1>2, <2>1, <3>2
    <3>5. cb' = "restore" => "workload" \notin Range(stack')
      <4> SUFFICES ASSUME stack[Len(stack)] = "restore", NEW i \in 1..(Len(stack) - 1),
                          stack[i] = "workload"
                   PROVE  FALSE
        BY <2>4, <3>1, <3>2 DEF Range
      <4>1. Len(stack) < i
        BY <1>2, <2>1, <3>1
      <4> QED
        BY <1>2, <4>1
    <3> QED
      BY <1>5, <3>3, <3>4, <3>5
  <2>5. CASE stack' = <<>> /\ cb' = cb
    BY <2>5 DEF Range
  <2> QED
    BY <2>2, <2>3, <2>4, <2>5 DEF OrderStep
<1> QED
    BY <1>1, <1>3, <1>6 DEF WorkloadInv, Starters, Enders

\* A step that neither starts the workload nor changes the stack keeps the order.
LEMMA QuietOrder ==
    ASSUME UNCHANGED <<workflow, at, stack, workload>>, cb' \in {cb, None},
           pc' = "work" => pc = "work"
    PROVE  OrderStep
BY DEF OrderStep, Enders, WorkloadAlive

\* Resources are registered at the end of the stack.
LEMMA AcquireOrder ==
    ASSUME UndoInv, CardTypes, Acquire
    PROVE  OrderStep
<1> USE Names DEF At, Phase, NextStep, Raise, workload_vars
<1>1. pc = "work" /\ at \in DOMAIN workflow /\ at \in Nat /\ cb = None
    BY DEF Acquire, ModuleRefuse, ModuleInsert, ModuleRegister, Swapon, Modprobe, TraceMount,
       TraceRefuse, TraceMake, TraceInit, TraceInitFails, TraceRegister, TraceStart, ObserverStart,
       ObserverRegister, ObserverIsReady, WorkloadStart, WorkloadRegister, CardTypes, UndoInv, Shape, Closing
<1>2. ASSUME NEW m \in Modules, ModuleRefuse(m) \/ ModuleInsert(m) PROVE OrderStep
    BY <1>2, QuietOrder DEF ModuleRefuse, ModuleInsert
<1>3. ASSUME NEW m \in Modules, ModuleRegister(m) PROVE OrderStep
  <2>1. m \in Undos /\ m \notin {"workload", "restore", "wait", "vmstop"}
    BY SessionAssumption DEF Undos, Resources, FixedSteps
  <2> QED
    BY <1>1, <1>3, <2>1 DEF ModuleRegister, OrderStep, Enders, WorkloadAlive
<1>4. ASSUME TraceRefuse \/ TraceMake \/ TraceInit \/ TraceInitFails PROVE OrderStep
    BY <1>4, QuietOrder DEF TraceRefuse, TraceMake, TraceInit, TraceInitFails
<1>5. ASSUME TraceStart PROVE OrderStep
    BY <1>1, <1>5 DEF TraceStart, OrderStep, Enders, WorkloadAlive
<1>6. ASSUME TraceRegister \/ ObserverRegister PROVE OrderStep
  <2>1. PICK r \in {"trace", "observer"} : stack' = Append(stack, r)
    BY <1>6 DEF TraceRegister, ObserverRegister, Register
  <2>2. r \in Undos /\ r \notin {"workload", "restore"}
    BY DEF Undos, Resources
  <2> QED
    BY <1>1, <1>6, <2>1, <2>2 DEF TraceRegister, ObserverRegister, Register, OrderStep, Enders, WorkloadAlive
<1>7. ASSUME ObserverStart PROVE OrderStep
    BY <1>7, QuietOrder DEF ObserverStart
<1>8. ASSUME ObserverIsReady PROVE OrderStep
    BY <1>1, <1>8 DEF ObserverIsReady, OrderStep, Enders, WorkloadAlive
<1>9. ASSUME WorkloadStart PROVE OrderStep
    BY <1>1, <1>9 DEF WorkloadStart, OrderStep, Starters
<1>10. ASSUME WorkloadRegister PROVE OrderStep
  <2>1. "workload" \in Undos
    BY DEF Undos, Resources
  <2>2. /\ UNCHANGED <<workflow, pc, cb, workload>> /\ at' = at + 1
        /\ stack' = Append(stack, "workload") /\ workflow[at] \in Starters
    BY <1>10 DEF WorkloadRegister, Starters
  <2> QED
    BY <1>1, <2>1, <2>2 DEF OrderStep, Enders, WorkloadAlive, Starters
<1>11. ASSUME Brings PROVE OrderStep
  <2>1. UNCHANGED <<workflow, pc, stack, cb, workload>> /\ workflow[at] \notin Enders
    BY <1>11, BringStep DEF UndoInv, Enders
  <2>2. at' = at \/ at' = at + 1
    BY <1>11, BringStep DEF UndoInv
  <2> QED
    BY <1>1, <2>1, <2>2 DEF OrderStep, WorkloadAlive
<1> QED
    BY <1>2, <1>3, <1>4, <1>5, <1>6, <1>7, <1>8, <1>9, <1>10, <1>11 DEF Acquire, Brings

\* The workflow leaves vmstop only when the virtual machine has ended.
LEMMA ObserveOrder ==
    ASSUME UndoInv, CardTypes, Observe
    PROVE  OrderStep
<1> USE DEF At, Phase, NextStep, Raise, workload_vars
<1>1. pc = "work" /\ at \in DOMAIN workflow /\ at \in Nat
    BY DEF Observe, OpenGate, WaitWorkload, GuestRuns, VmStop, VmStopped, VmKill, CollectSignal,
       CollectObserver, CollectNoTrace, TraceStop, CollectTrace, CardTypes
<1>2. ASSUME OpenGate PROVE OrderStep
    BY <1>1, <1>2 DEF OpenGate, OrderStep, Enders, WorkloadAlive, WorkloadEnded, None
<1>3. ASSUME WaitWorkload \/ GuestRuns \/ CollectNoTrace \/ CollectTrace PROVE OrderStep
    BY <1>1, <1>3 DEF WaitWorkload, GuestRuns, CollectNoTrace, CollectTrace, OrderStep, Enders,
       WorkloadAlive, WorkloadEnded
<1>4. ASSUME VmStop PROVE OrderStep
    BY <1>4, QuietOrder DEF VmStop, Terminate
<1>5. ASSUME VmStopped PROVE OrderStep
    BY <1>1, <1>5 DEF VmStopped, OrderStep, Enders, WorkloadAlive
<1>6. ASSUME VmKill PROVE OrderStep
    BY <1>6 DEF VmKill, OrderStep
<1>7. ASSUME CollectSignal \/ CollectObserver \/ TraceStop PROVE OrderStep
    BY <1>7, QuietOrder DEF CollectSignal, CollectObserver, TraceStop
<1> QED
    BY <1>2, <1>3, <1>4, <1>5, <1>6, <1>7 DEF Observe

\* The clean-up takes the undos from the end of the stack.
LEMMA OtherOrder ==
    ASSUME UndoInv, CardTypes,
           \/ Cleanup \/ Publish \/ WorkFails \/ WorkDone
           \/ Audit \/ Own \/ Bind \/ Restore \/ Signal \/ SignalInBind
    PROVE  OrderStep
<1> USE DEF At, Phase, NextStep, Raise, Goto, Returns, Raises, Closing, workload_vars
<1>1. ASSUME PopCallback PROVE OrderStep
    BY <1>1 DEF PopCallback, OrderStep
<1>2. ASSUME NEW p \in {"observer", "workload"}, StopSignal(p) \/ StopWait(p) PROVE OrderStep
    BY <1>2, QuietOrder DEF StopSignal, StopWait, Terminate
<1>3. ASSUME NEW p \in {"observer", "workload"}, StopKill(p) PROVE OrderStep
    BY <1>3 DEF StopKill, OrderStep
<1>4. ASSUME TraceClose \/ TraceRemove \/ CallbackFails \/ CloseDone PROVE OrderStep
    BY <1>4, QuietOrder DEF TraceClose, TraceRemove, CallbackFails, CloseDone
<1>5. ASSUME NEW m \in Modules, ModuleRemove(m) PROVE OrderStep
    BY <1>5, QuietOrder DEF ModuleRemove
<1>6. ASSUME Publish \/ WorkFails \/ WorkDone PROVE OrderStep
    BY <1>6, QuietOrder DEF Publish, WorkFails, WorkDone, Finish, Save, Validate, WriteTemporary,
       Replace, SyncDirectory, PublishFails, RecordFailure, ReturnOwnership
<1>7. ASSUME Audit PROVE OrderStep
    BY <1>7 DEF Audit, OrderStep, Enders, WorkloadAlive
<1>8. ASSUME Own PROVE OrderStep
  <2>1. cb = None /\ "restore" \in Undos
    BY <1>8 DEF Own, UndoInv, Shape, Undos
  <2> QED
    BY <1>8, <2>1 DEF Own, OrderStep, Enders, WorkloadAlive
<1>9. ASSUME Bind PROVE OrderStep
  <2>1. CASE BindDone
    BY <1>9, <2>1 DEF Bind, BindDone, OrderStep, Enders, WorkloadAlive
  <2> QED
    BY <1>9, <2>1, QuietOrder DEF Bind, BindDown, BindDowned, BindDownUnnoticed, BindTouch, BindUnbind,
       BindVfio
<1>10. ASSUME Restore PROVE OrderStep
  <2>1. CASE RestoreDone
    BY <1>10, <2>1 DEF Restore, RestoreDone, Restoring, OrderStep, Enders, WorkloadAlive, UndoInv, Shape, None
  <2> QED
    BY <1>10, <2>1, QuietOrder DEF Restore, RestoreStart, RestoreUnbind, RestoreOverride, RestoreBind,
       RestoreProfile, RestoreFails
<1>11. ASSUME Signal \/ SignalInBind PROVE OrderStep
  <2>1. CASE SignalInClose
    BY <2>1 DEF SignalInClose, OrderStep, Enders, WorkloadAlive
  <2> QED
    BY <1>11, <2>1, QuietOrder DEF Signal, SignalInWorkflow, SignalInTraceInit, SignalInCallback,
       SignalInPublish, SignalAtEnd, SignalInBind
<1> QED
    BY <1>1, <1>2, <1>3, <1>4, <1>5, <1>6, <1>7, <1>8, <1>9, <1>10, <1>11 DEF Cleanup

\* The workload's undo is always the one that runs first.
LEMMA WorkloadInvariant == VtdSpec => []WorkloadInv
<1>1. VtdInit => WorkloadInv
  <2> SUFFICES ASSUME VtdInit PROVE WorkloadInv
    OBVIOUS
  <2>1. pc = "idle" /\ cb = None /\ stack = <<>>
    BY DEF VtdInit, SessionInit
  <2>2. Range(stack) = {} /\ DOMAIN stack = {}
    BY <2>1 DEF Range
  <2> QED
    BY <2>1, <2>2 DEF WorkloadInv
<1>2. UndoInv /\ CardInv /\ WorkloadInv /\ [VtdNext]_vtd_vars => WorkloadInv'
  <2> SUFFICES ASSUME UndoInv, CardInv, WorkloadInv, [VtdNext]_vtd_vars PROVE WorkloadInv'
    OBVIOUS
  <2>1. CardTypes
    BY DEF CardInv
  <2>2. ASSUME VtdBegin PROVE WorkloadInv'
    <3>1. stack' = <<>> /\ cb' = None /\ workload' = None
      BY <2>2 DEF VtdBegin, Begin
    <3>2. Range(stack') = {} /\ DOMAIN stack' = {} /\ ~WorkloadAlive'
      BY <3>1 DEF Range, WorkloadAlive
    <3> QED
      BY <3>1, <3>2 DEF WorkloadInv
  <2>3. ASSUME Environment PROVE OrderStep
    BY <2>3, EnvironmentStep DEF control_vars, OrderStep
  <2>4. ASSUME VtdController \/ VtdSignal PROVE OrderStep
    BY <2>1, <2>4, AcquireOrder, ObserveOrder, OtherOrder DEF VtdController, Controller, VtdSignal
  <2>5. ASSUME UNCHANGED vtd_vars PROVE OrderStep
    BY <2>5 DEF vtd_vars, session_vars, control_vars, workload_vars, OrderStep, Enders, WorkloadAlive
  <2> QED
    BY <2>1, <2>2, <2>3, <2>4, <2>5, OrderKept DEF VtdNext
<1> QED
    BY <1>1, <1>2, UndoInvariant, CardInvariant, PTL DEF VtdSpec

(***************************************************************************)
(* restore() never waits for a virtual machine the session still has to    *)
(* stop itself: run() has stopped it, or its undo has run already.         *)
(***************************************************************************)
THEOREM QemuNeverBlocksRestore == VtdSpec => []RestoreNeverWaitsForQemu
<1>1. UndoInv /\ CardInv /\ WorkloadInv => RestoreNeverWaitsForQemu
  <2> SUFFICES ASSUME UndoInv, CardInv, WorkloadInv, Restoring("unbind"), WorkloadAlive
               PROVE  "workload" \in lost
    BY DEF RestoreNeverWaitsForQemu, Blocked, Held
  <2>1. CASE At("restore", "unbind")
    <3>1. CardTypes /\ pc = "work" /\ at \in DOMAIN workflow /\ workflow[at] = "restore"
      BY <2>1 DEF CardInv, At
    <3>2. PICK j \in DOMAIN workflow :
             /\ j <= at /\ workflow[j] \in Starters
             /\ \A k \in j..(at - 1) : workflow[k] \notin Enders
      BY <3>1 DEF WorkloadInv, Starters, Enders
    <3>3. j < at
      BY <3>1, <3>2, WorkflowTyped DEF CardTypes, Starters
    <3> QED
      BY <3>1, <3>2, <3>3, StartOrder DEF Enders
  <2>2. CASE Closing /\ cb = "restore"
    <3>1. "workload" \in Resources /\ Present("workload")
      BY DEF Resources, Present
    <3>2. Undone("workload")
      BY <3>1 DEF UndoInv
    <3>3. "workload" \notin Range(stack) /\ ~Pending("workload")
      BY <2>2 DEF WorkloadInv, Pending, Closing
    <3> QED
      BY <2>2, <3>2, <3>3 DEF Undone
  <2> QED
    BY <2>1, <2>2 DEF Restoring
<1> QED
    BY <1>1, UndoInvariant, CardInvariant, WorkloadInvariant, PTL

-----------------------------------------------------------------------------
\* What the order of a run() says of the step the workflow is at.
LEMMA CollectOrder ==
    ASSUME CardTypes, NEW i \in DOMAIN workflow
    PROVE  /\ workflow[i] \in {"trace", "observer"} =>
                 /\ \A j \in DOMAIN workflow :
                       j < i => workflow[j] \notin {workflow[i], "workload", "vm", "collect"}
                 /\ \E j \in DOMAIN workflow : workflow[j] = "collect"
           /\ workflow[i] \in {"workload", "vm", "collect"} =>
                 \A j \in DOMAIN workflow : j < i => workflow[j] # "collect"
           /\ workflow[i] = "collect" =>
                 \A j \in DOMAIN workflow : j < i /\ workflow[j] \in Starters =>
                    \E k \in j..(i - 1) : workflow[k] \in Enders
<1>1. workflow \in Workflows
    BY DEF CardTypes
<1>2. i \in Nat /\ DOMAIN workflow = 1..Len(workflow) /\ Len(workflow) \in Nat
    BY WorkflowTyped
<1>3. \A j \in DOMAIN workflow : j < i => j \in 1..(i - 1)
    BY <1>2
<1> QED
    BY <1>1, <1>3, CollectAssumption DEF Starters, Enders

\* When collect() has begun, the workload has ended.
LEMMA CollectMeansEnded ==
    ASSUME CardTypes, WorkloadInv, pc = "work", Reached("collect")
    PROVE  ~WorkloadAlive
<1> SUFFICES ASSUME WorkloadAlive PROVE FALSE
    OBVIOUS
<1>1. DOMAIN workflow \subseteq Nat /\ at \in Nat
    BY WorkflowTyped DEF CardTypes
<1>2. PICK j \in DOMAIN workflow :
         /\ j <= at /\ workflow[j] \in Starters
         /\ \A k \in j..(at - 1) : workflow[k] \notin Enders
    BY DEF WorkloadInv, Starters, Enders
<1>3. PICK c \in DOMAIN workflow : c <= at /\ workflow[c] = "collect"
    BY DEF Reached
<1>4. ~(c < j)
    BY <1>2, <1>3, CollectOrder DEF Starters
<1>5. j < c
    BY <1>1, <1>2, <1>3, <1>4 DEF Starters
<1>6. PICK k \in j..(c - 1) : workflow[k] \in Enders
    BY <1>2, <1>3, <1>5, CollectOrder
<1>7. k \in j..(at - 1)
    BY <1>1, <1>3, <1>6
<1> QED
    BY <1>2, <1>6, <1>7

\* The collectors of the workflow are in place before anything can cause a record.
LEMMA CollectorsFirst ==
    ASSUME CardTypes, Reached("workload") \/ Reached("vm"), NEW c \in {"trace", "observer"}, Uses(c)
    PROVE  Passed(c)
<1>1. DOMAIN workflow \subseteq Nat /\ at \in Nat
    BY WorkflowTyped DEF CardTypes
<1>2. PICK j \in DOMAIN workflow : j <= at /\ workflow[j] \in Starters
    BY DEF Reached, Starters
<1>3. PICK i \in DOMAIN workflow : workflow[i] = c
    BY DEF Uses
<1>4. ~(j < i)
    BY <1>2, <1>3, CollectOrder DEF Starters
<1>5. i # j
    BY <1>2, <1>3 DEF Starters
<1> QED
    BY <1>1, <1>2, <1>3, <1>4, <1>5 DEF Passed

\* The step of a collector comes once, and before the workload and collect().
LEMMA CollectorOnce ==
    ASSUME CardTypes, at \in DOMAIN workflow, workflow[at] \in {"trace", "observer"}
    PROVE  /\ ~Passed(workflow[at]) /\ Reached(workflow[at]) /\ Uses(workflow[at])
           /\ ~Reached("workload") /\ ~Reached("vm") /\ ~Reached("collect") /\ Uses("collect")
<1>1. DOMAIN workflow \subseteq Nat /\ at \in Nat
    BY WorkflowTyped DEF CardTypes
<1>2. \A j \in DOMAIN workflow : j <= at => j < at \/ j = at
    BY <1>1
<1>3. /\ \A j \in DOMAIN workflow : j < at => workflow[j] \notin {workflow[at], "workload", "vm", "collect"}
      /\ \E j \in DOMAIN workflow : workflow[j] = "collect"
    BY CollectOrder
<1> QED
    BY <1>1, <1>2, <1>3 DEF Passed, Reached, Uses

\* So do the steps that start the workload, and collect() itself.
LEMMA CollectOnce ==
    ASSUME CardTypes, at \in DOMAIN workflow
    PROVE  /\ workflow[at] \in Starters => ~Reached("collect") /\ (Reached("workload") \/ Reached("vm"))
           /\ workflow[at] = "collect" => ~Passed("collect") /\ Reached("collect")
<1>1. DOMAIN workflow \subseteq Nat /\ at \in Nat
    BY WorkflowTyped DEF CardTypes
<1>2. \A j \in DOMAIN workflow : j <= at => j < at \/ j = at
    BY <1>1
<1>3. workflow[at] \in {"workload", "vm", "collect"} =>
         \A j \in DOMAIN workflow : j < at => workflow[j] # "collect"
    BY CollectOrder
<1> QED
    BY <1>1, <1>2, <1>3 DEF Passed, Reached, Starters

\* What has been reached stays so.
LEMMA ReachedStays ==
    ASSUME CardTypes, OrderStep, NEW s
    PROVE  (Reached(s) => Reached(s)') /\ (Passed(s) => Passed(s)') /\ (Uses(s)' <=> Uses(s))
<1>1. DOMAIN workflow \subseteq Nat /\ at \in Nat /\ workflow' = workflow
    BY WorkflowTyped DEF CardTypes, OrderStep
<1>2. at' >= at /\ at' \in Nat
    BY <1>1 DEF OrderStep
<1> QED
    BY <1>1, <1>2 DEF Reached, Passed, Uses

\* A step that ends a workflow step adds that one to what has been passed.
LEMMA PassedStep ==
    ASSUME CardTypes, OrderStep, NEW s, Passed(s)'
    PROVE  Passed(s) \/ (at' = at + 1 /\ at \in DOMAIN workflow /\ workflow[at] = s)
<1>1. workflow' = workflow
    BY DEF OrderStep
<1>2. CASE at' = at
    BY <1>1, <1>2 DEF Passed
<1>3. CASE at' # at
    BY <1>1, <1>3, PassedNext DEF OrderStep
<1> QED
    BY <1>2, <1>3

-----------------------------------------------------------------------------
\* Nothing has been caused yet.
LEMMA NumberedNone == Numbered(<<>>, <<>>, 0)
BY DEF Numbered

\* One more record goes to the end of the buffer.
LEMMA NumberedAppend ==
    ASSUME NEW s \in Seq(Nat), NEW t \in Seq(Nat), NEW n \in Nat, Numbered(s, t, n)
    PROVE  Numbered(s, Append(t, n + 1), n + 1)
<1>1. Len(s) \in Nat /\ Len(t) \in Nat /\ n + 1 \in Nat
    OBVIOUS
<1>2. Len(s) + Len(t) = n /\ \A i \in 1..Len(t) : t[i] = Len(s) + i
    BY DEF Numbered
<1>3. PICK u : u = Append(t, n + 1)
    OBVIOUS
<1>4. /\ Len(u) = Len(t) + 1 /\ u[Len(t) + 1] = n + 1
      /\ \A i \in 1..Len(t) : u[i] = t[i]
    BY <1>1, <1>3
<1>5. Len(s) + Len(u) = n + 1
  <2>1. Len(u) = Len(t) + 1 /\ Len(u) \in Nat /\ Len(s) + Len(t) = n
    BY <1>1, <1>2, <1>4
  <2> QED
    BY <1>1, <2>1
<1>6. ASSUME NEW i \in 1..Len(u) PROVE u[i] = Len(s) + i
  <2>1. CASE i \in 1..Len(t)
    BY <1>2, <1>4, <2>1
  <2>2. CASE i = Len(t) + 1
    <3>1. u[i] = n + 1 /\ Len(s) + Len(t) = n
      BY <1>2, <1>4, <2>2
    <3>2. Len(s) + i = n + 1
      BY <1>1, <2>2, <3>1
    <3> QED
      BY <3>1, <3>2
  <2> QED
    BY <1>1, <1>4, <2>1, <2>2
<1>7. Numbered(s, u, n + 1)
    BY <1>5, <1>6 DEF Numbered
<1> QED
    BY <1>3, <1>7

\* Reading the buffer moves its records to the end of the file.
LEMMA NumberedMove ==
    ASSUME NEW s \in Seq(Nat), NEW t \in Seq(Nat), NEW n \in Nat, Numbered(s, t, n)
    PROVE  Numbered(s \o t, <<>>, n)
<1>1. Len(s) \in Nat /\ Len(t) \in Nat
    OBVIOUS
<1>2. /\ s \o t \in Seq(Nat) /\ Len(s \o t) = Len(s) + Len(t)
      /\ \A i \in 1..Len(s) + Len(t) :
            (s \o t)[i] = IF i <= Len(s) THEN s[i] ELSE t[i - Len(s)]
    BY ConcatProperties, Zenon
<1>3. PICK u : u = s \o t
    OBVIOUS
<1>4. Len(u) = n
    BY <1>2, <1>3 DEF Numbered
<1>5. ASSUME NEW i \in 1..Len(u) PROVE u[i] = i
  <2>1. i \in 1..Len(s) + Len(t)
    BY <1>1, <1>2, <1>3
  <2>2. CASE i <= Len(s)
    BY <1>1, <1>2, <1>3, <2>1, <2>2 DEF Numbered
  <2>3. CASE ~(i <= Len(s))
    <3>1. i - Len(s) \in 1..Len(t)
      BY <1>1, <2>1, <2>3
    <3> QED
      BY <1>1, <1>2, <1>3, <2>1, <2>3, <3>1 DEF Numbered
  <2> QED
    BY <2>2, <2>3
<1>6. Numbered(u, <<>>, n)
    BY <1>4, <1>5 DEF Numbered
<1> QED
    BY <1>3, <1>6

-----------------------------------------------------------------------------
\* Only the step that starts the workload brings it to life.
LEMMA WorkloadSource ==
    ASSUME VtdController \/ VtdSignal, WorkloadAlive'
    PROVE  WorkloadAlive \/ (at \in DOMAIN workflow /\ workflow[at] \in Starters)
<1> USE DEF workload_vars, WorkloadAlive
<1>1. ASSUME Acquire PROVE UNCHANGED workload \/ WorkloadStart
    BY <1>1 DEF Acquire, ModuleRefuse, ModuleInsert, ModuleRegister, Swapon, Modprobe, TraceMount,
       TraceRefuse, TraceMake, TraceInit, TraceInitFails, TraceRegister, TraceStart, ObserverStart,
       ObserverRegister, ObserverIsReady, WorkloadRegister
<1>2. ASSUME Observe PROVE UNCHANGED workload \/ OpenGate \/ VmKill
    BY <1>2 DEF Observe, WaitWorkload, GuestRuns, VmStop, VmStopped, CollectSignal,
       CollectObserver, CollectNoTrace, TraceStop, CollectTrace, Terminate
<1>3. ASSUME Cleanup PROVE UNCHANGED workload \/ \E p \in {"observer", "workload"} : StopKill(p)
    BY <1>3 DEF Cleanup, PopCallback, StopSignal, StopWait, TraceClose, TraceRemove,
       ModuleRemove, CallbackFails, CloseDone, Terminate
<1>4. ASSUME Publish \/ WorkFails \/ WorkDone PROVE UNCHANGED workload
    BY <1>4 DEF Publish, WorkFails, WorkDone, Finish, Save, Validate, WriteTemporary, Replace,
       SyncDirectory, PublishFails, RecordFailure, ReturnOwnership
<1>5. ASSUME Audit \/ Own \/ Bind \/ Restore \/ Signal \/ SignalInBind PROVE UNCHANGED workload
    BY <1>5 DEF Audit, Own, Bind, Restore, Signal, SignalInWorkflow, SignalInTraceInit,
       SignalInCallback, SignalInClose, SignalInPublish, SignalAtEnd, SignalInBind
<1>6. ASSUME WorkloadStart PROVE at \in DOMAIN workflow /\ workflow[at] \in Starters
    BY <1>6 DEF WorkloadStart, At, Starters
<1>7. ASSUME OpenGate PROVE WorkloadAlive
    BY <1>7 DEF OpenGate, WorkloadEnded, None
<1>8. ASSUME VmKill PROVE FALSE
    BY <1>8 DEF VmKill, Kill, WorkloadEnded
<1>9. ASSUME NEW p \in {"observer", "workload"}, StopKill(p) PROVE UNCHANGED workload
    BY <1>9 DEF StopKill, Kill, WorkloadEnded
<1> QED
    BY <1>1, <1>2, <1>3, <1>4, <1>5, <1>6, <1>7, <1>8, <1>9 DEF VtdController, Controller, VtdSignal

\* A process that runs causes records only while the workload is alive.
LEMMA EmissionSource ==
    ASSUME Environment
    PROVE  emitted' = emitted \/ (WorkloadAlive /\ Workload /\ Emit)
BY DEF Environment, Workload, WorkloadRuns, WorkloadEnds, WorkloadTerminates, Emit, Drain,
       workload_vars, WorkloadAlive, WorkloadEnded, None

\* Every step inside an attempt keeps the order, whoever takes it.
LEMMA AttemptOrder ==
    ASSUME UndoInv, CardTypes, Environment \/ VtdController \/ VtdSignal
    PROVE  OrderStep
<1>1. ASSUME Environment PROVE OrderStep
    BY <1>1, EnvironmentStep DEF control_vars, OrderStep
<1> QED
    BY <1>1, AcquireOrder, ObserveOrder, OtherOrder DEF VtdController, Controller, VtdSignal

\* Records come from a workload the workflow has started.
LEMMA CausedKept ==
    ASSUME UndoInv, CardTypes, CaptureTypes, CausedInv, Environment \/ VtdController \/ VtdSignal
    PROVE  CausedInv'
<1>1. OrderStep
    BY AttemptOrder
<1>2. \A s : Reached(s) => Reached(s)'
    BY <1>1, ReachedStays
<1>3. ASSUME Environment PROVE Caused' => Caused
    BY <1>3, EnvironmentStep, EmissionSource DEF Caused
<1>4. ASSUME VtdController \/ VtdSignal, Caused' PROVE Reached("workload") \/ Reached("vm")
  <2>1. UNCHANGED emitted
    BY <1>4, AcquireCapture, ObserveCapture, OtherCapture
       DEF VtdController, Controller, VtdSignal, CaptureStep
  <2>2. CASE Caused
    BY <2>2 DEF CausedInv
  <2>3. CASE ~Caused
    BY <1>4, <2>1, <2>3, WorkloadSource, CollectOnce DEF Caused
  <2> QED
    BY <2>2, <2>3
<1> QED
    BY <1>2, <1>3, <1>4 DEF CausedInv

-----------------------------------------------------------------------------
\* A step that leaves the observer and the records alone.
LEMMA ObserverFrame ==
    ASSUME CardTypes, OrderStep, ObserverInv, UNCHANGED <<observer_vars, emitted>>,
           pc' = "work" => pc = "work",
           ~(at' = at + 1 /\ at \in DOMAIN workflow /\ workflow[at] = "observer")
    PROVE  ObserverInv'
<1>1. Passed("observer")' => Passed("observer")
    BY PassedStep
<1>2. /\ Reached("observer") => Reached("observer")'
      /\ Reached("collect") => Reached("collect")'
    BY ReachedStays
<1>3. UNCHANGED <<observer, exiting, attached, ring, lab_dropped, lab_failures, err, out, control, unwritten>>
    BY DEF observer_vars
<1>4. workflow' = workflow
    BY DEF OrderStep
<1>5. ObserverStream => ObserverStream'
    BY <1>1, <1>2, <1>3, <1>4 DEF ObserverStream
<1> QED
    BY <1>3, <1>5 DEF ObserverInv

\* Outside the workflow nothing is claimed of the observer.
LEMMA ObserverOutside ==
    ASSUME ObserverInv, pc' # "work", UNCHANGED <<lab_dropped, lab_failures, err, unwritten>>,
           exiting' \in {exiting, TRUE}
    PROVE  ObserverInv'
BY DEF ObserverInv

\* Session.observer() starts from nothing and waits until the probes are in place.
LEMMA ObserverAcquire ==
    ASSUME CardTypes, UndoInv, CaptureTypes, ObserverInv, CausedInv, OrderStep, Acquire
    PROVE  ObserverInv'
<1> USE DEF At, Phase, NextStep, Raise, workload_vars
<1>1. at \in Nat
    BY DEF CardTypes
<1>2. ASSUME NEW m \in Modules, ModuleRefuse(m) \/ ModuleInsert(m) \/ ModuleRegister(m)
      PROVE  ObserverInv'
    BY <1>2, ObserverFrame, Names DEF ModuleRefuse, ModuleInsert, ModuleRegister
<1>3. ASSUME TraceRefuse \/ TraceMake \/ TraceInit \/ TraceInitFails \/ TraceRegister \/ TraceStart
      PROVE  ObserverInv'
    BY <1>3, ObserverFrame DEF TraceRefuse, TraceMake, TraceInit, TraceInitFails, TraceRegister,
       TraceStart, Register
<1>4. ASSUME ObserverStart PROVE ObserverInv'
  <2>1. /\ pc = "work" /\ at \in DOMAIN workflow /\ workflow[at] = "observer"
        /\ UNCHANGED <<workflow, at, pc>>
        /\ observer' = "starting" /\ exiting' = FALSE /\ attached' = FALSE /\ ring' = <<>> /\ out' = <<>>
        /\ lab_dropped' = 0 /\ lab_failures' = 0 /\ err' = FALSE /\ control' = {}
        /\ unwritten' = FALSE
    BY <1>4 DEF ObserverStart, ObserverSpawn
  <2>2. ~Passed("observer") /\ Reached("observer")
    BY <2>1, CollectorOnce
  <2>3. ~Passed("observer")' /\ Reached("observer")'
    BY <2>1, <2>2 DEF Passed, Reached
  <2>4. /\ observer' \notin ObserverUp /\ "LX_READY" \notin control' /\ ~exiting' /\ ~attached'
        /\ observer' \notin {"polling", "draining", "reporting", "closing", "ok"}
    BY <2>1 DEF ObserverUp
  <2>5. ObserverStream'
    BY <2>1, <2>3, <2>4 DEF ObserverStream
  <2> QED
    BY <2>1, <2>5 DEF ObserverInv
<1>5. ASSUME ObserverRegister PROVE ObserverInv'
    BY <1>1, <1>5, ObserverFrame DEF ObserverRegister, Register
<1>6. ASSUME ObserverIsReady PROVE ObserverInv'
  <2>1. /\ pc = "work" /\ "LX_READY" \in control /\ control' \subseteq control /\ pc' = pc
        /\ UNCHANGED <<observer, exiting, attached, ring, lab_dropped, lab_failures, err, out, emitted, unwritten>>
    BY <1>6 DEF ObserverIsReady
  <2>2. ObserverStream /\ observer \notin ObserverDown
    BY <2>1 DEF ObserverInv, ObserverStream
  <2>3. /\ Reached("collect") => Reached("collect")'
        /\ Reached("observer") => Reached("observer")'
    BY ReachedStays
  <2>4. workflow' = workflow
    BY DEF OrderStep
  <2>5. ObserverStream'
    BY <2>1, <2>2, <2>3, <2>4 DEF ObserverStream, ObserverDown
  <2> QED
    BY <2>1, <2>5 DEF ObserverInv
<1>7. ASSUME WorkloadStart PROVE ObserverInv'
    BY <1>1, <1>7, ObserverFrame DEF WorkloadStart
<1>8. ASSUME WorkloadRegister PROVE ObserverInv'
    BY <1>8, ObserverFrame DEF WorkloadRegister
<1>9. ASSUME Brings PROVE ObserverInv'
    BY <1>9, BringStep, ObserverFrame DEF UndoInv
<1> QED
    BY <1>2, <1>3, <1>4, <1>5, <1>6, <1>7, <1>8, <1>9 DEF Acquire, Brings

\* Only collect() tells the observer to stop.
LEMMA ObserverObserve ==
    ASSUME CardTypes, CaptureTypes, ObserverInv, OrderStep, Observe
    PROVE  ObserverInv'
<1> USE DEF At, Phase, NextStep, Raise, workload_vars
<1>1. at \in Nat
    BY DEF CardTypes
<1>2. ASSUME OpenGate \/ WaitWorkload \/ GuestRuns \/ VmStopped PROVE ObserverInv'
    BY <1>2, ObserverFrame DEF OpenGate, WaitWorkload, GuestRuns, VmStopped
<1>3. ASSUME VmStop \/ VmKill PROVE ObserverInv'
    BY <1>3, ObserverFrame DEF VmStop, VmKill, Terminate, Kill
<1>4. ASSUME CollectNoTrace \/ TraceStop \/ CollectTrace PROVE ObserverInv'
    BY <1>4, ObserverFrame DEF CollectNoTrace, TraceStop, CollectTrace
<1>5. ASSUME CollectSignal PROVE ObserverInv'
  <2>1. /\ pc = "work" /\ at \in DOMAIN workflow /\ workflow[at] = "collect"
        /\ UNCHANGED <<workflow, at, pc, emitted>>
        /\ IF ObserverAlive THEN ObserverInterrupted ELSE UNCHANGED observer_vars
    BY <1>5 DEF CollectSignal
  <2>2. CASE UNCHANGED observer_vars
    BY <1>1, <2>1, <2>2, ObserverFrame
  <2>3. CASE ObserverInterrupted
    <3>1. ObserverStream /\ Reached("collect")'
      BY <2>1, CollectOnce, ReachedStays DEF ObserverInv
    <3>2. Passed("observer")' <=> Passed("observer")
      BY <2>1 DEF Passed
    <3>3. Reached("observer") => Reached("observer")'
      BY ReachedStays
    <3>4. CASE observer = "starting"
      <4>1. /\ observer' = "failed"
            /\ UNCHANGED <<exiting, attached, ring, lab_dropped, lab_failures, err, out, control, unwritten>>
        BY <2>3, <3>4 DEF ObserverInterrupted
      <4>2. ObserverStream'
        BY <3>1, <3>2, <3>3, <3>4, <4>1 DEF ObserverStream, ObserverDown, ObserverUp
      <4> QED
        BY <4>1, <4>2 DEF ObserverInv
    <3>5. CASE observer # "starting"
      <4>1. /\ exiting' = TRUE
            /\ UNCHANGED <<observer, attached, ring, lab_dropped, lab_failures, err, out, control, unwritten>>
        BY <2>3, <3>5 DEF ObserverInterrupted
      <4>2. ObserverStream'
        BY <2>1, <3>1, <3>2, <3>3, <4>1 DEF ObserverStream
      <4> QED
        BY <4>1, <4>2 DEF ObserverInv
    <3> QED
      BY <3>4, <3>5
  <2> QED
    BY <2>1, <2>2, <2>3
<1>6. ASSUME CollectObserver PROVE ObserverInv'
  <2>1. /\ pc = "work" /\ pc' = pc /\ control' \subseteq control /\ at' = at /\ workflow' = workflow
        /\ UNCHANGED <<observer, exiting, attached, ring, lab_dropped, lab_failures, err, out, emitted, unwritten>>
    BY <1>6 DEF CollectObserver
  <2>2. ObserverStream
    BY <2>1 DEF ObserverInv
  <2>3. /\ Passed("observer")' <=> Passed("observer")
        /\ Reached("observer")' <=> Reached("observer")
        /\ Reached("collect")' <=> Reached("collect")
    BY <2>1 DEF Passed, Reached
  <2>4. ObserverStream'
    BY <2>1, <2>2, <2>3 DEF ObserverStream
  <2> QED
    BY <2>1, <2>4 DEF ObserverInv
<1> QED
    BY <1>2, <1>3, <1>4, <1>5, <1>6 DEF Observe

\* The rest of the controller leaves the observer alone until the workflow is over.
LEMMA ObserverOther ==
    ASSUME CardTypes, ObserverInv, OrderStep,
           \/ Cleanup \/ Publish \/ WorkFails \/ WorkDone
           \/ Audit \/ Own \/ Bind \/ Restore \/ Signal \/ SignalInBind
    PROVE  ObserverInv'
<1> USE DEF At, Phase, NextStep, Raise, Goto, Returns, Raises, Closing, workload_vars
<1>1. ASSUME Cleanup PROVE ObserverInv'
  <2>1. pc' # "work"
    BY <1>1 DEF Cleanup, PopCallback, StopSignal, StopWait, StopKill, TraceClose, TraceRemove,
       ModuleRemove, CallbackFails, CloseDone
  <2>2. UNCHANGED <<lab_dropped, lab_failures, err, unwritten>> /\ exiting' \in {exiting, TRUE}
    BY <1>1 DEF Cleanup, PopCallback, StopSignal, StopWait, StopKill, TraceClose, TraceRemove,
       ModuleRemove, CallbackFails, CloseDone, Terminate, Kill, ObserverInterrupted, ObserverKilled,
       observer_vars
  <2> QED
    BY <2>1, <2>2, ObserverOutside
<1>2. ASSUME Publish \/ WorkFails \/ WorkDone PROVE ObserverInv'
  <2>1. pc' # "work" /\ UNCHANGED observer_vars
    BY <1>2 DEF Publish, WorkFails, WorkDone, Finish, Save, Validate, WriteTemporary, Replace,
       SyncDirectory, PublishFails, RecordFailure, ReturnOwnership
  <2> QED
    BY <2>1, ObserverOutside DEF observer_vars
<1>3. ASSUME Audit \/ Own PROVE ObserverInv'
    BY <1>3, ObserverFrame DEF Audit, Own
<1>4. ASSUME Bind PROVE ObserverInv'
  <2>1. /\ UNCHANGED <<observer_vars, emitted>> /\ workflow[at] = "bind" /\ pc = "work"
    BY <1>4 DEF Bind, BindDown, BindDowned, BindDownUnnoticed, BindTouch, BindUnbind, BindVfio, BindDone
  <2> QED
    BY <2>1, ObserverFrame
<1>5. ASSUME Restore PROVE ObserverInv'
  <2>1. UNCHANGED <<observer_vars, emitted, pc>> /\ (workflow[at] = "restore" \/ pc # "work")
    BY <1>5 DEF Restore, RestoreStart, RestoreUnbind, RestoreOverride, RestoreBind, RestoreProfile,
       RestoreDone, RestoreFails, Restoring
  <2>2. CASE pc = "work"
    BY <2>1, <2>2, ObserverFrame
  <2>3. CASE pc # "work"
    BY <2>1, <2>3, ObserverOutside DEF observer_vars
  <2> QED
    BY <2>2, <2>3
<1>6. ASSUME Signal \/ SignalInBind PROVE ObserverInv'
  <2>1. pc' # "work" /\ UNCHANGED observer_vars
    BY <1>6 DEF Signal, SignalInWorkflow, SignalInTraceInit, SignalInCallback, SignalInClose,
       SignalInPublish, SignalAtEnd, SignalInBind
  <2> QED
    BY <2>1, ObserverOutside DEF observer_vars
<1> QED
    BY <1>1, <1>2, <1>3, <1>4, <1>5, <1>6

\* Nothing has been caused while the observer is on its way up.
LEMMA NothingBeforeReady ==
    ASSUME CardTypes, CaptureTypes, CausedInv, ObserverStream,
           observer \in {"starting", "loading"} 
    PROVE  emitted = 0
<1>1. ~Passed("observer") /\ Reached("observer")
    BY DEF ObserverStream, ObserverDown
<1>2. Uses("observer")
    BY <1>1 DEF Reached, Uses
<1>3. ~Caused
    BY <1>1, <1>2, CollectorsFirst DEF CausedInv
<1> QED
    BY <1>3 DEF Caused, CaptureTypes

\* main() of the observer: what it reads goes to its file, what it loses it counts.
LEMMA ObserverRuns ==
    ASSUME CardTypes, CaptureTypes, CausedInv, ObserverInv, ObserverStream,
           ObserverStep(workflow \notin Careless), UNCHANGED <<control_vars, workload_vars>>
    PROVE  ObserverStream'
<1>1. /\ ring \in Seq(Nat) /\ out \in Seq(Nat) /\ emitted \in Nat
      /\ lab_dropped \in Nat /\ lab_failures \in Nat /\ err \in BOOLEAN
    BY DEF CaptureTypes, ObserverInv
<1>2. UNCHANGED <<at, workflow, emitted>>
    BY DEF control_vars, workload_vars
<1>3. /\ Passed("observer")' <=> Passed("observer")
      /\ Reached("observer")' <=> Reached("observer")
      /\ Reached("collect")' <=> Reached("collect")
    BY <1>2 DEF Passed, Reached
<1>13. ASSUME Consume
       PROVE  /\ unwritten' = unwritten /\ ring' = <<>>
              /\ Numbered(out, ring, emitted) => Numbered(out, ring, emitted)'
  <2>1. out' = out \o ring /\ ring' = <<>> /\ unwritten' = unwritten
    BY <1>13 DEF Consume
  <2> QED
    BY <1>1, <1>2, <2>1, NumberedMove
<1>14. ASSUME ConsumeShort PROVE unwritten' = TRUE /\ ring' = <<>>
    BY <1>14 DEF ConsumeShort
<1>4. ASSUME ObserverSetup PROVE ObserverStream'
    BY <1>2, <1>3, <1>4 DEF ObserverSetup, ObserverStream, ObserverDown, ObserverUp
<1>5. ASSUME ObserverReady PROVE ObserverStream'
  <2>1. /\ observer = "loading" /\ observer' = "polling" /\ attached'
        /\ UNCHANGED <<exiting, ring, lab_dropped, lab_failures, err, out, unwritten>>
    BY <1>5 DEF ObserverReady
  <2>2. emitted = 0 /\ ring = <<>> /\ out = <<>> /\ Reached("observer")
    BY <2>1, NothingBeforeReady DEF ObserverStream, ObserverDown
  <2>3. Numbered(out, ring, emitted)'
    BY <1>2, <2>1, <2>2, NumberedNone
  <2> QED
    BY <1>3, <2>1, <2>2, <2>3 DEF ObserverStream, ObserverDown
<1>6. ASSUME ObserverSetupFails PROVE ObserverStream'
  <2>1. /\ observer = "loading" /\ observer' = "failed"
        /\ UNCHANGED <<exiting, ring, lab_dropped, lab_failures, err, out, unwritten>>
    BY <1>6 DEF ObserverSetupFails
  <2> QED
    BY <1>3, <2>1 DEF ObserverStream, ObserverDown, ObserverUp
<1>7. ASSUME ObserverPoll(workflow \notin Careless) PROVE ObserverStream'
  <2>1. /\ observer = "polling" /\ observer' = observer
        /\ UNCHANGED <<exiting, attached, lab_dropped, lab_failures, err, control>>
    BY <1>7 DEF ObserverPoll
  <2>2. \/ unwritten' = unwritten /\ (Numbered(out, ring, emitted) => Numbered(out, ring, emitted)')
        \/ unwritten' = TRUE /\ workflow \in Careless
    BY <1>7, <1>13, <1>14 DEF ObserverPoll
  <2> QED
    BY <1>2, <1>3, <2>1, <2>2 DEF ObserverStream, ObserverDown, ObserverUp
<1>8. ASSUME ObserverPollFails PROVE ObserverStream'
  <2>1. /\ observer \in {"polling", "draining"} /\ observer' = "reporting" /\ err'
        /\ UNCHANGED <<exiting, attached, ring, lab_dropped, lab_failures, out, control, unwritten>>
    BY <1>8 DEF ObserverPollFails
  <2> QED
    BY <1>3, <2>1 DEF ObserverStream, ObserverDown
<1>9. ASSUME ObserverStops PROVE ObserverStream'
    BY <1>2, <1>3, <1>9 DEF ObserverStops, ObserverStream, ObserverDown, ObserverUp
<1>10. ASSUME ObserverDrain(workflow \notin Careless) PROVE ObserverStream'
  <2>1. /\ observer = "draining" /\ observer' \in {"reporting", "draining"} /\ (~err' => ~err)
        /\ UNCHANGED <<exiting, attached, lab_dropped, lab_failures, control>>
    BY <1>1, <1>10 DEF ObserverDrain
  <2>2. /\ ring' = <<>>
        /\ \/ unwritten' = unwritten /\ (Numbered(out, ring, emitted) => Numbered(out, ring, emitted)')
           \/ unwritten' = TRUE /\ workflow \in Careless
    BY <1>10, <1>13, <1>14 DEF ObserverDrain
  <2>3. exiting /\ Reached("observer") /\ (exiting => Reached("collect"))
    BY <2>1 DEF ObserverStream
  <2>4. /\ ~err /\ ~unwritten /\ lab_dropped = 0 /\ lab_failures = 0 => Numbered(out, ring, emitted)
        /\ unwritten => err \/ workflow \in Careless
    BY <2>1 DEF ObserverStream, ObserverUp
  <2> QED
    BY <1>2, <1>3, <2>1, <2>2, <2>3, <2>4 DEF ObserverStream, ObserverDown
<1>15. ASSUME ObserverWriteFails(workflow \notin Careless) PROVE ObserverStream'
  <2>1. /\ observer \in {"polling", "draining"} /\ observer' = "reporting" /\ err'
        /\ UNCHANGED <<exiting, attached, lab_dropped, lab_failures, control>>
    BY <1>15 DEF ObserverWriteFails
  <2> QED
    BY <1>3, <2>1 DEF ObserverStream, ObserverDown
<1>11. ASSUME lab_health PROVE ObserverStream'
  <2>1. /\ observer = "reporting" /\ observer' = "closing"
        /\ ~err' => ~err /\ ~(lab_dropped > 0) /\ ~(lab_failures > 0)
        /\ "LX_READY" \in control' => "LX_READY" \in control
        /\ UNCHANGED <<exiting, attached, ring, lab_dropped, lab_failures, out, unwritten>>
    BY <1>1, <1>11 DEF lab_health
  <2>2. ~err' => lab_dropped = 0 /\ lab_failures = 0
    BY <1>1, <2>1
  <2>3. /\ Reached("observer") /\ (exiting => Reached("collect"))
        /\ ~err => exiting /\ ring = <<>>
        /\ ~err /\ ~unwritten /\ lab_dropped = 0 /\ lab_failures = 0 => Numbered(out, ring, emitted)
        /\ unwritten => err \/ workflow \in Careless
    BY <2>1 DEF ObserverStream, ObserverUp
  <2> QED
    BY <1>2, <1>3, <2>1, <2>2, <2>3 DEF ObserverStream, ObserverDown
<1>12. ASSUME ObserverExit PROVE ObserverStream'
  <2>1. /\ observer = "closing" /\ observer' = IF err THEN "failed" ELSE "ok"
        /\ "LX_READY" \in control' => "LX_READY" \in control
        /\ UNCHANGED <<exiting, ring, lab_dropped, lab_failures, err, out, unwritten>>
    BY <1>12 DEF ObserverExit
  <2>2. CASE err
    BY <1>3, <2>1, <2>2 DEF ObserverStream, ObserverDown, ObserverUp
  <2>3. CASE ~err
    BY <1>2, <1>3, <2>1, <2>3 DEF ObserverStream, ObserverDown, ObserverUp
  <2> QED
    BY <2>2, <2>3
<1> QED
    BY <1>4, <1>5, <1>6, <1>7, <1>8, <1>9, <1>10, <1>11, <1>12, <1>15
       DEF ObserverStep

\* A record caused while the workflow runs is behind the others or has been counted as lost.
LEMMA ObserverSees ==
    ASSUME CardTypes, WorkloadInv, CaptureTypes, CausedInv, ObserverInv, ObserverStream, pc = "work", Workload
    PROVE  ObserverStream'
<1>1. /\ ring \in Seq(Nat) /\ out \in Seq(Nat) /\ emitted \in Nat
      /\ lab_dropped \in Nat /\ lab_failures \in Nat /\ err \in BOOLEAN
    BY DEF CaptureTypes, ObserverInv
<1>2. UNCHANGED <<at, workflow, observer, exiting, attached, err, out, control, unwritten>>
    BY DEF Workload, control_vars
<1>3. /\ Passed("observer")' <=> Passed("observer")
      /\ Reached("observer")' <=> Reached("observer")
      /\ Reached("collect")' <=> Reached("collect")
    BY <1>2 DEF Passed, Reached
<1>4. CASE ~Emit
  <2>1. UNCHANGED <<ring, lab_dropped, lab_failures, emitted>>
    BY <1>4 DEF Workload, WorkloadRuns, WorkloadEnds, WorkloadTerminates
  <2> QED
    BY <1>2, <1>3, <2>1 DEF ObserverStream
<1>5. CASE Emit
  <2>1. WorkloadAlive /\ emitted' = emitted + 1
    BY <1>5 DEF Emit, WorkloadAlive, WorkloadEnded, None
  <2>2. ~exiting
    BY <2>1, CollectMeansEnded DEF ObserverStream
  <2>3. \/ attached /\ Len(ring) < RingSize /\ ring' = Append(ring, emitted') /\ UNCHANGED <<lab_dropped, lab_failures>>
        \/ attached /\ lab_dropped' = lab_dropped + 1 /\ UNCHANGED <<ring, lab_failures>>
        \/ attached /\ lab_failures' = lab_failures + 1 /\ UNCHANGED <<ring, lab_dropped>>
        \/ ~attached /\ UNCHANGED <<ring, lab_dropped, lab_failures>>
    BY <1>5 DEF Emit, lab_output, lab_map_update, Unobserved
  <2>4. observer \in ObserverDown => ~attached /\ ring' = <<>> /\ out' = <<>> /\ ~unwritten
    BY <1>2, <2>3 DEF ObserverStream
  <2>5. ASSUME observer \in ObserverUp, ~err, ~unwritten, lab_dropped' = 0, lab_failures' = 0
        PROVE  Numbered(out, ring, emitted)'
    <3>1. observer = "polling"
      BY <2>2, <2>5 DEF ObserverStream, ObserverUp
    <3>2. attached
      BY <3>1 DEF ObserverStream
    <3>3. ring' = Append(ring, emitted') /\ lab_dropped = 0 /\ lab_failures = 0
      BY <1>1, <2>3, <2>5, <3>2
    <3>4. Numbered(out, ring, emitted)
      BY <2>5, <3>3 DEF ObserverStream
    <3>5. Numbered(out, Append(ring, emitted + 1), emitted + 1)
      BY <1>1, <3>4, NumberedAppend
    <3> QED
      BY <1>2, <2>1, <3>3, <3>5
  <2>6. observer # "draining" /\ (observer \in {"reporting", "closing", "ok"} => err)
    BY <2>2 DEF ObserverStream
  <2>7. /\ ~Reached("observer") => observer = "none"
        /\ Passed("observer") \/ "LX_READY" \in control => observer \notin ObserverDown
        /\ observer = "polling" => attached
        /\ observer = "ok" => ~err
        /\ observer \in ObserverUp /\ unwritten => err \/ workflow \in Careless
    BY DEF ObserverStream
  <2> QED
    BY <1>2, <1>3, <2>2, <2>4, <2>5, <2>6, <2>7 DEF ObserverStream
<1> QED
    BY <1>4, <1>5

\* The observer's part of the invariant, under the steps of the processes.
LEMMA ObserverEnvironment ==
    ASSUME CardTypes, WorkloadInv, CaptureTypes, CausedInv, ObserverInv, Environment
    PROVE  ObserverInv'
<1>1. UNCHANGED <<pc, at, workflow>>
    BY EnvironmentStep DEF control_vars
<1>2. /\ lab_dropped \in Nat /\ lab_failures \in Nat /\ err \in BOOLEAN /\ exiting \in BOOLEAN
      /\ unwritten \in BOOLEAN
    BY DEF ObserverInv
<1>3. ASSUME ObserverStep(workflow \notin Careless), UNCHANGED <<control_vars, workload_vars>>
      PROVE  ObserverInv'
  <2>1. UNCHANGED <<lab_dropped, lab_failures, exiting>>
    BY <1>3 DEF ObserverStep, ObserverSetup, ObserverReady, ObserverSetupFails, ObserverPoll,
       ObserverPollFails, ObserverWriteFails, ObserverStops, ObserverDrain, lab_health, ObserverExit, Consume,
       ConsumeShort
  <2>2. err' \in BOOLEAN /\ unwritten' \in BOOLEAN
    BY <1>2, <1>3, Zenon DEF ObserverStep, ObserverSetup, ObserverReady, ObserverSetupFails, ObserverPoll,
       ObserverPollFails, ObserverWriteFails, ObserverStops, ObserverDrain, lab_health, ObserverExit, Consume,
       ConsumeShort
  <2>3. pc = "work" => ObserverStream'
    BY <1>3, ObserverRuns DEF ObserverInv
  <2> QED
    BY <1>1, <1>2, <2>1, <2>2, <2>3 DEF ObserverInv
<1>4. ASSUME Workload PROVE ObserverInv'
  <2>1. UNCHANGED <<exiting, err, unwritten>>
    BY <1>4 DEF Workload
  <2>2. lab_dropped' \in Nat /\ lab_failures' \in Nat
    BY <1>2, <1>4 DEF Workload, WorkloadRuns, WorkloadEnds, WorkloadTerminates, Emit, lab_output,
       lab_map_update, Unobserved
  <2>3. pc = "work" => ObserverStream'
    BY <1>4, ObserverSees DEF ObserverInv
  <2> QED
    BY <1>1, <1>2, <2>1, <2>2, <2>3 DEF ObserverInv
<1>5. ASSUME Drain PROVE ObserverInv'
  <2>1. UNCHANGED <<observer_vars, emitted, control_vars>>
    BY <1>5 DEF Drain, workload_vars
  <2>2. OrderStep
    BY <2>1, <1>5, EnvironmentStep DEF control_vars, OrderStep, Drain, workload_vars, WorkloadAlive
  <2> QED
    BY <1>1, <2>1, <2>2, ObserverFrame, WorkflowTyped DEF CardTypes
<1> QED
    BY <1>3, <1>4, <1>5 DEF Environment

-----------------------------------------------------------------------------
TracePhases == {"init", "register", "enable"}

\* A step that leaves the trace and the records alone.
LEMMA TraceFrame ==
    ASSUME CardTypes, OrderStep, TraceInv, UNCHANGED <<trace_vars, emitted, attempt>>,
           pc' = "work" => pc = "work",
           \A ph \in TracePhases : At("trace", ph)' => At("trace", ph),
           ~(at' = at + 1 /\ at \in DOMAIN workflow /\ workflow[at] = "trace")
    PROVE  TraceInv'
<1>1. Passed("trace")' => Passed("trace")
    BY PassedStep
<1>2. (Reached("collect") => Reached("collect")') /\ (Uses("trace")' <=> Uses("trace"))
    BY ReachedStays
<1>3. UNCHANGED <<trace, tracing, stopping, drain, buffer, overrun, text>>
    BY DEF trace_vars
<1>4. TraceStream => TraceStream'
    BY <1>1, <1>2, <1>3 DEF TraceStream, TracePhases
<1> QED
    BY <1>2, <1>3, <1>4 DEF TraceInv

\* Outside the workflow nothing is claimed of the trace.
LEMMA TraceOutside ==
    ASSUME TraceInv, pc' # "work", UNCHANGED overrun,
           stopping' \in BOOLEAN, tracing' \in {tracing, FALSE}
    PROVE  TraceInv'
BY DEF TraceInv

\* trace_start() makes the instance of this attempt and turns tracing on.
LEMMA TraceAcquire ==
    ASSUME CardTypes, UndoInv, CaptureTypes, TraceInv, OrderStep, Acquire
    PROVE  TraceInv'
<1> USE DEF At, Phase, NextStep, Raise, workload_vars
<1>1. at \in Nat
    BY DEF CardTypes
<1>2. ASSUME NEW m \in Modules, ModuleRefuse(m) \/ ModuleInsert(m) \/ ModuleRegister(m)
      PROVE  TraceInv'
    BY <1>1, <1>2, TraceFrame, Names DEF ModuleRefuse, ModuleInsert, ModuleRegister, TracePhases
<1>3. ASSUME TraceRefuse \/ TraceInitFails PROVE TraceInv'
    BY <1>3, TraceOutside DEF TraceRefuse, TraceInitFails, trace_vars, TraceInv
<1>4. ASSUME TraceMake \/ TraceInit \/ TraceRegister \/ TraceStart PROVE TraceInv'
  <2>1. /\ pc = "work" /\ at \in DOMAIN workflow /\ workflow[at] = "trace"
        /\ UNCHANGED <<workflow, pc, attempt, emitted, stopping, buffer, overrun, text>>
    BY <1>4 DEF TraceMake, TraceInit, TraceRegister, TraceStart, Register, trace_vars
  <2>2. ~Passed("trace") /\ Uses("trace") /\ ~Reached("collect")
    BY <2>1, CollectorOnce
  <2>3. TraceStream
    BY <2>1, <2>2 DEF TraceInv
  <2>4. trace' = attempt
    BY <1>4, <2>3 DEF TraceMake, TraceInit, TraceRegister, TraceStart, TraceStream, trace_vars
  <2>5. Passed("trace")' => TraceStart
    <3>1. at' = at => ~Passed("trace")'
      BY <2>1, <2>2 DEF Passed
    <3>2. ~TraceStart => at' = at
      BY <1>4 DEF TraceMake, TraceInit, TraceRegister, Register
    <3> QED
      BY <3>1, <3>2
  <2>6. Passed("trace")' => tracing'
    BY <2>5 DEF TraceStart
  <2>7. ~stopping
    BY <2>2, <2>3 DEF TraceStream
  <2>8. drain' # "ended"
    BY <1>4, <2>3, <2>7 DEF TraceMake, TraceInit, TraceRegister, TraceStart, TraceStream, trace_vars
  <2>9. ~overrun' => Numbered(text, buffer, emitted)'
    BY <2>1, <2>3 DEF TraceStream
  <2>10. TraceStream'
    BY <2>1, <2>4, <2>6, <2>7, <2>8, <2>9 DEF TraceStream
  <2>11. tracing' \in BOOLEAN
    BY <1>4, Zenon DEF TraceMake, TraceInit, TraceRegister, TraceStart, trace_vars, TraceInv
  <2> QED
    BY <2>1, <2>10, <2>11 DEF TraceInv
<1>5. ASSUME ObserverStart \/ ObserverRegister \/ ObserverIsReady PROVE TraceInv'
    BY <1>1, <1>5, TraceFrame DEF ObserverStart, ObserverRegister, ObserverIsReady, Register, TracePhases
<1>6. ASSUME WorkloadStart \/ WorkloadRegister PROVE TraceInv'
    BY <1>1, <1>6, TraceFrame DEF WorkloadStart, WorkloadRegister, TracePhases
<1>7. ASSUME Brings PROVE TraceInv'
    BY <1>1, <1>7, BringStep, TraceFrame DEF UndoInv, TracePhases
<1> QED
    BY <1>2, <1>3, <1>4, <1>5, <1>6, <1>7 DEF Acquire, Brings

\* Only collect() turns tracing off.
LEMMA TraceObserve ==
    ASSUME CardTypes, CaptureTypes, TraceInv, OrderStep, Observe
    PROVE  TraceInv'
<1> USE DEF At, Phase, NextStep, Raise, workload_vars, TracePhases
<1>1. at \in Nat
    BY DEF CardTypes
<1>2. ASSUME OpenGate \/ WaitWorkload \/ GuestRuns \/ VmStopped PROVE TraceInv'
    BY <1>1, <1>2, TraceFrame DEF OpenGate, WaitWorkload, GuestRuns, VmStopped
<1>3. ASSUME VmStop \/ VmKill PROVE TraceInv'
    BY <1>1, <1>3, TraceFrame DEF VmStop, VmKill, Terminate, Kill
<1>4. ASSUME CollectSignal \/ CollectObserver \/ CollectNoTrace \/ CollectTrace PROVE TraceInv'
    BY <1>1, <1>4, TraceFrame DEF CollectSignal, CollectObserver, CollectNoTrace, CollectTrace
<1>5. ASSUME TraceStop PROVE TraceInv'
  <2>1. /\ pc = "work" /\ at \in DOMAIN workflow /\ workflow[at] = "collect" /\ Uses("trace")
        /\ UNCHANGED <<workflow, at, pc, attempt, emitted, trace, drain, buffer, overrun, text>>
        /\ tracing' = FALSE /\ stopping' = TRUE
    BY <1>5 DEF TraceStop
  <2>2. TraceStream /\ Reached("collect")
    BY <2>1, CollectOnce DEF TraceInv
  <2>3. (Passed("trace")' <=> Passed("trace")) /\ Reached("collect")'
    BY <2>1, <2>2 DEF Passed, Reached
  <2>4. stopping' /\ ~(\E ph \in TracePhases : At("trace", ph)')
    BY <2>1
  <2>5. TraceStream'
    BY <2>1, <2>2, <2>3, <2>4 DEF TraceStream
  <2> QED
    BY <2>1, <2>5 DEF TraceInv
<1> QED
    BY <1>2, <1>3, <1>4, <1>5 DEF Observe

\* The rest of the controller leaves the trace alone until the workflow is over.
LEMMA TraceOther ==
    ASSUME CardTypes, TraceInv, OrderStep,
           \/ Cleanup \/ Publish \/ WorkFails \/ WorkDone
           \/ Audit \/ Own \/ Bind \/ Restore \/ Signal \/ SignalInBind
    PROVE  TraceInv'
<1> USE DEF At, Phase, NextStep, Raise, Goto, Returns, Raises, Closing, workload_vars, TracePhases
<1>1. at \in Nat
    BY DEF CardTypes
<1>2. ASSUME Cleanup PROVE TraceInv'
  <2>1. pc' # "work"
    BY <1>2 DEF Cleanup, PopCallback, StopSignal, StopWait, StopKill, TraceClose, TraceRemove,
       ModuleRemove, CallbackFails, CloseDone
  <2>2. UNCHANGED overrun /\ stopping' \in {stopping, TRUE} /\ tracing' \in {tracing, FALSE}
    BY <1>2 DEF Cleanup, PopCallback, StopSignal, StopWait, StopKill, TraceClose, TraceRemove,
       ModuleRemove, CallbackFails, CloseDone, trace_vars
  <2> QED
    BY <2>1, <2>2, TraceOutside DEF TraceInv
<1>3. ASSUME Publish \/ WorkFails \/ WorkDone PROVE TraceInv'
  <2>1. pc' # "work" /\ UNCHANGED trace_vars
    BY <1>3 DEF Publish, WorkFails, WorkDone, Finish, Save, Validate, WriteTemporary, Replace,
       SyncDirectory, PublishFails, RecordFailure, ReturnOwnership
  <2> QED
    BY <2>1, TraceOutside DEF trace_vars, TraceInv
<1>4. ASSUME Audit \/ Own PROVE TraceInv'
    BY <1>1, <1>4, TraceFrame DEF Audit, Own
<1>5. ASSUME Bind PROVE TraceInv'
  <2>1. /\ UNCHANGED <<trace_vars, emitted, attempt, workflow>> /\ workflow[at] = "bind" /\ pc = "work"
        /\ at' = at \/ phase' = "begin"
    BY <1>5 DEF Bind, BindDown, BindDowned, BindDownUnnoticed, BindTouch, BindUnbind, BindVfio, BindDone
  <2> QED
    BY <2>1, TraceFrame
<1>6. ASSUME Restore PROVE TraceInv'
  <2>1. /\ UNCHANGED <<trace_vars, emitted, pc, attempt, workflow>> /\ (workflow[at] = "restore" \/ pc # "work")
        /\ at' = at \/ phase' = "begin"
    BY <1>6 DEF Restore, RestoreStart, RestoreUnbind, RestoreOverride, RestoreBind, RestoreProfile,
       RestoreDone, RestoreFails, Restoring
  <2>2. CASE pc = "work"
    BY <2>1, <2>2, TraceFrame
  <2>3. CASE pc # "work"
    BY <2>1, <2>3, TraceOutside DEF trace_vars, TraceInv
  <2> QED
    BY <2>2, <2>3
<1>7. ASSUME Signal \/ SignalInBind PROVE TraceInv'
  <2>1. pc' # "work" /\ UNCHANGED <<tracing, overrun>> /\ stopping' \in BOOLEAN
    BY <1>7 DEF Signal, SignalInWorkflow, SignalInTraceInit, SignalInCallback, SignalInClose,
       SignalInPublish, SignalAtEnd, SignalInBind, trace_vars, TraceInv
  <2> QED
    BY <2>1, TraceOutside
<1> QED
    BY <1>2, <1>3, <1>4, <1>5, <1>6, <1>7

\* A record goes to the instance of this attempt as long as the workload lives; the reader moves it on.
LEMMA TraceEnvironment ==
    ASSUME CardTypes, WorkloadInv, CaptureTypes, CausedInv, TraceInv, Environment
    PROVE  TraceInv'
<1>1. UNCHANGED <<pc, at, workflow, attempt, phase>>
    BY EnvironmentStep DEF control_vars
<1>2. /\ buffer \in Seq(Nat) /\ text \in Seq(Nat) /\ emitted \in Nat
      /\ overrun \in BOOLEAN /\ stopping \in BOOLEAN /\ tracing \in BOOLEAN
    BY DEF CaptureTypes, TraceInv
<1>3. /\ Passed("trace")' <=> Passed("trace")
      /\ Reached("collect")' <=> Reached("collect")
      /\ Uses("trace")' <=> Uses("trace")
      /\ \A ph : At("trace", ph)' <=> At("trace", ph)
    BY <1>1 DEF Passed, Reached, Uses, At
<1>4. ASSUME UNCHANGED <<trace_vars, emitted>> PROVE TraceInv'
    BY <1>1, <1>3, <1>4 DEF TraceInv, TraceStream, trace_vars
<1>5. ASSUME Drain PROVE TraceInv'
  <2>1. UNCHANGED <<emitted, trace, tracing, stopping, overrun>>
    BY <1>5 DEF Drain, DrainRead, DrainEnds, DrainFails, workload_vars
  <2>2. ASSUME TraceStream PROVE TraceStream'
    <3>1. CASE DrainRead
      <4>1. text' = text \o buffer /\ buffer' = <<>> /\ UNCHANGED drain
        BY <3>1 DEF DrainRead
      <4>2. Numbered(text, buffer, emitted) => Numbered(text, buffer, emitted)'
        BY <1>2, <2>1, <4>1, NumberedMove
      <4> QED
        BY <1>1, <1>3, <2>1, <2>2, <4>1, <4>2 DEF TraceStream
    <3>2. CASE DrainEnds \/ DrainFails
      <4>1. UNCHANGED <<text, buffer>> /\ (drain' = "ended" => stopping)
        BY <3>2 DEF DrainEnds, DrainFails
      <4> QED
        BY <1>1, <1>3, <2>1, <2>2, <4>1 DEF TraceStream
    <3> QED
      BY <1>5, <3>1, <3>2 DEF Drain
  <2> QED
    BY <1>1, <1>2, <1>3, <2>1, <2>2 DEF TraceInv
<1>6. ASSUME Workload, Emit PROVE TraceInv'
  <2>1. UNCHANGED <<trace, tracing, stopping, drain, text>>
    BY <1>6 DEF Workload
  <2>2. /\ emitted' = emitted + 1 /\ WorkloadAlive
        /\ IF ~(tracing /\ trace = attempt) THEN UNCHANGED <<buffer, overrun>>
           ELSE IF Len(buffer) < TraceSize
                THEN buffer' = Append(buffer, emitted') /\ UNCHANGED overrun
                ELSE overrun' = TRUE /\ UNCHANGED buffer
    BY <1>6 DEF Emit, WorkloadAlive, WorkloadEnded, None
  <2>3. overrun' \in BOOLEAN
    BY <1>2, <2>2
  <2>4. ASSUME pc = "work", Uses("trace") PROVE TraceStream'
    <3>1. TraceStream
      BY <2>4 DEF TraceInv
    <3>2. Passed("trace")
      BY <2>2, <2>4, CollectorsFirst DEF CausedInv, Caused
    <3>3. ~stopping
      BY <2>2, <2>4, <3>1, CollectMeansEnded DEF TraceStream
    <3>4. tracing /\ trace = attempt /\ drain # "ended"
      BY <3>1, <3>2, <3>3 DEF TraceStream
    <3>5. ~overrun' => ~overrun /\ buffer' = Append(buffer, emitted + 1)
      BY <2>2, <3>4
    <3>6. ~overrun' => Numbered(text, buffer, emitted)'
      <4> SUFFICES ASSUME ~overrun' PROVE Numbered(text, buffer, emitted)'
        OBVIOUS
      <4>1. Numbered(text, buffer, emitted)
        BY <3>1, <3>5 DEF TraceStream
      <4>2. Numbered(text, Append(buffer, emitted + 1), emitted + 1)
        BY <1>2, <4>1, NumberedAppend
      <4> QED
        BY <2>1, <2>2, <3>5, <4>2
    <3> QED
      BY <1>1, <1>3, <2>1, <3>3, <3>4, <3>6 DEF TraceStream
  <2> QED
    BY <1>1, <1>2, <1>3, <2>1, <2>3, <2>4 DEF TraceInv
<1>7. ASSUME Workload, ~Emit PROVE UNCHANGED <<trace_vars, emitted>>
    BY <1>7 DEF Workload, WorkloadRuns, WorkloadEnds, WorkloadTerminates, trace_vars
<1> QED
    BY <1>4, <1>5, <1>6, <1>7 DEF Environment, workload_vars

-----------------------------------------------------------------------------
\* Everything the records depend on while an attempt runs.
StreamInv == WorkloadInv /\ CausedInv /\ ObserverInv /\ TraceInv

\* The streams of both collectors, in every reachable state.
LEMMA StreamInvariant == VtdSpec => []StreamInv
<1>1. VtdInit => CausedInv /\ ObserverInv /\ TraceInv
  <2> SUFFICES ASSUME VtdInit PROVE CausedInv /\ ObserverInv /\ TraceInv
    OBVIOUS
  <2>1. /\ pc = "idle" /\ workload = None /\ emitted = 0 /\ lab_dropped = 0 /\ lab_failures = 0
        /\ err = FALSE /\ exiting = FALSE /\ unwritten = FALSE /\ overrun = FALSE /\ stopping = FALSE /\ tracing = FALSE
    BY DEF VtdInit, SessionInit, ObserverAbsent
  <2>2. CausedInv
    BY <2>1 DEF CausedInv, Caused, WorkloadAlive
  <2>3. ObserverInv
    BY <2>1 DEF ObserverInv
  <2>4. TraceInv
    BY <2>1 DEF TraceInv
  <2> QED
    BY <2>2, <2>3, <2>4
<1>2. ASSUME UndoInv, CardInv, CaptureTypes, StreamInv, [VtdNext]_vtd_vars
      PROVE  CausedInv' /\ ObserverInv' /\ TraceInv'
  <2> USE <1>2
  <2>1. CardTypes /\ WorkloadInv /\ CausedInv /\ ObserverInv /\ TraceInv
    BY DEF CardInv, StreamInv
  <2>2. ASSUME VtdBegin PROVE CausedInv' /\ ObserverInv' /\ TraceInv'
    <3>1. /\ pc' = "work" /\ at' = 1 /\ phase' = "begin" /\ workflow' \in Workflows
          /\ observer' = None /\ exiting' = FALSE /\ attached' = FALSE /\ ring' = <<>>
          /\ lab_dropped' = 0 /\ lab_failures' = 0 /\ err' = FALSE /\ out' = <<>> /\ control' = {}
          /\ unwritten' = FALSE /\ workload' = None /\ emitted' = 0
          /\ stopping' = FALSE /\ drain' = None /\ buffer' = <<>> /\ overrun' = FALSE /\ text' = <<>>
          /\ UNCHANGED tracing
      BY <2>2 DEF VtdBegin, Begin
    <3>2. CausedInv'
      BY <3>1 DEF CausedInv, Caused, WorkloadAlive
    <3>3. \A s : ~Passed(s)'
      <4>1. \A j \in DOMAIN workflow' : ~(j < 1)
        BY <3>1, SessionAssumption
      <4> QED
        BY <3>1, <4>1 DEF Passed
    <3>4. Numbered(out, ring, emitted)' /\ Numbered(text, buffer, emitted)'
      BY <3>1, NumberedNone
    <3>5. ~exiting' /\ ~attached' /\ "LX_READY" \notin control' /\ observer' = "none"
      BY <3>1 DEF None
    <3>6. ObserverStream'
      BY <3>1, <3>3, <3>4, <3>5 DEF ObserverStream, ObserverUp
    <3>7. ~stopping' /\ drain' # "ended" /\ phase' = "begin"
      BY <3>1 DEF None
    <3>8. TraceStream'
      BY <3>3, <3>4, <3>7 DEF TraceStream, At
    <3> QED
      BY <2>1, <3>1, <3>2, <3>6, <3>8 DEF ObserverInv, TraceInv
  <2>3. ASSUME Environment PROVE CausedInv' /\ ObserverInv' /\ TraceInv'
    BY <2>1, <2>3, CausedKept, ObserverEnvironment, TraceEnvironment
  <2>4. ASSUME VtdController \/ VtdSignal PROVE CausedInv' /\ ObserverInv' /\ TraceInv'
    <3>1. OrderStep /\ CausedInv'
      BY <2>1, <2>4, AttemptOrder, CausedKept
    <3>2. ObserverInv'
      BY <2>1, <2>4, <3>1, ObserverAcquire, ObserverObserve, ObserverOther
         DEF VtdController, Controller, VtdSignal
    <3>3. TraceInv'
      BY <2>1, <2>4, <3>1, TraceAcquire, TraceObserve, TraceOther
         DEF VtdController, Controller, VtdSignal
    <3> QED
      BY <3>1, <3>2, <3>3
  <2>5. ASSUME UNCHANGED vtd_vars PROVE CausedInv' /\ ObserverInv' /\ TraceInv'
    <3>1. UNCHANGED <<observer, exiting, attached, ring, lab_dropped, lab_failures, err, out, control,
                      unwritten, workload, emitted, pc, at, phase, workflow, attempt,
                      trace, tracing, stopping, drain, buffer, overrun, text>>
      BY <2>5 DEF vtd_vars, session_vars, observer_vars, control_vars, workload_vars, trace_vars
    <3>2. CausedInv'
      BY <2>1, <3>1 DEF CausedInv, Caused, WorkloadAlive, Reached
    <3>3. ObserverInv'
      BY <2>1, <3>1 DEF ObserverInv, ObserverStream, Reached, Passed
    <3>4. TraceInv'
      BY <2>1, <3>1 DEF TraceInv, TraceStream, Reached, Passed, Uses, At
    <3> QED
      BY <3>2, <3>3, <3>4
  <2> QED
    BY <2>2, <2>3, <2>4, <2>5 DEF VtdNext
<1>3. VtdSpec => [](CausedInv /\ ObserverInv /\ TraceInv)
  <2>1. StreamInv <=> WorkloadInv /\ CausedInv /\ ObserverInv /\ TraceInv
    BY DEF StreamInv
  <2> QED
    BY <1>1, <1>2, <2>1, UndoInvariant, CardInvariant, RestoredInvariant, WorkloadInvariant, PTL DEF VtdSpec
<1> QED
  <2>1. StreamInv <=> WorkloadInv /\ CausedInv /\ ObserverInv /\ TraceInv
    BY DEF StreamInv
  <2> QED
    BY <1>3, <2>1, WorkloadInvariant, PTL

-----------------------------------------------------------------------------
\* t continues s with nothing that is a record of c.
AddsNone(t, s, c) ==
    /\ Extends(t, s)
    /\ \A i \in 1..Len(t) : i > Len(s) => ~(t[i].kind = "record" /\ t[i].who = c)

\* What a file holds of a collector is not disturbed by what others add.
LEMMA HoldsKept ==
    ASSUME NEW s \in Seq(Events), NEW t \in Seq(Events), NEW c \in Whos, NEW n \in Nat, AddsNone(t, s, c)
    PROVE  (Holds(s, c, n) => Holds(t, c, n)) /\ (Without(s, c) => Without(t, c))
<1>1. Len(s) \in Nat /\ Len(t) \in Nat /\ Len(t) >= Len(s)
    BY DEF AddsNone, Extends
<1>2. \A i \in 1..Len(s) : t[i] = s[i]
    BY DEF AddsNone, Extends
<1>3. \A i \in 1..Len(t) : i \notin 1..Len(s) => ~(t[i].kind = "record" /\ t[i].who = c)
    BY <1>1 DEF AddsNone
<1>4. ASSUME Holds(s, c, n) PROVE Holds(t, c, n)
  <2>1. PICK b \in 0..Len(s) :
           /\ b + n <= Len(s)
           /\ \A i \in 1..n : s[b + i] = Event("record", c, i)
           /\ \A i \in 1..Len(s) : s[i].kind = "record" /\ s[i].who = c => i \in (b + 1)..(b + n)
    BY <1>4 DEF Holds
  <2>2. b \in 0..Len(t) /\ b + n <= Len(t)
    BY <1>1, <2>1
  <2>3. ASSUME NEW i \in 1..n PROVE t[b + i] = Event("record", c, i)
    <3>1. b + i \in 1..Len(s)
      BY <1>1, <2>1
    <3> QED
      BY <1>2, <2>1, <3>1
  <2>4. \A i \in 1..Len(t) : t[i].kind = "record" /\ t[i].who = c => i \in (b + 1)..(b + n)
    BY <1>2, <1>3, <2>1
  <2> QED
    BY <2>2, <2>3, <2>4 DEF Holds
<1>5. ASSUME Without(s, c) PROVE Without(t, c)
    BY <1>2, <1>3, <1>5 DEF Without
<1> QED
    BY <1>4, <1>5

\* The controller's own events are no records.
LEMMA LifecycleAddsNone ==
    ASSUME CaptureTypes, NEW k \in Kinds \ {"record"}, NEW w \in Whos, lifecycle(k, w), NEW c \in Whos
    PROVE  AddsNone(capture', capture, c)
<1>1. Event(k, w, 0) \in Events /\ Event(k, w, 0).kind = k
    BY EventTyped
<1>2. capture' = Append(capture, Event(k, w, 0)) /\ capture \in Seq(Events) /\ Len(capture) \in Nat
    BY DEF lifecycle, CaptureTypes
<1>3. /\ Extends(capture', capture) /\ Len(capture') = Len(capture) + 1
      /\ capture'[Len(capture) + 1] = Event(k, w, 0)
    BY <1>1, <1>2, AppendExtends
<1>4. \A i \in 1..Len(capture') : i > Len(capture) => capture'[i].kind = k
    BY <1>1, <1>2, <1>3
<1> QED
    BY <1>3, <1>4 DEF AddsNone

\* Collecting from one collector adds no records of the other.
LEMMA OtherCollected ==
    ASSUME NEW s \in Seq(Events), NEW w \in Whos, NEW q \in Seq(Nat), NEW c \in Whos, c # w,
           NEW t, NEW e \in Events, e.kind # "record", Collected(t, s, w, q, e)
    PROVE  AddsNone(t, s, c)
<1>1. Len(s) \in Nat /\ Len(q) \in Nat
    OBVIOUS
<1>2. /\ t \in Seq(Events) /\ Extends(t, s) /\ Len(t) = Len(s) + Len(q) + 1
      /\ \A i \in 1..Len(q) : t[Len(s) + i] = Event("record", w, q[i])
      /\ t[Len(t)] = e
    BY ConcatExtends
<1>3. Len(t) \in Nat
    BY <1>2
<1>4. ASSUME NEW i \in 1..Len(t), i > Len(s)
      PROVE  ~(t[i].kind = "record" /\ t[i].who = c)
  <2>1. CASE i = Len(t)
    BY <1>2, <2>1
  <2>2. CASE i # Len(t)
    <3>1. i - Len(s) \in 1..Len(q) /\ Len(s) + (i - Len(s)) = i
      <4>1. i \in Nat /\ i > Len(s) /\ i < Len(s) + Len(q) + 1
        BY <1>1, <1>2, <1>3, <1>4, <2>2
      <4> QED
        BY <1>1, <4>1
    <3>2. t[i] = Event("record", w, q[i - Len(s)])
      BY <1>2, <3>1
    <3>3. Event("record", w, q[i - Len(s)]).who = w
      BY DEF Event
    <3> QED
      BY <3>2, <3>3
  <2> QED
    BY <2>1, <2>2
<1> QED
    BY <1>2, <1>4 DEF AddsNone

\* What a collector has written in full is in the capture in full when it has been collected.
LEMMA CollectedHolds ==
    ASSUME NEW s \in Seq(Events), NEW w \in Whos, NEW q \in Seq(Nat), NEW n \in Nat,
           NEW t, NEW e \in Events, e.kind # "record", Collected(t, s, w, q, e),
           Without(s, w), Numbered(q, <<>>, n)
    PROVE  Holds(t, w, n)
<1>1. Len(s) \in Nat /\ Len(q) \in Nat
    OBVIOUS
<1>2. /\ t \in Seq(Events) /\ Extends(t, s) /\ Len(t) = Len(s) + Len(q) + 1
      /\ \A i \in 1..Len(q) : t[Len(s) + i] = Event("record", w, q[i])
      /\ t[Len(t)] = e
    BY ConcatExtends
<1>3. Len(t) \in Nat
    BY <1>2
<1>4. Len(q) = n /\ \A i \in 1..n : q[i] = i
    BY <1>1 DEF Numbered
<1>5. PICK b : b = Len(s)
    OBVIOUS
<1>6. b \in 0..Len(t) /\ b + n <= Len(t)
    BY <1>1, <1>2, <1>3, <1>4, <1>5
<1>7. \A i \in 1..n : t[b + i] = Event("record", w, i)
    BY <1>2, <1>4, <1>5
<1>8. ASSUME NEW i \in 1..Len(t), t[i].kind = "record", t[i].who = w
      PROVE  i \in (b + 1)..(b + n)
  <2>1. i # Len(t)
    BY <1>2, <1>8
  <2>2. i \notin 1..Len(s)
    BY <1>2, <1>8 DEF Extends, Without
  <2> QED
    BY <1>1, <1>2, <1>3, <1>4, <1>5, <2>1, <2>2
<1> QED
    BY <1>6, <1>7, <1>8 DEF Holds

-----------------------------------------------------------------------------
\* A step of the workflow that collects nothing.
LEMMA CompleteWork ==
    ASSUME CardTypes, CaptureTypes, OrderStep, CompleteInv, CaptureTypes',
           UNCHANGED <<emitted, target, attempt>>, pc = "work", pc' = "work",
           at \in DOMAIN workflow, workflow[at] # "collect", at' = at \/ phase' = "begin",
           ~Fresh, Passed("collect") => UNCHANGED <<buffer, drain, unwritten>>,
           \A c \in Whos : AddsNone(capture', capture, c)
    PROVE  CompleteInv'
<1>1. workflow' = workflow
    BY DEF OrderStep
<1>2. /\ Passed("collect")' <=> Passed("collect")
      /\ Uses("observer")' <=> Uses("observer")
      /\ Uses("trace")' <=> Uses("trace")
    BY PassedStep, ReachedStays
<1>3. \A ph \in {"status", "trace", "join"} : ~At("collect", ph) /\ ~At("collect", ph)'
    BY <1>1 DEF At
<1>4. (ObserverTaken <=> Passed("collect")) /\ (ObserverTaken' <=> Passed("collect")')
    BY <1>3 DEF ObserverTaken
<1>5. /\ Holds(capture, "observer", emitted) => Holds(capture, "observer", emitted)'
      /\ \A n \in Nat : Holds(capture, "tracefs", n) => Holds(capture', "tracefs", n)
      /\ Without(capture, "observer") => Without(capture, "observer")'
      /\ Without(capture, "tracefs") => Without(capture, "tracefs")'
    BY HoldsKept DEF CaptureTypes, Whos
<1>6. Passed("collect") /\ ObserverPart(capture) => ObserverPart(capture)'
    BY <1>1, <1>5 DEF ObserverPart
<1>7. Passed("collect") /\ TracePart(capture) => TracePart(capture)'
    BY <1>5 DEF TracePart
<1>8. ~Fresh'
    BY DEF Fresh
<1> QED
    BY <1>2, <1>3, <1>4, <1>5, <1>6, <1>7, <1>8 DEF CompleteInv

\* A step away from the publication: only the target still matters, and it stays.
LEMMA CompleteAside ==
    ASSUME CompleteInv, UNCHANGED <<emitted, target, attempt, workflow>>,
           Fresh => UNCHANGED <<buffer, drain, unwritten>>,
           pc' \notin {"work", "close", "finish", "save", "validate", "temporary", "replace"}
    PROVE  CompleteInv'
<1>1. (Fresh => Whole(target))'
    BY DEF CompleteInv, Fresh, Whole, Uses, ObserverPart, TracePart
<1> QED
    BY <1>1 DEF CompleteInv, At

\* The clean-up leaves the capture alone and starts no workload.
LEMMA CompleteClosing ==
    ASSUME CompleteInv, UNCHANGED <<emitted, target, attempt, workflow, capture, pc>>,
           UNCHANGED <<buffer, drain, unwritten>>,
           WorkloadAlive' => WorkloadAlive, pc \in {"close", "xclose"}
    PROVE  CompleteInv'
<1>1. (Whole(capture)' <=> Whole(capture)) /\ (Fresh => Whole(target))'
    BY DEF CompleteInv, Fresh, Whole, Uses, ObserverPart, TracePart
<1>2. /\ Uses("observer")' <=> Uses("observer")
      /\ Uses("trace")' <=> Uses("trace")
    BY DEF Uses
<1> QED
    BY <1>1, <1>2 DEF CompleteInv, At

\* run() returns: its collect() is over, and so is the workload.
LEMMA CompleteDone ==
    ASSUME CardTypes, WorkloadInv, CompleteInv, WorkDone
    PROVE  CompleteInv'
<1>1. /\ pc = "work" /\ at = Len(workflow) + 1 /\ pc' = "close"
      /\ UNCHANGED <<emitted, target, attempt, workflow, capture, workload, buffer, drain, unwritten>>
    BY DEF WorkDone, Goto, workload_vars, file_vars, trace_vars, observer_vars
<1>2. ASSUME Uses("observer") \/ Uses("trace") PROVE Passed("collect") /\ ~WorkloadAlive
  <2>1. PICK i \in DOMAIN workflow : workflow[i] = "collect"
    BY <1>2, CollectOrder DEF Uses
  <2>2. i < at /\ i <= at
    BY <1>1, <2>1, WorkflowTyped
  <2>3. Passed("collect") /\ Reached("collect")
    BY <2>1, <2>2 DEF Passed, Reached
  <2> QED
    BY <1>1, <2>3, CollectMeansEnded
<1>3. /\ Uses("observer")' <=> Uses("observer")
      /\ Uses("trace")' <=> Uses("trace")
      /\ (Fresh => Whole(target))'
      /\ WorkloadAlive' <=> WorkloadAlive
    BY <1>1 DEF CompleteInv, Fresh, Whole, Uses, WorkloadAlive, ObserverPart, TracePart
<1>4. Whole(capture)
    BY <1>1, <1>2 DEF CompleteInv, Whole, ObserverTaken
<1>5. Whole(capture)'
    BY <1>1, <1>3, <1>4 DEF Whole, ObserverPart, TracePart
<1> QED
    BY <1>1, <1>2, <1>3, <1>5 DEF CompleteInv, At

\* collect(): what each collector has written in full goes to the capture, once.
LEMMA CompleteCollect ==
    ASSUME CardTypes, CaptureTypes, OrderStep, StreamInv, CompleteInv, CaptureTypes',
           CollectSignal \/ CollectObserver \/ CollectNoTrace \/ TraceStop \/ CollectTrace
    PROVE  CompleteInv'
<1> USE DEF Phase, NextStep
<1>1. /\ pc = "work" /\ pc' = "work" /\ at \in DOMAIN workflow /\ workflow[at] = "collect"
      /\ UNCHANGED <<emitted, target, attempt, workflow, buffer, drain, unwritten>>
    BY DEF At, CollectSignal, CollectObserver, CollectNoTrace, TraceStop, CollectTrace,
       workload_vars, file_vars, trace_vars, observer_vars, ObserverInterrupted
<1>2. /\ Uses("observer")' <=> Uses("observer")
      /\ Uses("trace")' <=> Uses("trace")
      /\ (Fresh => Whole(target))'
    BY <1>1 DEF CompleteInv, Fresh, Whole, Uses, ObserverPart, TracePart
<1>3. ~Passed("collect")
    BY <1>1, CollectOnce
<1>4. at' = at => ~Passed("collect")'
    BY <1>1, <1>3 DEF Passed
<1>5. /\ emitted \in Nat /\ out \in Seq(Nat) /\ text \in Seq(Nat) /\ capture \in Seq(Events)
      /\ capture' \in Seq(Events)
    BY DEF CaptureTypes
<1>6. \A w \in Whos : /\ Event("collector_finished", w, 0) \in Events
                      /\ Event("collector_finished", w, 0).kind # "record"
    BY EventTyped DEF Kinds
<1>7. Uses("trace") => Without(capture, "tracefs")
    BY <1>1, <1>3 DEF CompleteInv
<1>8. ASSUME CollectSignal PROVE CompleteInv'
  <2>1. /\ at' = at /\ UNCHANGED capture /\ phase = "begin"
        /\ phase' = IF Uses("observer") THEN "status" ELSE "trace"
    BY <1>8 DEF CollectSignal, At
  <2>2. Uses("observer") => Without(capture, "observer")
    BY <1>1, <1>3, <2>1 DEF CompleteInv, ObserverTaken, At
  <2>3. Uses("observer") => ~ObserverTaken'
    BY <1>4, <2>1 DEF ObserverTaken, At
  <2>4. \A ph \in {"join", "status"} : At("collect", ph)' => ph = "status" /\ Uses("observer")
    BY <2>1 DEF At
  <2>5. /\ Uses("observer") => Without(capture, "observer")'
        /\ Uses("trace") => Without(capture, "tracefs")'
    BY <1>7, <2>1, <2>2
  <2> QED
    BY <1>1, <1>2, <1>4, <2>1, <2>3, <2>4, <2>5 DEF CompleteInv
<1>9. ASSUME CollectObserver PROVE CompleteInv'
  <2>1. /\ at' = at /\ At("collect", "status") /\ phase' = "trace" /\ observer = "ok"
        /\ Collected(capture', capture, "observer", out, Event("collector_finished", "observer", 0))
    BY <1>9 DEF CollectObserver, Collected
  <2>2. Uses("observer") /\ Without(capture, "observer")
    BY <1>1, <1>3, <2>1 DEF CompleteInv, ObserverTaken, At
  <2>3. (unwritten /\ workflow \in Careless) \/ Numbered(out, <<>>, emitted)
    BY <1>1, <2>1 DEF StreamInv, ObserverInv, ObserverStream, ObserverUp
  <2>4. ObserverPart(capture)'
    <3>1. CASE unwritten /\ workflow \in Careless
      BY <1>1, <3>1 DEF ObserverPart
    <3>2. CASE Numbered(out, <<>>, emitted)
      <4>1. Holds(capture', "observer", emitted)
        BY <1>5, <1>6, <2>1, <2>2, <3>2, CollectedHolds DEF Whos
      <4> QED
        BY <1>1, <4>1 DEF ObserverPart
    <3> QED
      BY <2>3, <3>1, <3>2
  <2>5. AddsNone(capture', capture, "tracefs")
    BY <1>5, <1>6, <2>1, OtherCollected DEF Whos
  <2>6. Uses("trace") => Without(capture, "tracefs")'
    BY <1>5, <1>7, <2>5, HoldsKept DEF Whos
  <2>7. ObserverTaken' /\ \A ph \in {"join", "status"} : ~At("collect", ph)'
    BY <1>1, <2>1 DEF ObserverTaken, At
  <2> QED
    BY <1>1, <1>2, <1>4, <2>1, <2>4, <2>6, <2>7 DEF CompleteInv
<1>10. ASSUME CollectNoTrace PROVE CompleteInv'
  <2>1. At("collect", "trace") /\ ~Uses("trace") /\ UNCHANGED capture /\ phase' = "begin" /\ at' = at + 1
    BY <1>10 DEF CollectNoTrace
  <2>2. Uses("observer") => ObserverPart(capture)'
    BY <1>1, <2>1 DEF CompleteInv, ObserverTaken, ObserverPart
  <2>3. Passed("collect")'
    BY <1>1, <2>1, PassedNext
  <2>4. ObserverTaken' /\ \A ph \in {"join", "status"} : ~At("collect", ph)'
    BY <2>1, <2>3 DEF ObserverTaken, At
  <2> QED
    BY <1>1, <1>2, <2>1, <2>2, <2>4 DEF CompleteInv
<1>11. ASSUME TraceStop PROVE CompleteInv'
  <2>1. At("collect", "trace") /\ Uses("trace") /\ UNCHANGED capture /\ phase' = "join" /\ at' = at
    BY <1>11 DEF TraceStop
  <2>2. Uses("observer") => ObserverPart(capture)'
    BY <1>1, <2>1 DEF CompleteInv, ObserverTaken, ObserverPart
  <2>3. ObserverTaken' /\ ~At("collect", "status")'
    BY <1>1, <2>1 DEF ObserverTaken, At
  <2>4. Without(capture, "tracefs")'
    BY <1>7, <2>1
  <2> QED
    BY <1>1, <1>2, <1>4, <2>1, <2>2, <2>3, <2>4 DEF CompleteInv
<1>12. ASSUME CollectTrace PROVE CompleteInv'
  <2>1. /\ at' = at + 1 /\ At("collect", "join") /\ phase' = "begin" /\ drain = "ended" /\ ~overrun
        /\ Collected(capture', capture, "tracefs", text, Event("collector_finished", "tracefs", 0))
    BY <1>12 DEF CollectTrace, Collected
  <2>2. Uses("trace") /\ Without(capture, "tracefs")
    BY <1>1, <1>7, <2>1 DEF CompleteInv
  <2>3. Numbered(text, buffer, emitted)
    BY <1>1, <2>1, <2>2 DEF StreamInv, TraceInv, TraceStream
  <2>4. TracePart(capture)'
    <3>1. Len(text) \in Nat /\ Len(text) + Len(buffer) = emitted /\ Numbered(text, <<>>, Len(text))
      BY <1>5, <2>3 DEF Numbered
    <3>2. Holds(capture', "tracefs", Len(text))
      BY <1>5, <1>6, <2>1, <2>2, <3>1, CollectedHolds DEF Whos
    <3> QED
      BY <1>1, <2>1, <3>1, <3>2 DEF TracePart
  <2>5. AddsNone(capture', capture, "observer")
    BY <1>5, <1>6, <2>1, OtherCollected DEF Whos
  <2>6. Uses("observer") => ObserverPart(capture)
    BY <1>1, <2>1 DEF CompleteInv, ObserverTaken
  <2>7. Uses("observer") => ObserverPart(capture)'
    <3>1. Holds(capture, "observer", emitted) => Holds(capture', "observer", emitted)
      BY <1>5, <2>5, HoldsKept DEF Whos
    <3> QED
      BY <1>1, <2>6, <3>1 DEF ObserverPart
  <2>8. Passed("collect")'
    BY <1>1, <2>1, PassedNext
  <2>9. ObserverTaken' /\ \A ph \in {"join", "status"} : ~At("collect", ph)'
    BY <2>1, <2>8 DEF ObserverTaken, At
  <2> QED
    BY <1>1, <1>2, <2>1, <2>4, <2>7, <2>8, <2>9 DEF CompleteInv
<1> QED
    BY <1>8, <1>9, <1>10, <1>11, <1>12

\* Nothing added is no record added.
LEMMA SameAddsNone ==
    ASSUME CaptureTypes, UNCHANGED capture, NEW c
    PROVE  AddsNone(capture', capture, c)
<1>1. Len(capture) \in Nat
    BY DEF CaptureTypes
<1> QED
    BY <1>1 DEF AddsNone, Extends

\* A step of run() before or after collect(), or one in which it fails.
LEMMA CompleteSteps ==
    ASSUME CardTypes, CaptureTypes, OrderStep, UndoInv, SettledInv, CompleteInv, CaptureTypes',
           \/ Acquire \/ Audit \/ Own \/ Bind \/ (Restore /\ pc = "work")
           \/ OpenGate \/ WaitWorkload \/ GuestRuns \/ VmStop \/ VmStopped \/ VmKill
    PROVE  CompleteInv'
<1> USE DEF At, Phase, NextStep, Raise, Register
<1>1. /\ pc = "work" /\ at \in DOMAIN workflow /\ workflow[at] # "collect"
      /\ pc' \in {"work", "xclose"} /\ (at' = at \/ phase' = "begin")
      /\ UNCHANGED <<emitted, target, attempt, workflow>>
  <2> USE DEF workload_vars, file_vars
  <2>1. CASE \E m \in Modules : ModuleRefuse(m) \/ ModuleInsert(m) \/ ModuleRegister(m)
    <3>1. "collect" \notin Modules
      BY Names DEF FixedSteps
    <3> QED
      BY <2>1, <3>1 DEF ModuleRefuse, ModuleInsert, ModuleRegister
  <2>2. CASE TraceRefuse \/ TraceMake \/ TraceInit \/ TraceInitFails \/ TraceRegister \/ TraceStart
    BY <2>2 DEF TraceRefuse, TraceMake, TraceInit, TraceInitFails, TraceRegister, TraceStart
  <2>3. CASE ObserverStart \/ ObserverRegister \/ ObserverIsReady \/ WorkloadStart \/ WorkloadRegister
    BY <2>3 DEF ObserverStart, ObserverRegister, ObserverIsReady, WorkloadStart, WorkloadRegister
  <2>4. CASE OpenGate \/ WaitWorkload \/ GuestRuns \/ VmStop \/ VmStopped \/ VmKill
    BY <2>4 DEF OpenGate, WaitWorkload, GuestRuns, VmStop, VmStopped, VmKill, Terminate, Kill
  <2>5. CASE Audit \/ Own \/ Bind
    BY <2>5 DEF Audit, Own, Bind, BindDown, BindDowned, BindDownUnnoticed, BindTouch, BindUnbind,
       BindVfio, BindDone
  <2>6. CASE Restore /\ pc = "work"
    BY <2>6 DEF Restore, RestoreStart, RestoreUnbind, RestoreOverride, RestoreBind, RestoreProfile,
       RestoreDone, RestoreFails, Restoring, Returns, Raises, Closing
  <2>7. CASE Brings
    BY <2>7, BringStep DEF UndoInv
  <2> QED
    BY <2>1, <2>2, <2>3, <2>4, <2>5, <2>6, <2>7 DEF Acquire, Brings
<1>2. UNCHANGED capture \/ \E k \in Kinds \ {"record"}, w \in Whos : lifecycle(k, w)
  <2> USE DEF Kinds, Whos
  <2>1. CASE Acquire
    BY <2>1 DEF Acquire, ModuleRefuse, ModuleInsert, ModuleRegister, Swapon, Modprobe, TraceMount,
       TraceRefuse, TraceMake, TraceInit, TraceInitFails, TraceRegister, TraceStart, ObserverStart,
       ObserverRegister, ObserverIsReady, WorkloadStart, WorkloadRegister
  <2>2. CASE OpenGate \/ WaitWorkload \/ GuestRuns \/ VmStop \/ VmStopped \/ VmKill
    BY <2>2 DEF OpenGate, WaitWorkload, GuestRuns, VmStop, VmStopped, VmKill
  <2>3. CASE Audit \/ Own \/ Bind \/ Restore
    BY <2>3 DEF Audit, Own, Bind, Restore
  <2> QED
    BY <2>1, <2>2, <2>3
<1>3. \A c \in Whos : AddsNone(capture', capture, c)
    BY <1>2, SameAddsNone, LifecycleAddsNone
<1>4. ~Fresh
    BY <1>1 DEF SettledInv, Settled
<1>5. Passed("collect") => UNCHANGED <<buffer, drain, unwritten>>
  <2> USE DEF trace_vars, observer_vars
  <2>1. CASE ObserverStart \/ TraceStart
    <3>1. workflow[at] \in {"trace", "observer"}
      BY <2>1 DEF ObserverStart, TraceStart
    <3>2. ~Reached("collect") /\ DOMAIN workflow \subseteq Nat /\ at \in Nat
      BY <1>1, <3>1, CollectorOnce, WorkflowTyped DEF CardTypes
    <3> QED
      BY <3>2 DEF Passed, Reached
  <2>2. CASE \E m \in Modules : ModuleRefuse(m) \/ ModuleInsert(m) \/ ModuleRegister(m)
    BY <2>2 DEF ModuleRefuse, ModuleInsert, ModuleRegister
  <2>3. CASE TraceRefuse \/ TraceMake \/ TraceInit \/ TraceInitFails \/ TraceRegister
    BY <2>3 DEF TraceRefuse, TraceMake, TraceInit, TraceInitFails, TraceRegister
  <2>4. CASE ObserverRegister \/ ObserverIsReady \/ WorkloadStart \/ WorkloadRegister
    BY <2>4 DEF ObserverRegister, ObserverIsReady, WorkloadStart, WorkloadRegister
  <2>5. CASE OpenGate \/ WaitWorkload \/ GuestRuns \/ VmStop \/ VmStopped \/ VmKill
    BY <2>5 DEF OpenGate, WaitWorkload, GuestRuns, VmStop, VmStopped, VmKill, Terminate, Kill
  <2>6. CASE Audit \/ Own \/ Bind \/ Restore
    BY <2>6 DEF Audit, Own, Bind, Restore
  <2>7. CASE Brings
    BY <2>7, BringStep DEF UndoInv
  <2> QED
    BY <2>1, <2>2, <2>3, <2>4, <2>5, <2>6, <2>7 DEF Acquire, Brings
<1>6. CASE pc' = "work"
    BY <1>1, <1>3, <1>4, <1>5, <1>6, CompleteWork
<1>7. CASE pc' = "xclose"
    BY <1>1, <1>4, <1>7, CompleteAside
<1> QED
    BY <1>1, <1>6, <1>7

\* The end of the clean-up and the publication: the whole capture goes from hand to hand.
LEMMA CompletePublish ==
    ASSUME CaptureTypes, CompleteInv, CaptureTypes', CloseDone \/ Publish
    PROVE  CompleteInv'
<1> USE DEF Goto, workload_vars, file_vars
<1>1. UNCHANGED <<emitted, attempt, workflow, buffer, drain, unwritten>>
    BY DEF CloseDone, Publish, Finish, Save, Validate, WriteTemporary, Replace, SyncDirectory, PublishFails,
       RecordFailure, ReturnOwnership, Raise, trace_vars, observer_vars
<1>2. /\ Uses("observer")' <=> Uses("observer")
      /\ Uses("trace")' <=> Uses("trace")
    BY <1>1 DEF Uses
<1>3. UNCHANGED target => (Fresh => Whole(target))'
    BY <1>1, <1>2 DEF CompleteInv, Fresh, Whole, ObserverPart, TracePart
<1>4. ASSUME CloseDone PROVE CompleteInv'
  <2>1. /\ (pc' = "finish" /\ pc = "close") \/ pc' = "record"
        /\ UNCHANGED <<capture, target>>
    BY <1>4 DEF CloseDone, Closing
  <2>2. CASE pc' = "record"
    BY <1>1, <2>1, <2>2, CompleteAside
  <2>3. CASE pc' = "finish" /\ pc = "close"
    <3>1. Whole(capture)'
      BY <1>1, <1>2, <2>1, <2>3 DEF CompleteInv, Whole, ObserverPart, TracePart
    <3> QED
      BY <1>3, <2>1, <2>3, <3>1 DEF CompleteInv, At
  <2> QED
    BY <2>1, <2>2, <2>3
<1>5. ASSUME Finish PROVE CompleteInv'
  <2>1. pc = "finish" /\ pc' = "save" /\ UNCHANGED target /\ lifecycle("capture_finished", "controller")
    BY <1>5 DEF Finish
  <2>2. AddsNone(capture', capture, "observer") /\ AddsNone(capture', capture, "tracefs")
    BY <2>1, LifecycleAddsNone DEF Kinds, Whos
  <2>3. /\ Holds(capture, "observer", emitted) => Holds(capture, "observer", emitted)'
        /\ \A n \in Nat : Holds(capture, "tracefs", n) => Holds(capture', "tracefs", n)
    BY <1>1, <2>2, HoldsKept DEF CaptureTypes, Whos
  <2>4. Whole(capture)'
    BY <1>1, <1>2, <2>1, <2>3 DEF CompleteInv, Whole, ObserverPart, TracePart
  <2> QED
    BY <1>3, <2>1, <2>4 DEF CompleteInv, At
<1>6. ASSUME Save \/ Validate \/ WriteTemporary PROVE CompleteInv'
  <2>1. /\ UNCHANGED target /\ pc' \in {"validate", "temporary", "replace"}
        /\ \/ pc = "save" /\ staged' = capture
           \/ pc \in {"validate", "temporary"} /\ UNCHANGED staged
    BY <1>6 DEF Save, Validate, WriteTemporary
  <2>2. Whole(staged)'
    BY <1>1, <1>2, <2>1 DEF CompleteInv, Whole, ObserverPart, TracePart
  <2> QED
    BY <1>3, <2>1, <2>2 DEF CompleteInv, At
<1>7. ASSUME Replace PROVE CompleteInv'
  <2>1. target' = staged /\ pc = "replace" /\ pc' = "sync"
    BY <1>7 DEF Replace
  <2>2. Whole(target)'
    BY <1>1, <1>2, <2>1 DEF CompleteInv, Whole, ObserverPart, TracePart
  <2> QED
    BY <2>1, <2>2 DEF CompleteInv, At
<1>8. ASSUME SyncDirectory \/ PublishFails \/ RecordFailure \/ ReturnOwnership PROVE CompleteInv'
  <2>1. pc' \in {"ownership", "xclose", "idle"} /\ UNCHANGED target
    BY <1>8 DEF SyncDirectory, PublishFails, RecordFailure, ReturnOwnership, Raise
  <2> QED
    BY <1>1, <2>1, CompleteAside
<1> QED
    BY <1>4, <1>5, <1>6, <1>7, <1>8 DEF Publish

\* The rest of the controller and the signals.
LEMMA CompleteOther ==
    ASSUME CompleteInv,
           \/ (Cleanup /\ ~CloseDone) \/ WorkFails
           \/ (Restore /\ pc # "work") \/ Signal \/ SignalInBind
    PROVE  CompleteInv'
<1> USE DEF Closing, workload_vars, file_vars, trace_vars, observer_vars, WorkloadAlive
<1>1. ASSUME Cleanup, ~CloseDone PROVE CompleteInv'
  <2>1. UNCHANGED <<emitted, target, attempt, workflow, capture, pc>> /\ pc \in {"close", "xclose"}
    BY <1>1 DEF Cleanup, PopCallback, StopSignal, StopWait, StopKill, TraceClose, TraceRemove,
       ModuleRemove, CallbackFails, Returns, Raises, Phase, Terminate, Kill
  <2>2. UNCHANGED <<buffer, drain, unwritten>>
    BY <1>1 DEF Cleanup, PopCallback, StopSignal, StopWait, StopKill, TraceClose, TraceRemove,
       ModuleRemove, CallbackFails, Terminate, Kill, ObserverInterrupted, ObserverKilled
  <2>3. workload' \in {workload, "failed"}
    BY <1>1 DEF Cleanup, PopCallback, StopSignal, StopWait, StopKill, TraceClose, TraceRemove,
       ModuleRemove, CallbackFails, Terminate, Kill
  <2> QED
    BY <2>1, <2>2, <2>3, CompleteClosing DEF WorkloadEnded
<1>2. ASSUME WorkFails PROVE CompleteInv'
    BY <1>2, CompleteAside DEF WorkFails, Raise
<1>3. ASSUME Restore, pc # "work" PROVE CompleteInv'
  <2>1. /\ UNCHANGED <<emitted, target, attempt, workflow, capture, pc, workload>>
        /\ UNCHANGED <<buffer, drain, unwritten>>
        /\ pc \in {"close", "xclose"}
    BY <1>3 DEF Restore, RestoreStart, RestoreUnbind, RestoreOverride, RestoreBind, RestoreProfile,
       RestoreDone, RestoreFails, Restoring, Returns, Raises, Phase, NextStep, At
  <2> QED
    BY <2>1, CompleteClosing
<1>4. ASSUME SignalInCallback PROVE CompleteInv'
    BY <1>4, CompleteClosing DEF SignalInCallback
<1>5. ASSUME SignalInWorkflow \/ SignalInTraceInit \/ SignalInClose \/ SignalInPublish \/ SignalAtEnd
             \/ SignalInBind
      PROVE  CompleteInv'
    BY <1>5, CompleteAside DEF SignalInWorkflow, SignalInTraceInit, SignalInClose, SignalInPublish,
       SignalAtEnd, SignalInBind
<1> QED
    BY <1>1, <1>2, <1>3, <1>4, <1>5 DEF Signal

\* What has been collected is all there will be: no process causes a record any more.
LEMMA CompleteEnvironment ==
    ASSUME CardTypes, StreamInv, WorkloadInv, CaptureTypes, SettledInv, CompleteInv, Environment
    PROVE  CompleteInv'
<1>1. UNCHANGED <<capture, staged, target>>
    BY EnvironmentTypes
<1>2. UNCHANGED <<pc, at, phase, workflow, attempt>> /\ (WorkloadAlive' => WorkloadAlive)
    BY EnvironmentStep DEF control_vars
<1>3. /\ Uses("observer")' <=> Uses("observer")
      /\ Uses("trace")' <=> Uses("trace")
      /\ Passed("collect")' <=> Passed("collect")
      /\ ObserverTaken' <=> ObserverTaken
      /\ \A ph : At("collect", ph)' <=> At("collect", ph)
    BY <1>2 DEF Uses, Passed, ObserverTaken, At
<1>4. ~WorkloadAlive => emitted' = emitted
    BY EmissionSource
<1>5. ASSUME pc = "work", ObserverTaken PROVE emitted' = emitted
  <2>1. DOMAIN workflow \subseteq Nat /\ at \in Nat
    BY WorkflowTyped DEF CardTypes
  <2>2. Reached("collect")
    BY <1>5, <2>1 DEF ObserverTaken, Passed, Reached, At
  <2> QED
    BY <1>4, <1>5, <2>2, CollectMeansEnded
<1>6. Settled => emitted' = emitted
  <2>1. NothingPresent => ~WorkloadAlive
    BY DEF NothingPresent, Present, Resources
  <2> QED
    BY <1>4, <2>1 DEF Settled
<1>7. drain = "ended" /\ emitted' = emitted => UNCHANGED <<drain, buffer>>
    BY DEF Environment, Workload, WorkloadRuns, WorkloadEnds, WorkloadTerminates, Emit, CaptureTypes,
       Drain, DrainRead, DrainEnds, DrainFails, trace_vars
<1>8. unwritten => unwritten'
    BY DEF Environment, Workload, Drain, ObserverStep, ObserverSetup, ObserverReady, ObserverSetupFails,
       ObserverPoll, ObserverPollFails, ObserverWriteFails, ObserverStops, ObserverDrain, lab_health,
       ObserverExit, Consume, ConsumeShort, observer_vars
<1>9. ASSUME NEW s, emitted' = emitted
      PROVE  (ObserverPart(s) => ObserverPart(s)') /\ (TracePart(s) => TracePart(s)')
    BY <1>2, <1>7, <1>8, <1>9 DEF ObserverPart, TracePart, StreamInv
<1>10. /\ (pc = "work" /\ Uses("observer") =>
             IF ObserverTaken THEN ObserverPart(capture) ELSE Without(capture, "observer"))'
       /\ (pc = "work" /\ Uses("trace") =>
             IF Passed("collect") THEN TracePart(capture) ELSE Without(capture, "tracefs"))'
  <2>1. pc = "work" /\ Passed("collect") => ObserverTaken
    BY DEF ObserverTaken
  <2>2. PICK s : s = capture
    OBVIOUS
  <2>3. /\ pc = "work" /\ ObserverTaken /\ ObserverPart(capture) => ObserverPart(capture)'
        /\ pc = "work" /\ ObserverTaken /\ TracePart(capture) => TracePart(capture)'
    BY <1>1, <1>5, <1>9, <2>2 DEF ObserverPart, TracePart
  <2> QED
    BY <1>1, <1>2, <1>3, <2>1, <2>3 DEF CompleteInv
<1>11. ASSUME NEW s, emitted' = emitted \/ ~(Uses("observer") \/ Uses("trace")), Whole(s)
       PROVE  Whole(s)'
    BY <1>3, <1>9, <1>11 DEF Whole
<1>12. (pc \in {"close", "finish", "save"} => Whole(capture))'
  <2>1. pc \in {"close", "finish", "save"} => emitted' = emitted \/ ~(Uses("observer") \/ Uses("trace"))
    BY <1>4, <1>6 DEF CompleteInv, SettledInv, Publishing
  <2>2. PICK s : s = capture
    OBVIOUS
  <2>3. pc \in {"close", "finish", "save"} => Whole(s)'
    BY <1>11, <2>1, <2>2 DEF CompleteInv
  <2> QED
    BY <1>1, <1>2, <2>2, <2>3 DEF Whole, ObserverPart, TracePart
<1>13. (pc \in {"validate", "temporary", "replace"} => Whole(staged))'
  <2>1. pc \in {"validate", "temporary", "replace"} => emitted' = emitted
    BY <1>6 DEF SettledInv, Publishing
  <2>2. PICK s : s = staged
    OBVIOUS
  <2>3. pc \in {"validate", "temporary", "replace"} => Whole(s)'
    BY <1>11, <2>1, <2>2 DEF CompleteInv
  <2> QED
    BY <1>1, <1>2, <2>2, <2>3 DEF Whole, ObserverPart, TracePart
<1>14. (Fresh => Whole(target))'
  <2>1. Fresh => emitted' = emitted
    BY <1>6 DEF SettledInv
  <2>2. Fresh' <=> Fresh
    BY <1>1, <1>2 DEF Fresh
  <2>3. PICK s : s = target
    OBVIOUS
  <2>4. Fresh => Whole(s)'
    BY <1>11, <2>1, <2>3 DEF CompleteInv
  <2> QED
    BY <1>1, <2>2, <2>3, <2>4 DEF Whole, ObserverPart, TracePart
<1> QED
    BY <1>2, <1>3, <1>10, <1>12, <1>13, <1>14 DEF CompleteInv

\* Collected once and in full, in every reachable state.
LEMMA CompleteInvariant == VtdSpec => []CompleteInv
<1>1. VtdInit => CompleteInv
    BY DEF VtdInit, SessionInit, CompleteInv, Fresh, At
<1>2. ASSUME UndoInv, CardInv, CaptureTypes, CaptureTypes', RestoredInv, StreamInv, CompleteInv,
             [VtdNext]_vtd_vars
      PROVE  CompleteInv'
  <2> USE <1>2
  <2>1. CardTypes /\ WorkloadInv /\ Stamp /\ SettledInv
    BY DEF CardInv, StreamInv, RestoredInv
  <2>2. ASSUME VtdBegin PROVE CompleteInv'
    <3>1. /\ pc' = "work" /\ at' = 1 /\ phase' = "begin" /\ workflow' \in Workflows
          /\ attempt' = attempt + 1 /\ UNCHANGED target
          /\ capture' = <<Event("capture_started", "controller", attempt')>>
      BY <2>2 DEF VtdBegin, Begin
    <3>2. ~Passed("collect")' /\ ~ObserverTaken' /\ \A ph \in {"join", "status"} : ~At("collect", ph)'
      <4>1. \A j \in DOMAIN workflow' : ~(j < 1)
        BY <3>1, SessionAssumption
      <4> QED
        BY <3>1, <4>1 DEF Passed, ObserverTaken, At
    <3>3. Event("capture_started", "controller", attempt').kind # "record"
      BY DEF Event
    <3>4. Without(capture, "observer")' /\ Without(capture, "tracefs")'
      <4>1. Len(capture') = 1 /\ capture'[1].kind # "record"
        BY <3>1, <3>3
      <4> QED
        BY <4>1 DEF Without
    <3>5. ~Fresh'
      <4>1. attempt \in Nat /\ (target # NoFile => target[1].n \in 1..attempt)
        BY <2>1 DEF UndoInv, Shape, Stamp
      <4> QED
        BY <3>1, <4>1 DEF Fresh
    <3> QED
      BY <3>1, <3>2, <3>4, <3>5 DEF CompleteInv
  <2>3. ASSUME Environment PROVE CompleteInv'
    BY <2>1, <2>3, CompleteEnvironment
  <2>4. ASSUME VtdController \/ VtdSignal PROVE CompleteInv'
    <3>1. OrderStep
      BY <2>1, <2>4, AttemptOrder
    <3>2. ASSUME Observe PROVE CompleteInv'
      BY <2>1, <3>1, <3>2, CompleteSteps, CompleteCollect DEF Observe
    <3>3. ASSUME Controller PROVE CompleteInv'
      BY <2>1, <3>1, <3>2, <3>3, CompleteSteps, CompleteDone, CompletePublish, CompleteOther DEF Controller
    <3>4. ASSUME Audit \/ Own \/ Bind \/ Restore PROVE CompleteInv'
      BY <2>1, <3>1, <3>4, CompleteSteps, CompleteOther
    <3>5. ASSUME Signal \/ SignalInBind PROVE CompleteInv'
      BY <3>5, CompleteOther
    <3> QED
      BY <2>4, <3>3, <3>4, <3>5 DEF VtdController, VtdSignal
  <2>5. ASSUME UNCHANGED vtd_vars PROVE CompleteInv'
    <3>1. UNCHANGED <<workload, emitted, pc, at, phase, workflow, attempt, capture, staged, target,
                      buffer, drain, unwritten>>
      BY <2>5 DEF vtd_vars, session_vars, control_vars, workload_vars, file_vars, trace_vars, observer_vars
    <3> QED
      BY <3>1 DEF CompleteInv, ObserverTaken, ObserverPart, TracePart, Whole, Fresh, Uses, Passed, At,
         WorkloadAlive
  <2> QED
    BY <2>2, <2>3, <2>4, <2>5 DEF VtdNext
<1> QED
    BY <1>1, <1>2, UndoInvariant, CardInvariant, RestoredInvariant, StreamInvariant, PTL DEF VtdSpec

\* One block with the numbers from 1 to n: each is seen, and none is seen twice.
LEMMA HoldsMeansSeen ==
    ASSUME NEW c \in Whos, target \in Seq(Events), NEW n \in Nat, Holds(target, c, n)
    PROVE  Seen(c) = 1..n /\ Count(target, "record", c) = n
<1>1. Len(target) \in Nat /\ DOMAIN target = 1..Len(target)
    OBVIOUS
<1>2. PICK b \in 0..Len(target) :
         /\ b + n <= Len(target)
         /\ \A i \in 1..n : target[b + i] = Event("record", c, i)
         /\ \A i \in 1..Len(target) :
               target[i].kind = "record" /\ target[i].who = c => i \in (b + 1)..(b + n)
    BY DEF Holds
<1>3. b \in Nat
    BY <1>1, <1>2
<1>4. ASSUME NEW i \in 1..n
      PROVE  target[b + i].kind = "record" /\ target[b + i].who = c /\ target[b + i].n = i
  <2>1. target[b + i] = Event("record", c, i)
    BY <1>2
  <2>2. "record" \in Kinds /\ i \in Nat
    BY DEF Kinds
  <2>3. Event("record", c, i).kind = "record" /\ Event("record", c, i).who = c /\ Event("record", c, i).n = i
    BY <2>2, EventTyped
  <2> QED
    BY <2>1, <2>3
<1>5. ASSUME NEW j \in (b + 1)..(b + n)
      PROVE  /\ j \in 1..Len(target) /\ j - b \in 1..n
             /\ target[j].kind = "record" /\ target[j].who = c /\ target[j].n = j - b
  <2>1. j \in 1..Len(target) /\ j - b \in 1..n /\ b + (j - b) = j
    BY <1>1, <1>2, <1>3
  <2> QED
    BY <1>4, <2>1
<1>6. {j \in DOMAIN target : target[j].kind = "record" /\ target[j].who = c} = (b + 1)..(b + n)
    BY <1>1, <1>2, <1>5
<1>7. Seen(c) = {target[i].n : i \in (b + 1)..(b + n)}
    BY <1>6 DEF Seen
<1>8. Seen(c) \subseteq 1..n
    BY <1>5, <1>7
<1>9. ASSUME NEW k \in 1..n PROVE k \in Seen(c)
  <2>1. b + k \in (b + 1)..(b + n) /\ target[b + k].n = k
    BY <1>3, <1>4
  <2> QED
    BY <1>7, <2>1
<1>10. Count(target, "record", c) = Cardinality((b + 1)..(b + n))
    BY <1>6 DEF Count
<1>11. Cardinality((b + 1)..(b + n)) = n
  <2>1. b + 1 \in Int /\ b + n \in Int
    BY <1>3
  <2>2. Cardinality((b + 1)..(b + n)) =
           IF b + 1 > b + n THEN 0 ELSE (b + n) - (b + 1) + 1
    BY <2>1, FS_Interval, Zenon
  <2> QED
    BY <1>3, <2>2
<1> QED
    BY <1>8, <1>9, <1>10, <1>11

(***************************************************************************)
(* A published capture holds the records the workload caused, once each    *)
(* and from every collector of the experiment, for any experiments, buffer *)
(* sizes, failures and signals: Session.collect() refuses every capture    *)
(* with a counted loss, and stops the collectors when nothing can come any *)
(* more.  Two exceptions are in the property, because nothing counts them: *)
(* records that an observer which does not notice failed writes (Careless) *)
(* could not write, and the last records of the trace, when its reader     *)
(* ended with records left in the tracefs buffer.                          *)
(***************************************************************************)
THEOREM PublishedCaptureIsComplete == VtdSpec => []PublishedIsComplete
<1>1. CaptureTypes /\ CompleteInv => PublishedIsComplete
  <2> SUFFICES ASSUME CaptureTypes, CompleteInv, Fresh
               PROVE  PublishedIsComplete
    BY DEF PublishedIsComplete
  <2>1. Whole(target) /\ target \in Seq(Events) /\ emitted \in Nat /\ Len(buffer) \in Nat
    BY DEF CompleteInv, CaptureTypes
  <2>2. ASSUME Uses("observer"), unwritten => workflow \notin Careless
        PROVE  Seen("observer") = 1..emitted /\ Count(target, "record", "observer") = emitted
    <3>1. Holds(target, "observer", emitted)
      BY <2>1, <2>2 DEF Whole, ObserverPart
    <3> QED
      BY <2>1, <3>1, HoldsMeansSeen DEF Whos
  <2>3. ASSUME Uses("trace")
        PROVE  /\ Seen("tracefs") = 1..(emitted - Len(buffer))
               /\ Count(target, "record", "tracefs") = emitted - Len(buffer)
    <3>1. PICK n \in Nat : n + Len(buffer) = emitted /\ Holds(target, "tracefs", n)
      BY <2>1, <2>3 DEF Whole, TracePart
    <3>2. Seen("tracefs") = 1..n /\ Count(target, "record", "tracefs") = n
      BY <2>1, <3>1, HoldsMeansSeen DEF Whos
    <3>3. n = emitted - Len(buffer)
      BY <2>1, <3>1
    <3> QED
      BY <3>2, <3>3
  <2> QED
    BY <2>2, <2>3 DEF PublishedIsComplete
<1> QED
    BY <1>1, RestoredInvariant, CompleteInvariant, PTL
=============================================================================
