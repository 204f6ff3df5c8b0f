# A verification project for linuxmaxxing

linuxmaxxing is a lab of kernel, virtualisation and I/O experiments. Each experiment has a
system under study (a kernel module, a small VMM with its guest, a workload), most have an
eBPF observer beside it, a Python framework runs them in a lab and publishes one capture,
and a browser application replays the captures. This project models the parts whose control
is hard to test, checks them with TLC and proves the central results with TLAPS.

## 1. Inventory

| component | state | operations | talks to | what is hard | what makes it correct |
|---|---|---|---|---|---|
| `experiments/io` job path (`qedu_chrdev.c`, `qedu_main.c`, `qedu_dma.c`, `qedu_irq.c`, `qedu_sysfs.c`) | mutex, shared coherent buffer, result size and id, event bits, DMA stage, ordered workqueue | open, read, write, release, factorial job, echo job, hard IRQ, two work items, `timeout_ms` | EDU device (MMIO, DMA, IRQ), user tasks | three contexts share event bits and a stage; waits end by signal or timeout while the engine runs on | a result is the answer to its own write; no wake-up is lost; every write returns; leftovers die out |
| `experiments/io` binding (`qedu_probe`, `qedu_remove`) | ten resources | probe with six error labels, self-test, remove | driver core, the job path | failure of any step; handler live before the workqueue exists; buffer freed under a transfer | releases exactly what is held, nobody uses it afterwards, probe and remove end |
| `experiments/virt-virtio` queue (`rng_virtqueue.c`) | rings in guest memory, `last_avail_idx` | `process_queue()` | guest driver, two threads | 16-bit wrap, snapshot of `avail.idx`, driver running on | oldest request first, used ring exact, only bad requests refused |
| `experiments/virt-virtio` transport (`vmm.c` registers) | status, features, queue registers | one write or read per register | guest | any order of writes, reset half way | a live queue has the fixed layout; status only moves forward |
| `experiments/virt-virtio` run (`vmm.c` main, `guest.S`, worker) | guest program counter, eventfds, registrations, worker thread, counters | KVM_RUN loop, set-up of phase D, ISR, worker loop, shutdown, final checks | KVM | hand-over of the queue to a thread, interrupt against used ring, late counters, any call failing | interrupt means completion; one consumer; nothing left; verdict is the guest's; it ends |
| `experiments/kapi` | eleven kinds of allocations, the address-space table | four allocator stages, their undo, `kapi_exit()`, the table loop | kernel allocators | failure at any allocation; bounds that overlap or are unordered | nothing leaks, the cache outlives its objects, the table has no holes |
| `experiments/virt-io` (`vmm.c`, `guest.S`) | toy device: command, status, DMA address, buffer; guest counters, IRR and ISR | register reads and writes, commands with DMA, legacy line or MSI, interrupt handler | KVM and its irqchip | an interrupt that meets `cli`, a pending vector, a missing EOI or a failed ioctl | one interrupt per command, consumed before the next; the run completes |
| `experiments/virt-io` observer (`io.bpf.c`) | nine hash maps by thread: exits, ioctls, commands, transfers in progress | one program per hook | the kernel's hooks, the ring | state of one hook used by a later one; other machines on the host; full maps | a record belongs to the exit, command and ioctl it was made in |
| `experiments/virt-ept` (`vmm.c`, `guest.S`, `ept.bpf.c`) | memory slots, backing pages, EPT; control command in progress, calls, operations | discard, replace a slot, dirty log, huge page and split; the programs with their walk | KVM, the host's MMU | memory is replaced while the guest runs from it; the walk reads tables that were freed; any call failing | the guest finds what it wrote; the walk is what the processor translates; it ends |
| `experiments/virt-vtd` (`_run.py`) | driver, driver_override and network profile of a PCI function; what was touched | audit, bind to vfio-pci, restore | sysfs, NetworkManager, QEMU, the session's stack | a failure or signal after any write; restore runs twice; the unbind waits for QEMU | the card comes back; restore never waits for a VM the session must stop |
| `experiments/virt-virtio` observer (`virtio.bpf.c`) | seven hash maps by thread | entry and return programs of two threads | the run above | two threads inside the same functions, a second process of the same name | a return is told with its own entry, numbers are unique |
| `experiments/virt-vtd` observer (`vtd.bpf.c`, `observer.c`) | operation per thread, one map of pending states for three pairs of probes, guest control block; gate request | host and guest programs, optional probes, the gate | QEMU's threads, interrupts, `_run.py` | a pair without its partner; interrupts above a task; a signal between reading and clearing a request | a record belongs to its own thread's call; a marker per gate, in its place |
| `experiments/memory` (`workload_mm.c`, `mm.bpf.c`) | mappings, descriptors, file names; phase text, slot and number; result | about fifty phases in four exercises, one snapshot each | kernel | any call failing; a text overwritten while it is in use; access to what is not mapped | each snapshot carries the phase that ended; nothing is touched or left that is not held |
| `experiments/scheduler` | none between two events | one program walks the run queue | kernel | reads of a structure in motion | not modelled |
| `framework/runtime.py`, `cli.py` | lock file, undo stack, processes, tracefs instance, capture, published file | begin, modules, trace, observer, workload, collect, close, validate, publish | processes, signals, tracefs, SSH | exceptions anywhere, in the undo too; collectors ending early; buffers overflowing; leftovers of earlier attempts | a published capture is complete and "restored" is true; nothing left without a reason; nothing foreign removed; it ends |
| `common` | BPF ring, two loss counters, stop flag, JSON writer | output, map update, poll, drain, health | probes, observers, controller | drops, records left in the ring, failed writes | no record lost in the ring goes unreported (part of the session's completeness) |
| `app` | playback position of each view | step, seek, filter | captures | derived state | not modelled |

The hazards are listed line by line in `PROJECT.json` ("hazards").

## 2. Modules

```
EduData ── EduDevice ── Qedu ──┬── MCQedu            (TLC)
   └────── EduService ─INSTANCE┴── QeduDriver        (binding around the job path, TLC)
                                      └── DriverProof            (job path and binding, TLAPS)
VirtQueue ── VirtioTransport ─┬─ VirtioRng ──┬── VirtioTrace ─┬─ MCVirtioRng      (TLC)
                              └─ VirtioProof │  (TLAPS)       └─ RngProof (+ BpfProof, TLAPS)
Bpf ──┬── VirtioProbes ──────────────────────┘
      ├── BpfProof                                   (TLAPS, lemmas on maps and ring)
      ├── IoProbes ── ToyIo                          (TLC)
      │                 └── ToyProof (+ BpfProof)    (TLAPS)
      ├── EptProbes ── EptVmm                        (TLC)
      │                  └── EptProof                (TLAPS)
      ├── VtdProbes ── VtdTrace ─┐
      └── MmWorkload ────────────┤
VtdGate ─────────────────────────┼── MCPrograms      (TLC)
VirtQueue ── VirtioTransport ────┤
Kapi ─────────┐                  │
KapiLayout ───┴── KapiModule ────┘
VtdGate, KapiModule, MmWorkload, VtdTrace, BpfProof ── ProgramsProof   (TLAPS)
Observer ── Session ── VtdSession ── MCSession       (TLC)
                          └── CaptureProof           (TLAPS)
```

**EduData, EduDevice, EduService.** Bytes are abstracted to where they come from: the bytes of
a payload, a prefix of it, its number, its factorial, zeroes. `EduDevice` is QEMU's EDU function as
the driver uses it (external): an engine that is busy ignores the registers that would
start it. `EduService` is the promise of `/dev/qedu` without any of the machinery: writes
are served one at a time, each is answered with its own bytes or given up, and only a
given-up job can make a later answer wrong.

**Qedu** is the bound driver. A variable is a field of `struct qedu_dev` under its own name,
the position of a task inside `write(2)` (`pc`), the handler (`irq`), the workqueue (`wq`), or the kworker
(`worker`). An action is what runs between two points at which another context can see a
difference. Examples: `WriteBegin` (mutex, forget the old result, copy), `WriteParse` (`kstrtou32()`
on the shared buffer, a step of its own because a leftover transfer can change it), `DmaAbort`, `DmaAbortStage`,
`CancelAdvance`, `CancelFinish` (the four steps of giving an echo up), `IrqRead`, `IrqAck`, `IrqStage`,
`IrqQueue` (the handler reads the stage and queues later), `AdvanceBegin`, `AdvanceClear`, `AdvanceStart`
(around the `msleep()`). `jobs`, `clean` and `aborts` are history variables: what each io id asked for,
whether the device and driver were at rest when the current job took the mutex, and how many waits were given up.

Abstractions: tx/rx statistics and trace points are left out; all echo payloads have one
length; the four DMA register writes are one step (only the last starts the engine); the
acknowledge and the setting of the factorial bit are one step; `Parses` lets a mixed buffer
parse as any number.

**QeduDriver** wraps it in the life of a binding. `todo` is what is left of the probe, of an
error path or of the removal; `res` what is held. The constant `Unbind` says whether the
device can be unbound under open files (sysfs) or only by rmmod, which open files prevent. The device
keeps its state from one binding to the next, a transfer whose buffer was freed included
(`dma_stale`, `wild`).

**VirtQueue** has the rings, `struct virtio_queue` and `process_queue()` in five statement groups
per request. The driver generalises `guest.S`: any batches, any free descriptor, and bad
descriptors. `staged`, `published` and `returned` are history: who owns which request.

**VirtioTransport** has one operator per register of `write_register()`. `alive` turns FALSE where
the code returns -1. **VirtioRng** is one run: `guest.S` is a list of operations (`Program`), the VMM
thread runs it and serves its exits, sets up phase D after the second doorbell and shuts
down; the worker is the second thread. Calls that may fail are separate actions
(`FaultStep`) without fairness, and `faulted` remembers them. The branch "QueueNotify unexpectedly
reached userspace" needs KVM to break its ioeventfd contract and is not modelled; neither
is a failing `pthread_join()`.

**Bpf** is what the eBPF programs share: hash maps of `MaxEntries` entries, the ring, which may be full
at any time, and `lab_output()` and `lab_map_update()`, which count what did not find room. A program is an
operator from the state of its maps to the next; it sees the thread it fires in and its arguments and nothing else.
The modules named Probes hold one such operator per program. Beside each of them stands a model of the system
under study whose steps say which hooks they fire, and a history variable (`happened`, `calls`, `told`) that knows
what the step really was: the call it belongs to, its arguments, the tables at that moment. The trace is exact when
the two agree as long as no loss was counted, which makes the programs' bookkeeping by thread, number and phase a thing to
check and not an assumption.

**IoProbes, ToyIo.** `ToyIo` is the VMM of virt-io from its first ioctl, the device, and `guest.S` as a list of
operations (`Program`) with its interrupt handler. The irqchip is external: an edge or an MSI sets a bit of
the IRR, delivered before the next instruction when IF is set. `apicv` chooses whether the EOI and the injection leave the guest. `OtherVcpu` is the
vCPU thread of another machine that goes through the same hooks.

**EptProbes, EptVmm.** `ept.tree` is the page table in memory, stale contents of freed tables included; `ept.flat` is what
the processor translates. `EptProbes` walks the first, and the walk must say the second. The layout is scaled down to
eight frames and three levels: code and data in slot 0, a gap, an MMIO frame, and one large page in slot 1.
Each of the five commands of `handle_control_command()` is a list of steps that may fail one by one.
`Loader` stands for the calls ld.so makes before `main()`.

**MmWorkload.** An exercise is a list of instructions: a phase, a call with what it adds and takes away and what the
code does when it fails, an access, a branch on what is held or on swap. `phasef()` keeps its two buffers, because the text of
the phase in progress must survive the formatting of the next.

**VirtioProbes, VirtioTrace.** The whole virtio-rng run again, each step together with the functions and system calls it
enters and leaves in its thread, a second process of the same name and one of another.

**VtdProbes, VtdTrace, VtdGate.** On the host, two threads of QEMU and another program make VFIO and KVM calls, each with the traced
functions it goes through; any one of the optional probe pairs may be missing. In the guest, the loopback test, tasks that map memory and
interrupts above them on two CPUs. `VtdGate` is the handshake of `gate()` in `_run.py` with the observer's main loop.

**Kapi, KapiLayout, KapiModule.** The stages of `kapi_init()` with every failure path, the loop of
`print_global_constants()` for arbitrary bounds, and both in the order of the module's life.

**Observer** is one observer process: the probes' side (`lab_output`, `lab_map_update`), `lab_poll()` with its final drain,
`lab_health()`, and the `main()` the observers share. `observer` is its position; until the handlers are installed a
signal kills it, afterwards it only sets `exiting`. Attaching and `LX_READY` are one step: nobody causes records before the
controller has seen the line. A record is a number, in the order in which the workload causes them. A write of one may fail: the observers of virt-ept and
virt-virtio ask `json_writer_ok()` and fail with it (`ObserverWriteFails`); those of virt-io, memory and scheduler do not ask, and virt-vtd's asks about a fully
buffered stream whose `fflush()` it ignores (`ConsumeShort`). `unwritten` is history: a write failed.

**Session** is `Session.execute()` attempt after attempt. A workflow (an experiment's `run()`) is a sequence of steps;
`at` and `phase` say where the controller is, `stack` is the ExitStack, `cb` the undo that runs. Acquiring a resource and
registering its undo are two steps, because a signal can fall between them. `WorkFails` is every other
way a call of the workflow ends (a failed command, a bad exit status, a missing line, a timeout). `Closing` covers both calls of
`stack.close()`: from the success path (`close`) and from the exception handler (`xclose`). `Signal*` is
SIGTERM or SIGHUP turned into an exception by `signals()`, wherever the controller is. `lost` is history: the resources
whose undo was not registered because of a signal, was cut short by one, or failed. `Leftovers` is what an earlier attempt may have left.
`TraceInitFails` has both outcomes of the `close()` that `Trace.__init__()` calls itself: the instance is gone, or it stays without an undo. `Kept` is what a run brings in
for good: the tracefs mount (`TraceMount`), virt-vtd's two vfio modules (`Modprobe`) and memory's swap (`Swapon`); no code takes them away again.
The constant `Careless` holds the workflows whose observer does not notice a failed write. `DrainEnds`: the trace reader ends as soon as it is told to stop and
its last read is 0.25 s old, which may already be so when it is told, so records can stay in the buffer.

Abstractions: validation of single records against the schema is left out (`validate()` keeps the lifecycle and evidence
checks); the io experiment's undo of `timeout_ms` is part of unloading the module; one
observer per experiment; a collector that has a filter (memory's pid filters of the trace) is told what passes it.

**VtdSession** adds the network card: `DeviceOwnership.bind_vfio()` and `restore()` write by write, `restore` on the
stack between the observer and QEMU. `Held` is the kernel's rule that a device leaves vfio-pci only when
nobody has it open. **MCSession** spells the run sequences out.

## 3. Runs

| run | instance | checks |
|---|---|---|
| `qedu_jobs` | 2 tasks, 3 writes, 2 aborts, 2 numbers, 2 texts | `CleanResultExact`, `UnabortedJobsDrain`, `NoLostWakeup`, `ImplementsService` |
| `qedu_timeout` | 2 tasks, 2 writes, 2 aborts | `WriteReturns` with a device that may never answer; `LeftoversDieOut` with one that does |
| `qedu_stale_factorial` | the same, 1 abort | violated: `FactorialTextExact` |
| `qedu_driver` | 1 task, 2 writes per binding, 2 bindings | `TeardownExact`, `NoUseAfterRelease`, `UnabortedNeverWild`, `BindingSettles` |
| `qedu_unbind` | the same, `Unbind` | violated: `TeardownStopsJobs` |
| `virtio_rng` | the real program: ring of 8, 5 + 1 requests, 16-bit indices, every call may fail; its observer with maps of 2 entries | `VirtioTraceExact`, `InterruptMeansCompletion`, `OneConsumer`, `ShutdownExact`, `RunEnds`, `RunSucceeds` |
| `toy_io` | the real program, 2 failing calls, 2 other vCPU threads, maps of 2 entries | `TraceExact`, `OneInterruptPerCommand`, `ToyRunCompletes` |
| `toy_io_halt` | the same | violated: `HaltEndsRun` |
| `ept` | the real program on 8 frames, 2 failing calls, maps of 2 entries | `EptTraceExact`, `GuestMemorySurvives`, `EptRunCompletes` |
| `programs` | six programs that never meet, one at a time (`MCPrograms`) | see below |
| `session` | four run sequences, an earlier attempt with three kinds of leftovers, 2 records or 1 record and a signal, failing writes, rings of 1 | `PublishedIsComplete`, `RestoredIsTrue`, `LeftoverIsExplained`, `CardComesBack`, `RestoreNeverWaitsForQemu`, `ForeignUntouched`, `AttemptEnds` |
| `session_failed_publish` | no signal needed | violated: `FailedRunKeepsCapture` |

`programs` starts one of six programs and leaves the variables of the others as they are, so it is six
model checks of components too small for a configuration of their own, with the sum and not the product of their states:

| program | instance | checks |
|---|---|---|
| kapi | 3 regions in a space of 3, 2 cache objects, 2 loads | `NoLeak`, `TableCovers`, `GapsAreUnclaimed` |
| memory | all four exercises, with and without swap, 2 failing calls | `PhaseSnapshotExact`, `NoWildAccess`, `VerdictAndCleanUp` |
| vtd | 2 calls of two alike threads of QEMU and another program, or 2 tests, 3 mappings and 2 interrupts on 2 CPUs; maps of 2 entries | `VtdTraceExact` |
| gate | both signals, SIGTERM, a controller that gives up | `GateHandshake` |
| queue | ring of 3, indices modulo 6 | `ServesOldestRequest`, `UsedRingExact` |
| registers | every register with good and bad values | `DoorbellReachesLiveQueue` |

The trace properties say: as long as no loss was counted, the records of every step are exactly the ones a
complete and true trace would hold. `TraceExact`: the VM exit, command and ioctl a record names are the ones it
was made in. `EptTraceExact`: so is the control command, and the walk of every sampled frame is the processor's
translation, although freed tables keep their contents. `VirtioTraceExact`: a return is told with the arguments and the number of its own
entry, in two threads, with the queue as it was then. `VtdTraceExact`: a mapping, invalidation, attachment or message
belongs to the call of its own thread, an interrupt to its own CPU and episode. `PhaseSnapshotExact`: the record printed for a phase has its own text and
number, and the one snapshot with that number shows the address space that phase left.

**Bounds.** `MaxIo` 3 and `MaxAborts` 2 let an aborted job, its late interrupt and two later jobs overlap, and let a
second abort meet the leftovers of the first; two tasks are enough for one to hold the
mutex and one to wait. Two numbers tell a stale factorial from the right one. Two bindings let a transfer
outlive its buffer. A ring of 3 with indices modulo 6 wraps the indices at every possible fill
level, which the experiment's own six requests never do. The regions of the `kapi` run cover empty, overlapping,
adjacent and unordered cases; the proof covers the rest. In `session` one signal reaches every step of the
controller once; the earlier attempt has left nothing, a trace instance, the vfio modules and a network profile that is down, or the experiment's modules and the instance.
Two records with a ring and a trace buffer of one make both overflow, let a write fail for the first or the second and leave a record in
flight when the collectors stop. The constraint `SignalOrRecords` keeps the second record and the signal apart: neither is forced by any fairness, an attempt that a signal hits before `publish()` publishes nothing, and the proofs have no such bound.
Attempts share only what `Leftovers` names, so one attempt after the earlier one is enough.
Maps of two entries are full as soon as two other threads are in them, which the code's 64 entries and more reach
only with as many threads; two threads share a map or one of them is refused. Two failing calls reach a failure while an earlier one is being handled. Three
levels and eight frames have a table above a table above a leaf, a large leaf at the middle level, and two frames that share a table. Three mappings let an
interrupt map above the sampled one while another CPU maps too; two loopback tests reach the once-bits of the guest programs.
`CHECK_DEADLOCK FALSE` is set where the program ends (the module is unloaded for the last time, the last binding is over,
a refused access ends the VMM, a guest stays halted, the workload has printed its verdict).

**Fairness.** `KernelFairness`: the scheduler runs a task that can run (its timer included), a pending
interrupt is handled, the kworker runs its queue. Weak fairness of the mutex is enough because the
writes are bounded. Nothing is assumed of the device in `BrokenHardwareSpec`; `LeftoversDieOut` states its
device assumption in the formula. `DriverFairSpec`: probe and remove run to their end. `TraceFairSpec`: the host runs
both threads of the virtio run, and no fault is ever forced. `ToySpec` and `EptSpec`: the host runs the VMM's thread, and the guest inside it; the other machines and the
ring are left alone. `EptSpec` also says that the loader reaches `main()` (strong fairness, because it may make calls first). `VtdFairSpec`: only the controller is fair, because each of its waits has a timeout
(`Process.wait()`, `wait_control()`, `stop()`, `join(10)`); nothing is assumed of the observer, the workload or the trace reader.

**Findings.** (1) A factorial wait that ends by signal or timeout leaves the engine running; its interrupt completes the next
factorial early and the reader gets the wrong number. (2) Unbinding through sysfs under a running `write(2)` frees the interrupt
while the job waits for it. (3) With the irqchip in the kernel a halted guest stays inside
KVM_RUN, so the VMM of virt-io never reports the run that lost an interrupt. (4) `atomic_bytes()` can fail after `os.replace()`: the attempt is then
reported as failed with its capture published.

**What the properties leave out.** Each exception is a behaviour of the code, stated in the property's comment.
`RunEnds` excludes a failure of the backend in phase D (`backend_result`): guest and VMM then wait for each other, because `backend.result` is only looked at after
the loop; it also excludes a failing write to the worker's wake-up eventfd at the shutdown, after which the join waits for ever. `VtdTraceExact` excludes a mapping that an interrupt makes above the sampled one (it takes its place at the return,
since the guest programs keep one pending state per task) and the phase from the end of a second loopback test on (it is taken back only with the record, which is told once).
The comment "Sample the guest driver's DMA API call" is narrower than the program, which samples the first mapping of any task during the
test. `GateHandshake` excludes a request whose signal comes between the observer's answer to the last one and its `gate_request = -1`
(`observer.c:402`), which takes both away; the controller signals the end only after the whole workload, so this needs an observer that is stopped for as long.
`CardComesBack` excludes a restore that a signal cut short or that failed, and a network profile that `bind_vfio()` did not get to mark as down: nmcli took it down while it reported a failure,
or a signal came between nmcli and `profile_down = True` (`virt-vtd/_run.py:84-85`). Then `restore()` leaves the profile down for good.
`RestoredIsTrue` and `LeftoverIsExplained` exclude `Kept`: after a capture that says "restored" the tracefs mount, the vfio modules and the swap are still there (the swap belongs to a guest that is made
anew for every execution). `PublishedIsComplete` excludes the records of an observer of `Careless` when a write failed, and the records still in the tracefs buffer when its reader ended; nothing in `collect()` can
tell either case from a complete capture. `GuestMemorySurvives` expects zero in the data page after command 1 discards it, which is what `MADV_DONTNEED` is there for. `VerdictAndCleanUp` covers what the code means to give back: after a failing
`munmap()` of the hole or a failing `mremap()` ranges stay mapped until the process ends, although the closing phase says that all were cleaned up.
Without swap the pageout phases are published although nothing was paged out.

## 4. Proofs

Every theorem holds for all values of the constants that satisfy the named ASSUMEs. The shape is the same throughout: the property is
strengthened to an inductive invariant, there is one lemma per action (or group of actions that change the same variables), and the theorem joins
the start, the step and the consequence with PTL.

**The job path** (`DriverProof`): `TypeCorrect`, `CleanResultsAreExact`, `UnabortedJobsDrainAlways`, `NoWakeupIsLost`,
`QeduImplementsService`. `CleanResultExact` alone is not inductive: that the event bit set by
`FinishPublish` belongs to this job depends on how far the device, the handler and the kworker are. `JobInv` says exactly that:
the lock is held by the task inside (`LockInv`), ids are unique and answered once (`IdInv`),
a clean job is at one of the listed joint positions of engine, interrupt line, handler, queue and kworker
(`FactRun`, `EchoOut`, `EchoBack`, `EchoEnd` in `CleanInv`), and until the first abort every job is clean (`DrainInv`).
For the refinement every step is shown to be a step of `EduService` or a stutter under the mapping in `Qedu` (holder, answer, failed, sound);
it needs `JobInv` and `ActiveJobKnown`.

**The binding** (`DriverProof`): `TeardownIsExact` for every number of bindings; `NothingUsedAfterRelease` and `UnabortedIsNeverWild` under
the hypothesis `Unbind = FALSE`. The hypothesis is needed: `misc_deregister()` does not wait for open files, and the run `qedu_unbind` shows a job outliving the teardown
when the device is unbound under one. Without unbinding through sysfs it holds: an open file refers to the module (`.owner`), so `rmmod` is refused.
`LifeInv` makes the list of steps still to do and the set of resources a function of one place in the probe plan, its error path or the remove plan. The lemmas about
the plans compare every error path with what is held at the failing step. `FilesInv` and `UseInv` add that a file is open only while the whole driver is there and who can still run at
each step of the teardown (a cancelled work item cannot come back, because the line is freed before); `BindingInv` joins them. `WildInv` adds `DmaInv`: as long as no wait and no
self-test poll was given up, a transfer belongs to the job or the test that waits for it, so it is over before the buffer goes.

**The virtqueue and its transport** (`VirtioProof`): `OldestRequestServed`, `UsedRingIsExact`, `DoorbellIsLive`, for every queue size, every index width that it
divides and every order of register writes. `QueueInv` relates the 16-bit indices modulo their width to three sequences of requests (staged, published, returned): the
slots from `used_idx` on name the outstanding ones (`AvailNames`), the worker's snapshot is a prefix of them (`Window`), and the descriptors of all requests are distinct, from which
a pigeonhole argument gives that no slot is overwritten before it was read. `TransportInv` says what FEATURES_OK and QUEUE_READY imply about the features and the queue, and that a doorbell is in service only with both.

**The rng run** (`RngProof`): `OneConsumerAlways`, `InterruptsAreTrue`, `ShutdownAlwaysExact`, for every number of requests that fits the queue, failing calls and
interleavings. `ConsumerInv` is enough for the first: the VMM serves a doorbell only between two runs of the guest and only before the worker has
been set up. The others need `RunInv`: the contents of both rings are a function of the guest's program counter (`Prepared`, `Published`) and of
how far the consumer is (`RingTypes`, `DeviceInv`); who was rung for, and through the exit or the eventfd (`KickInv`); which of cause, line, handler
and completion flag stands for a finished request (`AnnounceInv`); and what each step of the shutdown still holds (`ShutdownInv`).

`VirtioTraceIsExact` is about the same run seen through the seven maps of `virtio.bpf.c`, for maps of any size. `TraceInv` adds two things to `RunInv`. `Agrees`: while
nothing was lost, what the maps hold for a thread is a function of the calls it is in (`Sees`), whatever the other threads have put there. `CallsInv`: the calls of the VMM thread are a function of its
phase and of how far its `process_queue()` is (`VmmPlace`), those of the worker a function of its position in `virtio_backend_worker()` (`WorkerPlace`). The second is needed because a hook is harmless only at the call of a
function its thread is not yet in, or at the return from the innermost one (`Legal`): each function has one slot per thread, so a recursive call would overwrite it. With both, each
step is a list of legal events, and each of these tells the truth and keeps the maps in agreement.

**The toy device** (`ToyProof`): `EveryCommandOneInterrupt`, whatever calls fail and however many other machines run. `OneInterruptPerCommand` speaks of one
moment of the loop. `ToyInv` follows a command through all of them: asked for by the guest, being raised, waiting in the LAPIC, refused, in the handler,
answered (`ExactlyOne`, while no call failed), with the commands written so far as a function of the guest's program counter; and independently of failures the
interrupts counted or waiting never exceed the commands executed (`AtMostOne`). The acknowledgement in the handler is what ends "DONE" before the next command.

`ToyTraceIsExact` says the same of the trace that `io.bpf.c` makes of this run. Beside `ToyInv` it needs that a command in execution has been counted (`Busy`), and that while nothing was lost the
nine maps hold for the VMM's thread exactly what its position and its counters say (`MapsInv`). The other machines go through the same hooks and can fill the maps, but change no entry of this thread.

**The guest's memory** (`EptProof`): `GuestMemoryAlwaysSurvives`, whatever calls of virt-ept's `vmm.c` fail, with and without large pages, for the three levels and two entries per table of the run (`EPT_LEVELS` is 4). What the guest must find is what it last wrote, or zero in the page it had discarded. The property speaks of the moments at which the guest runs; the work is done between them, so
`MemoryInv` follows each step of a command: which slots exist and what is behind them is a function of the step (`SlotsInv`); the frames of the three memories are distinct, and one that has not been touched is zero
(`FramesInv`); the active memory holds what the guest must find, and from the `memcpy()` on the replacement does too (`ContentInv`); and a frame that the EPT translates is the host frame behind an existing slot (`FlatInv`), which
is what a slot deleted without its translations, or a discarded page still mapped, would break. A call that failed ends the run (`Stopped`). How an entry changes the translation of the frames it does and does not cover is proved once (`MapsOnly`) from the definition
of `MapAt`.

**Sessions** (`CaptureProof`): `LeftoversAreExplained` and `ForeignIsNeverTouched` of the session composed with the card, for any workflows, modules and bounds.
`UndoInv` says where the undo of a resource that is present can be: on the
stack, in the callback that runs, in the step that has acquired it and registers it next (`Pending`), or in `lost`; at the end of an attempt the first three are
empty. What is in `Kept` has no undo and is left out of it. `OwnInv` says that whatever the attempt is going to undo it has made itself; it rests on the refusals of `module()` and `Trace.__init__()`.

**Captures and the card** (`CaptureProof`): `CardAlwaysComesBack`, `PublishedMeansRestored`, `QemuNeverBlocksRestore`, `PublishedCaptureIsComplete`.
`CardInv` pairs every write that moved the card with the flag that makes `restore()` undo it. `RestoredInv` adds that whatever is
about to be published was stamped by this attempt after a clean undo. For the wait on QEMU, `WorkloadInv` says that a virtual machine that runs was started by a step
that is over or is this one. Completeness needs the whole path of a record (`StreamInv`): output so far, ring and losses make up what was
emitted, for the observer (`ObserverInv`) unless a write failed, after which an observer that asks ends as failed, and for tracefs (`TraceInv`), where what is in the buffer counts on to the end, nothing is emitted before both collect (`CausedInv`), and what was collected when up to the publication (`CompleteInv`).

**Gate, memory phases, kapi** (`ProgramsProof`): `GateAlwaysShakesHands` (`GateInv`: a runner that asks has its request in the word or its answer in the pipe, unless the signal met the clearing store, and the log is as far as the runner knows);
`SnapshotsAreOfTheirPhase` (`PhaseInv`: the buffer of the phase in progress still holds its name although the texts take turns); `ModuleNeverLeaks`
(`KapiInv`: during init exactly the objects before the current one are held, afterwards every object that is held is still on the list of frees, and the cache comes after its objects); `TableAlwaysCovers` and
`GapsAlwaysUnclaimed` (`LayoutInv`: everything below the cursor is printed, and every gap lies between the regions
printed and the ones to come).

**The memory workload** (`ProgramsProof`): `WorkloadNeverAccessesWild` and `WorkloadAlwaysCleansUp`, for any number of failing calls, from `MmInv`. Its tables (`FileHolds`, `AnonHolds`, `ShmemHolds`, `ThpHolds`) say of each of
the 142 instructions what may be held when it is next, `Certain` which of it no failure can have left out: all but the second descriptor, the shared pair before its test, and the two views. What is held lies between the two, up to the ranges of a failed `munmap()` of the hole and a failed first
`mremap()` (`Excused`), and a missing view means that a call has failed, which is why the tests for the views never leave a failure out of the verdict. The lemmas `...Flows` show this of one instruction after the other, for its success and for its failure, and
`OneLabel` that a jump has one place to go to.

**The virt-vtd trace** (`ProgramsProof`): `VtdTraceIsExact`, for any threads, any number of calls, tests, mappings and interrupts, and maps of any size. On the host (`VtdHostInv`) a thread's entries in the two maps are a function
of the call it is in and of the traced functions still ahead of it; the entry and return of a pair follow each other in one thread (`WellFormed`), which is why one map of pending states can serve three pairs of probes. In
the guest (`VtdGuestInv`) the control block and the pending states are a function of the tests run, of whether a mapping was sampled, and of each task's mappings that are open; the numbers in use on
different tasks stay apart. The property had to be corrected for it: an earlier form held for the two tests of the run but not for a third. The phase is wrong from the end of the second test on, so that is where
the property stops speaking of it.

**The maps and the ring** (`BpfProof`): what a lookup, update and deletion leave at one key, that other keys are not touched, what a refused record or update leaves, and that a loss is never forgotten. The three trace proofs share them.

**Assumptions.** Besides types and positive bounds: payload sets are disjoint, `NoTask` is no task, module names are no names of steps, the index width is a multiple of the
queue size (virtio's 2^16 and a power of two), the requests of the run fit the queue. `CollectAssumption` and `CardAssumption` are about the workflows: each
collector is started once, before the workload, and collected once the workload is over; the card is audited once before it is owned, owned before it is bound and before the virtual machine starts, and the machine is stopped before the restore.
All `run()` functions under `experiments/` are of this form, and TLC evaluates the assumptions on the workflows of the run `session`.

**Only model-checked.**
- Liveness (`WriteReturns`, `LeftoversDieOut`, `BindingSettles`, `RunEnds`, `RunSucceeds`, `AttemptEnds`, `ToyRunCompletes`, `EptRunCompletes`): fairness and ENABLED are out of the prover's reach.
- `EptTraceExact`: the record carries a walk of the page tables, whose stale contents after a slot is replaced would have to be part of the invariant; the walk is a fold over the levels.

## 5. Not modelled

- Trace point declarations, show functions, printing, the formatting of records and `json_writer.h`: they keep no state of the programs
  under study. Of the JSON writer only its error is modelled, as a write that fails.
- What a record says of raw memory: LAPIC and IOAPIC pages (`io.bpf.c`), accessed and dirty bits (`ept.bpf.c`), descriptors and table entries (`vtd.bpf.c`),
  the page-table and xarray walks of `mm.bpf.c` and its limit of 16 areas per snapshot. They read kernel structures once and keep nothing.
- The scheduler experiment: one program, no state between two events.
- `prepare()` and `guest_main()` of virt-vtd, the study guest of `guest.run()`, `fetch`, the lab lock, and the schema checks of single records.
- The lab environment (`environment.py`, `build.sh`): SSH, image building, process start-up.
- The viewer: it derives what it draws from a capture and keeps a position.

## 6. Plan

1. Proofs: `EptTraceExact`, with the page table as a function of where the VMM and the guest are.
2. `cli.py` and `guest.run()`: the lab lock, the study guest and the poll of its result, `fetch`.
