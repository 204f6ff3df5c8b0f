--------------------------- MODULE VirtioTransport ---------------------------
(***************************************************************************)
(* The virtio-mmio register file of experiments/virt-virtio/vmm.c: what    *)
(* write_register() and read_register() do with one access of the guest.   *)
(* A write the code answers with -1 ends the run loop: alive becomes       *)
(* FALSE and the registers keep their values.  A 64-bit queue address is   *)
(* the pair of its 32-bit halves.  QueueNotify calls process_queue() and   *)
(* the access returns when it does.                                        *)
(***************************************************************************)
EXTENDS VirtQueue

CONSTANT Gpa   \* the fixed GPA (low half) of each queue area

Areas == {"desc", "driver", "device"}

ASSUME TransportAssumption == Gpa \in [Areas -> Nat]

VARIABLES status, device_features_sel, driver_features_sel, driver_features,
          interrupt_status, queue_sel, queue_addr,
          alive   \* the last access was accepted

dev_vars == <<status, device_features_sel, driver_features_sel, driver_features,
              interrupt_status, queue_sel, queue_addr>>
reg_vars == <<dev_vars, alive, queue_vars>>

StatusBits  == {"ACKNOWLEDGE", "DRIVER", "FEATURES_OK", "DRIVER_OK"}
Accepted    == {"ACKNOWLEDGE", "DRIVER", "FEATURES_OK"}
Operational == Accepted \cup {"DRIVER_OK"}

VERSION_1_WORD == 1
VERSION_1_MASK == 1
RNG_QUEUE      == 0
FixedAddr      == [a \in Areas |-> [low |-> Gpa[a], high |-> 0]]

Negotiated == driver_features = <<0, VERSION_1_MASK>>
FixedQueue == queue_size = QueueSizeMax /\ queue_addr = FixedAddr

TransportInit ==
  /\ QueueInit
  /\ status = {}
  /\ device_features_sel = 0
  /\ driver_features_sel = 0
  /\ driver_features = <<0, 0>>
  /\ interrupt_status = 0
  /\ queue_sel = 0
  /\ queue_size = 0
  /\ queue_ready = 0
  /\ queue_addr = [a \in Areas |-> [low |-> 0, high |-> 0]]
  /\ alive = TRUE

-----------------------------------------------------------------------------
(* write_register(), one operator per register *)

Reject == alive' = FALSE

(* A write that is refused unless ok, and otherwise assigns as set says. *)
Guarded(ok, set, others) ==
  \/ ok /\ set /\ UNCHANGED alive
  \/ ~ok /\ Reject /\ UNCHANGED others

WriteDeviceFeaturesSel(v) ==
  /\ device_features_sel' = v
  /\ UNCHANGED <<status, driver_features_sel, driver_features,
                 interrupt_status, queue_sel, queue_addr, queue_size,
                 queue_ready, last_avail_idx, alive, data_vars>>

WriteDriverFeaturesSel(v) ==
  /\ Guarded("FEATURES_OK" \notin status, driver_features_sel' = v, driver_features_sel)
  /\ UNCHANGED <<status, device_features_sel, driver_features,
                 interrupt_status, queue_sel, queue_addr, queue_size,
                 queue_ready, last_avail_idx, data_vars>>

WriteDriverFeatures(v) ==
  /\ Guarded("FEATURES_OK" \notin status /\ driver_features_sel < 2,
             driver_features' = [driver_features EXCEPT ![driver_features_sel + 1] = v],
             driver_features)
  /\ UNCHANGED <<status, device_features_sel, driver_features_sel,
                 interrupt_status, queue_sel, queue_addr, queue_size,
                 queue_ready, last_avail_idx, data_vars>>

WriteQueueSel(v) ==
  /\ queue_sel' = v
  /\ UNCHANGED <<status, device_features_sel, driver_features_sel,
                 driver_features, interrupt_status, queue_addr, queue_size,
                 queue_ready, last_avail_idx, alive, data_vars>>

WriteQueueSize(v) ==
  /\ Guarded(queue_sel = RNG_QUEUE /\ queue_ready = 0 /\ v = QueueSizeMax,
             queue_size' = v, queue_size)
  /\ UNCHANGED <<status, device_features_sel, driver_features_sel,
                 driver_features, interrupt_status, queue_sel, queue_addr,
                 queue_ready, last_avail_idx, data_vars>>

(* QUEUE_{DESC,DRIVER,DEVICE}_{LOW,HIGH} replace one half of an address. *)
WriteQueueAddr(a, half, v) ==
  /\ Guarded(queue_sel = RNG_QUEUE /\ queue_ready = 0,
             queue_addr' = [queue_addr EXCEPT ![a][half] = v], queue_addr)
  /\ UNCHANGED <<status, device_features_sel, driver_features_sel,
                 driver_features, interrupt_status, queue_sel, queue_size,
                 queue_ready, last_avail_idx, data_vars>>

(* Disabling a queue needs no layout; enabling it does. *)
WriteQueueReady(v) ==
  /\ Guarded(queue_sel = RNG_QUEUE /\ v <= 1 /\ (v = 1 => FixedQueue),
             queue_ready' = v, queue_ready)
  /\ UNCHANGED <<status, device_features_sel, driver_features_sel,
                 driver_features, interrupt_status, queue_sel, queue_addr,
                 queue_size, last_avail_idx, data_vars>>

WriteInterruptAck(v) ==
  /\ Guarded(v <= 1, interrupt_status' = IF v = 1 THEN 0 ELSE interrupt_status,
             interrupt_status)
  /\ UNCHANGED <<status, device_features_sel, driver_features_sel,
                 driver_features, queue_sel, queue_addr, queue_size,
                 queue_ready, last_avail_idx, data_vars>>

(* STATUS = 0: everything back to its initial value. *)
ResetRegisters ==
  /\ status' = {}
  /\ device_features_sel' = 0
  /\ driver_features_sel' = 0
  /\ driver_features' = <<0, 0>>
  /\ interrupt_status' = 0
  /\ queue_sel' = 0
  /\ queue_size' = 0
  /\ queue_ready' = 0
  /\ queue_addr' = [a \in Areas |-> [low |-> 0, high |-> 0]]
  /\ last_avail_idx' = 0
  /\ UNCHANGED <<alive, data_vars>>

(* FEATURES_OK is dropped from what the driver asked for when it is new and the
   negotiation is not acceptable. *)
FeaturesRefused(value) ==
  /\ "FEATURES_OK" \in value \ status
  /\ ~({"ACKNOWLEDGE", "DRIVER"} \subseteq value /\ Negotiated)

DriverOkAllowed(value) ==
  "DRIVER_OK" \in value \ status =>
    "FEATURES_OK" \in status /\ queue_ready = 1 /\ FixedQueue

WriteStatus(value) ==
  \/ value = {} /\ ResetRegisters
  \/ /\ value # {}
     /\ Guarded(status \subseteq value /\ DriverOkAllowed(value),
                status' = IF FeaturesRefused(value) THEN value \ {"FEATURES_OK"} ELSE value,
                status)
     /\ UNCHANGED <<device_features_sel, driver_features_sel, driver_features,
                    interrupt_status, queue_sel, queue_addr, queue_size,
                    queue_ready, last_avail_idx, data_vars>>

(* Mutant: the doorbell is not checked against the state of the queue. *)
WriteQueueNotifyAnytime(v) ==
  /\ \/ v = RNG_QUEUE /\ PqCall("vmm") /\ UNCHANGED alive
     \/ v # RNG_QUEUE /\ Reject /\ UNCHANGED queue_vars
  /\ UNCHANGED dev_vars

(* A doorbell that reaches write_register() is served only for the live queue. *)
WriteQueueNotify(v) ==
  LET allowed == v = RNG_QUEUE /\ status = Operational /\ queue_ready = 1
  IN /\ \/ allowed /\ PqCall("vmm") /\ UNCHANGED alive
        \/ ~allowed /\ Reject /\ UNCHANGED queue_vars
     /\ UNCHANGED dev_vars

(* The doorbell access ends with process_queue()'s result. *)
NotifyReturns ==
  /\ PqReturn("vmm")
  /\ alive' = (pq["vmm"].pc = "done")
  /\ UNCHANGED dev_vars

-----------------------------------------------------------------------------
(* read_register(): the registers whose value is state *)
ReadRegister(reg) ==
  CASE reg = "DEVICE_FEATURES" ->
         IF device_features_sel = VERSION_1_WORD THEN VERSION_1_MASK ELSE 0
    [] reg = "STATUS" -> status
    [] reg = "QUEUE_SIZE_MAX" -> IF queue_sel = RNG_QUEUE THEN QueueSizeMax ELSE 0
    [] reg = "QUEUE_READY" -> IF queue_sel = RNG_QUEUE THEN queue_ready ELSE 0
    [] reg = "INTERRUPT_STATUS" -> interrupt_status

-----------------------------------------------------------------------------
(* A driver that writes its registers in any order, wrong orders included. *)

RegisterWrite ==
  \/ \E v \in 0..2 : WriteDeviceFeaturesSel(v) \/ WriteDriverFeaturesSel(v)
  \/ \E v \in 0..1 : WriteDriverFeatures(v) \/ WriteQueueSel(v)
                       \/ WriteInterruptAck(v) \/ WriteQueueNotify(v)
  \/ \E v \in {0, QueueSizeMax} : WriteQueueSize(v)
  \/ \E a \in Areas : \E v \in {0, Gpa[a]} : WriteQueueAddr(a, "low", v)
  \/ \E a \in Areas : \E v \in 0..1 : WriteQueueAddr(a, "high", v)
  \/ \E v \in 0..2 : WriteQueueReady(v)
  \/ \E value \in SUBSET StatusBits : WriteStatus(value)

TransportNext ==
  /\ alive
  /\ \/ pq["vmm"].pc = "idle" /\ RegisterWrite
     \/ PqEnter("vmm") /\ UNCHANGED <<dev_vars, alive>>
     \/ NotifyReturns

TransportSpec == TransportInit /\ [][TransportNext]_reg_vars

-----------------------------------------------------------------------------
(* Properties *)

(* Whatever order the driver writes its registers in, resets half way included, a ready queue
   has the size and the three addresses process_queue() relies on without looking again, and
   process_queue() is entered only for an operational device that agreed on VERSION_1 and has
   such a queue: its "notification reached an unconfigured queue" error is out of the driver's
   reach, although status, the feature words and the queue are written one by one. *)
DoorbellReachesLiveQueue ==
  /\ queue_ready = 1 => FixedQueue
  /\ pq["vmm"].pc # "idle" =>
       status = Operational /\ Negotiated /\ FixedQueue /\ pq["vmm"].pc # "failed"
=============================================================================
