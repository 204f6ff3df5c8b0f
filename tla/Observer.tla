---------------------------- MODULE Observer ----------------------------
(***************************************************************************)
(* One eBPF observer process: common/observer_bpf.h, observer_runtime.h    *)
(* and the main() the observers of virt-io, virt-ept, virt-virtio, memory  *)
(* and scheduler share.  The controller talks to it by signals and by the  *)
(* lines it writes to LAB_CONTROL_FD; the probes talk to it through a ring *)
(* buffer of limited size.  The records are numbered in the order in which *)
(* the workload causes them.                                               *)
(***************************************************************************)
EXTENDS Naturals, SequencesExt

CONSTANTS
    RingSize,     \* records the BPF ring buffer holds
    MaxDrains     \* rounds the final drain may take (10000 in the code)

ASSUME RingAssumption == RingSize \in Nat \ {0} /\ MaxDrains \in Nat \ {0}

VARIABLES
    observer,     \* where main() is, or how the process ended
    exiting,      \* the flag the signal handler sets
    attached,     \* the probes are in the kernel
    ring,         \* records in the ring buffer
    lab_dropped, lab_failures,
    drains,       \* rounds of the final drain
    err,          \* main()'s err is not 0
    out,          \* records written to the observer's ndjson file
    control,      \* lines written to the control pipe and not yet taken
    unwritten     \* history: the write of a record failed

observer_vars == <<observer, exiting, attached, ring, lab_dropped, lab_failures,
                   drains, err, out, control, unwritten>>

Messages == {"LX_READY", "LX_DONE", "LX_HEALTH ok", "LX_HEALTH loss"}

ObserverEnded == {"ok", "failed"}
ObserverAlive == observer \notin ObserverEnded \union {"none"}

(***************************************************************************)
(* No observer process, and none of its files yet.                         *)
(***************************************************************************)
ObserverAbsent ==
    /\ observer = "none" /\ exiting = FALSE /\ attached = FALSE
    /\ ring = <<>> /\ lab_dropped = 0 /\ lab_failures = 0 /\ drains = 0
    /\ err = FALSE /\ out = <<>> /\ control = {} /\ unwritten = FALSE

ObserverSpawn ==
    /\ observer' = "starting" /\ exiting' = FALSE /\ attached' = FALSE
    /\ ring' = <<>> /\ lab_dropped' = 0 /\ lab_failures' = 0 /\ drains' = 0
    /\ err' = FALSE /\ out' = <<>> /\ control' = {} /\ unwritten' = FALSE

-----------------------------------------------------------------------------
(***************************************************************************)
(* The kernel side.  lab_output() counts the record it cannot place;       *)
(* lab_map_update() counts a probe that lost its bookkeeping and with it   *)
(* the record.                                                             *)
(***************************************************************************)
lab_output(e) ==
    /\ attached
    /\ IF Len(ring) < RingSize
       THEN ring' = Append(ring, e) /\ UNCHANGED lab_dropped
       ELSE lab_dropped' = lab_dropped + 1 /\ UNCHANGED ring
    /\ UNCHANGED lab_failures

lab_map_update ==
    /\ attached
    /\ lab_failures' = lab_failures + 1
    /\ UNCHANGED <<ring, lab_dropped>>

Unobserved ==
    /\ ~attached
    /\ UNCHANGED <<ring, lab_dropped, lab_failures>>

-----------------------------------------------------------------------------
(***************************************************************************)
(* Signals.  Until main() has installed its handlers the default action    *)
(* ends the process; afterwards only the flag is set.                      *)
(***************************************************************************)
ObserverInterrupted ==
    IF observer = "starting"
    THEN /\ observer' = "failed"
         /\ UNCHANGED <<exiting, attached, ring, lab_dropped, lab_failures,
                        drains, err, out, control, unwritten>>
    ELSE /\ exiting' = TRUE
         /\ UNCHANGED <<observer, attached, ring, lab_dropped, lab_failures,
                        drains, err, out, control, unwritten>>

ObserverKilled ==
    /\ observer' = "failed" /\ attached' = FALSE
    /\ UNCHANGED <<exiting, ring, lab_dropped, lab_failures, drains, err, out, control, unwritten>>

(***************************************************************************)
(* main(): install the handlers, open, load and attach the skeleton, make  *)
(* the ring buffer, say LX_READY.                                          *)
(***************************************************************************)
ObserverSetup ==
    /\ observer = "starting"
    /\ observer' = "loading"
    /\ UNCHANGED <<exiting, attached, ring, lab_dropped, lab_failures,
                   drains, err, out, control, unwritten>>

ObserverReady ==
    /\ observer = "loading"
    /\ observer' = "polling"
    /\ attached' = TRUE
    /\ control' = control \union {"LX_READY"}
    /\ UNCHANGED <<exiting, ring, lab_dropped, lab_failures, drains, err, out, unwritten>>

\* Some observers report their health on the way out, scheduler's does not.
ObserverSetupFails ==
    /\ observer = "loading"
    /\ observer' = "failed"
    /\ \E said \in {{}, {"LX_HEALTH ok"}} : control' = control \union said
    /\ UNCHANGED <<exiting, attached, ring, lab_dropped, lab_failures, drains, err, out, unwritten>>

(***************************************************************************)
(* lab_poll(): handle records until the flag is seen, then consume until   *)
(* nothing is left.  A write of handle_event() may fail.  The observers of *)
(* virt-ept and virt-virtio ask json_writer_ok(): their callback fails and *)
(* with it the poll.  Those of virt-io, memory and scheduler do not ask,   *)
(* and virt-vtd's asks it about a buffer that fflush() could not write:    *)
(* the record is gone and nobody knows.                                    *)
(***************************************************************************)
Consume == out' = out \o ring /\ ring' = <<>> /\ UNCHANGED unwritten

ConsumeShort ==
    /\ \E n \in DOMAIN ring : out' = out \o RemoveAt(ring, n)
    /\ ring' = <<>> /\ unwritten' = TRUE

ObserverPoll(asks) ==
    /\ observer = "polling" /\ ring # <<>>
    /\ Consume \/ (~asks /\ ConsumeShort)
    /\ UNCHANGED <<observer, exiting, attached, lab_dropped, lab_failures, drains, err, control>>

ObserverPollFails ==
    /\ observer \in {"polling", "draining"}
    /\ observer' = "reporting" /\ err' = TRUE
    /\ UNCHANGED <<exiting, attached, ring, lab_dropped, lab_failures,
                   drains, out, control, unwritten>>

ObserverWriteFails(asks) ==
    /\ asks /\ observer \in {"polling", "draining"}
    /\ \E n \in DOMAIN ring : /\ out' = out \o SubSeq(ring, 1, n - 1)
                              /\ ring' = SubSeq(ring, n + 1, Len(ring))
    /\ unwritten' = TRUE
    /\ observer' = "reporting" /\ err' = TRUE
    /\ UNCHANGED <<exiting, attached, lab_dropped, lab_failures, drains, control>>

ObserverStops ==
    /\ observer = "polling" /\ exiting
    /\ observer' = "draining"
    /\ UNCHANGED <<exiting, attached, ring, lab_dropped, lab_failures,
                   drains, err, out, control, unwritten>>

ObserverDrain(asks) ==
    /\ observer = "draining"
    /\ Consume \/ (~asks /\ ConsumeShort)
    /\ drains' = drains + 1
    /\ IF drains' > MaxDrains
       THEN observer' = "reporting" /\ err' = TRUE
       ELSE /\ observer' = IF ring = <<>> THEN "reporting" ELSE "draining"
            /\ UNCHANGED err
    /\ UNCHANGED <<exiting, attached, lab_dropped, lab_failures, control>>

(***************************************************************************)
(* lab_health(): the two counters decide.                                  *)
(***************************************************************************)
lab_health ==
    /\ observer = "reporting"
    /\ observer' = "closing"
    /\ LET lossy == lab_dropped > 0 \/ lab_failures > 0
       IN  /\ control' = control \union {IF lossy THEN "LX_HEALTH loss" ELSE "LX_HEALTH ok"}
           /\ err' = (err \/ lossy)
    /\ UNCHANGED <<exiting, attached, ring, lab_dropped, lab_failures, drains, out, unwritten>>

ObserverExit ==
    /\ observer = "closing"
    /\ attached' = FALSE
    /\ observer' = IF err THEN "failed" ELSE "ok"
    /\ control' = IF err THEN control ELSE control \union {"LX_DONE"}
    /\ UNCHANGED <<exiting, ring, lab_dropped, lab_failures, drains, err, out, unwritten>>

\* asks: the observer notices that a write has failed.
ObserverStep(asks) ==
    \/ ObserverSetup
    \/ ObserverReady
    \/ ObserverSetupFails
    \/ ObserverPoll(asks)
    \/ ObserverPollFails
    \/ ObserverWriteFails(asks)
    \/ ObserverStops
    \/ ObserverDrain(asks)
    \/ lab_health
    \/ ObserverExit
=============================================================================
