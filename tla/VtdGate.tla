------------------------------ MODULE VtdGate ------------------------------
(***************************************************************************)
(* The gate of the virt-vtd observer: gate() of _run.py, which signals the *)
(* observer before and after the workload and waits for LX_GATE, and the   *)
(* main loop of observer.c, which stamps a marker of the interval.  The    *)
(* signal's handler runs between any two steps of the loop and leaves one  *)
(* word, gate_request; SIGTERM stops the loop.                             *)
(***************************************************************************)
EXTENDS Naturals, Sequences, SequencesExt

VARIABLES
  gate_request,     \* -1, 0 or 1, here "none", "end", "begin"
  stop_requested,
  enabled,          \* the loop's copy of the request
  loop,             \* where the loop is: poll, read, mark, answer, clear, done
  control,          \* the messages on the control pipe that were not taken
  runner,           \* where run() is
  log,              \* history: markers and the workload, in the order of their clock
  overrun           \* history: a request came while the last one was being cleared

gate_vars == <<gate_request, stop_requested, enabled, loop, control, runner, log, overrun>>

GateInit ==
  /\ gate_request = "none" /\ stop_requested = FALSE
  /\ enabled = "none" /\ loop = "poll" /\ control = {}
  /\ runner = "ready" /\ log = <<>> /\ overrun = FALSE

-----------------------------------------------------------------------------
(* The runner: gate(observer, 1), the guest's workload, gate(observer, 0) *)

(* on_signal(), in the middle of whatever the loop does. *)
GateSignal(request, from, to) ==
  /\ runner = from
  /\ runner' = to
  /\ gate_request' = IF loop = "done" THEN gate_request ELSE request
  /\ overrun' = (overrun \/ loop = "clear")
  /\ UNCHANGED <<stop_requested, enabled, loop, control, log>>

(* wait_control(): the message, or the observer's end, or five seconds, which are twenty
   rounds of the loop: they pass only when the loop has nothing left to answer. *)
GateAnswered(request, from, to) ==
  /\ runner = from /\ request \in control
  /\ runner' = to
  /\ control' = control \ {request}
  /\ UNCHANGED <<gate_request, stop_requested, enabled, loop, log, overrun>>

GateGivesUp ==
  /\ runner \in {"begin?", "end?"} /\ control = {}
  /\ loop = "done" \/ (loop = "poll" /\ gate_request = "none")
  /\ runner' = "failed"
  /\ UNCHANGED <<gate_request, stop_requested, enabled, loop, control, log, overrun>>

GuestWorkload ==
  \/ /\ runner = "begun" /\ runner' = "working" /\ log' = Append(log, "work starts")
     /\ UNCHANGED <<gate_request, stop_requested, enabled, loop, control, overrun>>
  \/ /\ runner = "working" /\ runner' = "worked" /\ log' = Append(log, "work ends")
     /\ UNCHANGED <<gate_request, stop_requested, enabled, loop, control, overrun>>
  \/ /\ runner = "working" /\ runner' = "failed"
     /\ UNCHANGED <<gate_request, stop_requested, enabled, loop, control, log, overrun>>

(* The session stops its observers when it collects, or when anything failed. *)
StopObserver ==
  /\ runner \in {"ended", "failed"} /\ ~stop_requested
  /\ stop_requested' = TRUE
  /\ UNCHANGED <<gate_request, enabled, loop, control, runner, log, overrun>>

-----------------------------------------------------------------------------
(* The observer's loop *)

GateLoop(from, to) ==
  loop = from /\ loop' = to /\ UNCHANGED <<stop_requested, runner, overrun>>

(* while (!stop_requested): a poll that returns, or fails; then the request is looked at. *)
GatePoll ==
  /\ \/ ~stop_requested /\ GateLoop("poll", IF gate_request # "none" THEN "read" ELSE "poll")
     \/ GateLoop("poll", "done")
  /\ UNCHANGED <<gate_request, enabled, control, log>>

(* Mutant: the runner is answered before the marker is stamped. *)
GateAnswerFirst ==
  /\ GateLoop("read", "mark")
  /\ enabled' = gate_request
  /\ control' = control \cup {gate_request}
  /\ UNCHANGED <<gate_request, log>>

GateRead ==
  /\ GateLoop("read", "mark")
  /\ enabled' = gate_request
  /\ UNCHANGED <<gate_request, control, log>>

emit_gate_marker ==
  /\ \/ GateLoop("mark", "answer") /\ log' = Append(log, enabled)
     \/ GateLoop("mark", "done") /\ UNCHANGED log
  /\ UNCHANGED <<gate_request, enabled, control>>

GateAnswer ==
  /\ GateLoop("answer", "clear")
  /\ control' = control \cup {enabled}
  /\ UNCHANGED <<gate_request, enabled, log>>

GateClear ==
  /\ GateLoop("clear", "poll")
  /\ gate_request' = "none"
  /\ UNCHANGED <<enabled, control, log>>

GateNext ==
  \/ GateSignal("begin", "ready", "begin?") \/ GateAnswered("begin", "begin?", "begun")
  \/ GateSignal("end", "worked", "end?")    \/ GateAnswered("end", "end?", "ended")
  \/ GateGivesUp \/ GuestWorkload \/ StopObserver
  \/ GatePoll \/ GateRead \/ emit_gate_marker \/ GateAnswer \/ GateClear

GateSpec == GateInit /\ [][GateNext]_gate_vars

-----------------------------------------------------------------------------
Waiting(r) == IF r = "begin" THEN "begin?" ELSE "end?"

(* The handshake of gate() and the observer's loop: at every moment the markers and the
   workload are a beginning of begin, start, end, end, so the workload lies inside the marked
   interval; and a runner that waits on an observer that is alive is never forgotten: its
   request is in the word, in the loop's copy or answered.  The one exception is a request
   whose signal comes between the answer to the last one and the store that clears the word,
   which takes both away. *)
GateHandshake ==
  /\ IsPrefix(log, <<"begin", "work starts", "work ends", "end">>)
  /\ \A r \in {"begin", "end"} :
       runner = Waiting(r) /\ loop # "done" /\ ~overrun =>
         gate_request = r \/ r \in control
============================================================================
