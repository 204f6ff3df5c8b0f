----------------------------- MODULE EduService -----------------------------
(***************************************************************************)
(* What /dev/qedu promises its users, without device, interrupts or work   *)
(* items: writes are served one at a time, and the one readable answer is  *)
(* the last served write's.  Giving a job up is what makes the service     *)
(* unsound: a later job may then be answered with other bytes until the    *)
(* device has drained.                                                     *)
(***************************************************************************)
EXTENDS Naturals, EduData

CONSTANT MaxIo

VARIABLES jobs,    \* the payload of each write
          holder,  \* the write being served, or 0
          answer,  \* the readable answer and the write it belongs to (0: none)
          failed,  \* some job was given up
          sound    \* the service keeps its promise to the current job

vars == <<jobs, holder, answer, failed, sound>>

NoAnswer == [id |-> 0, data |-> Zeroed]

Init ==
  /\ jobs = [i \in 1..MaxIo |-> NoPayload]
  /\ holder = 0
  /\ answer = NoAnswer
  /\ failed = FALSE
  /\ sound = FALSE

Submit ==
  /\ \E i \in 1..MaxIo, p \in Payloads :
       jobs[i] = NoPayload /\ jobs' = [jobs EXCEPT ![i] = p]
  /\ UNCHANGED <<holder, answer, failed, sound>>

Accept ==
  /\ holder = 0
  /\ \E i \in 1..MaxIo : jobs[i] # NoPayload /\ holder' = i
  /\ answer' = NoAnswer
  /\ sound' \in IF failed THEN BOOLEAN ELSE {TRUE}
  /\ UNCHANGED <<jobs, failed>>

Deliver ==
  /\ holder # 0
  /\ \E d \in Content :
       /\ sound => d = Expected(jobs[holder])
       /\ answer' = [id |-> holder, data |-> d]
  /\ holder' = 0
  /\ UNCHANGED <<jobs, failed, sound>>

GiveUp ==
  /\ holder # 0
  /\ holder' \in {0, holder}
  /\ failed' = TRUE
  /\ UNCHANGED <<jobs, answer, sound>>

(* A write that faults discards the previous answer. *)
Refuse ==
  /\ holder = 0
  /\ answer' = NoAnswer
  /\ UNCHANGED <<jobs, holder, failed, sound>>

(* Leftovers of a given-up job overwrite an answer that was not sound. *)
Disturb ==
  /\ ~sound /\ failed /\ answer.id # 0
  /\ \E d \in Content : answer' = [answer EXCEPT !.data = d]
  /\ UNCHANGED <<jobs, holder, failed, sound>>

Next == Submit \/ Accept \/ Deliver \/ GiveUp \/ Refuse \/ Disturb

Spec == Init /\ [][Next]_vars
=============================================================================
