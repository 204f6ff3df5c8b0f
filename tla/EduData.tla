------------------------------ MODULE EduData ------------------------------
(***************************************************************************)
(* What travels through /dev/qedu.  Bytes are abstracted to where they     *)
(* come from: a content is a kind together with the payload it was derived *)
(* from.                                                                   *)
(***************************************************************************)
CONSTANTS Numbers,    \* payloads kstrtou32() accepts as a complete integer
          Texts,      \* every other payload
          NoPayload   \* not a payload

ASSUME PayloadAssumption ==
  /\ Numbers \cap Texts = {}
  /\ NoPayload \notin Numbers \cup Texts

Payloads == Numbers \cup Texts

Content == [kind : {"zero", "bytes", "part", "input", "fact"},
            of   : Payloads \cup {NoPayload}]

Zeroed     == [kind |-> "zero",  of |-> NoPayload]
Bytes(p)   == [kind |-> "bytes", of |-> p]  \* the payload's own bytes
Part(p)    == [kind |-> "part",  of |-> p]  \* a prefix over older bytes
Input(v)   == [kind |-> "input", of |-> v]  \* the number itself, as text or in the register
Fact(v)    == [kind |-> "fact",  of |-> v]  \* its factorial, as text or in the register

(* The bytes a write of p promises to the next reader. *)
Expected(p) == IF p \in Numbers THEN Fact(p) ELSE Bytes(p)
=============================================================================
