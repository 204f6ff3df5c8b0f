------------------------------ MODULE RngProof ------------------------------
(***************************************************************************)
(* The run of experiments/virt-virtio: guest, VMM and worker, for any      *)
(* number of requests, any ring size that holds them, any queue addresses  *)
(* and any calls that may fail; and what the programs of virtio.bpf.c      *)
(* tell of it.                                                             *)
(***************************************************************************)
EXTENDS VirtioTrace, BpfProof, SequenceTheorems, TLAPS

-----------------------------------------------------------------------------
(* guest.S: which operations stand where in its program *)

IsList(s) == s \in Seq(ToSet(s))

\* s is a list of operations of these kinds.
OpsIn(s, ops) == IsList(s) /\ \A n \in 1 .. Len(s) : s[n].op \in ops

LEMMA Joined ==
  ASSUME NEW s, NEW t, IsList(s), IsList(t)
  PROVE  /\ IsList(s \o t)
         /\ Len(s) \in Nat /\ Len(t) \in Nat /\ Len(s \o t) = Len(s) + Len(t)
         /\ \A n \in 1 .. Len(s) : (s \o t)[n] = s[n]
         /\ \A n \in 1 .. Len(t) : (s \o t)[Len(s) + n] = t[n]
<1> DEFINE S == ToSet(s) \cup ToSet(t)  u == s \o t
<1>0. s \in Seq(ToSet(s)) /\ t \in Seq(ToSet(t))
  BY DEF IsList
<1>1. s \in Seq(S) /\ t \in Seq(S) /\ Len(s) \in Nat /\ Len(t) \in Nat
  BY <1>0
<1>2. /\ u \in Seq(S) /\ Len(u) = Len(s) + Len(t)
      /\ \A n \in 1 .. Len(s) : u[n] = s[n]
      /\ \A n \in 1 .. Len(t) : u[Len(s) + n] = t[n]
  BY <1>1
<1>3. Len(u) \in Nat /\ DOMAIN u = 1 .. Len(u)
  BY <1>2
<1> HIDE DEF u, S
<1>4. u \in Seq(ToSet(u))
  <2>1. \A n \in 1 .. Len(u) : u[n] \in ToSet(u)
    BY <1>3 DEF ToSet
  <2> QED
    BY <1>2, <1>3, <2>1
<1> QED
  BY <1>1, <1>2, <1>4 DEF u, IsList

LEMMA OpsOfBoth ==
  ASSUME NEW s, NEW t, NEW O, NEW P, OpsIn(s, O), OpsIn(t, P)
  PROVE  /\ OpsIn(s \o t, O \cup P)
         /\ Len(s \o t) = Len(s) + Len(t)
         /\ \A n \in 1 .. Len(s) : (s \o t)[n] = s[n]
         /\ \A n \in 1 .. Len(t) : (s \o t)[Len(s) + n] = t[n]
<1> DEFINE u == s \o t
<1>1. /\ IsList(u)
      /\ Len(s) \in Nat /\ Len(t) \in Nat /\ Len(u) = Len(s) + Len(t)
      /\ \A n \in 1 .. Len(s) : u[n] = s[n]
      /\ \A n \in 1 .. Len(t) : u[Len(s) + n] = t[n]
  BY Joined DEF OpsIn
<1> HIDE DEF u
<1>2. ASSUME NEW n \in 1 .. Len(u) PROVE u[n].op \in O \cup P
  <2>1. CASE n <= Len(s)
    BY <1>1, <2>1 DEF OpsIn
  <2>2. CASE n > Len(s)
    <3>1. n - Len(s) \in 1 .. Len(t) /\ u[n] = t[n - Len(s)]
      BY <1>1, <2>2
    <3> QED
      BY <3>1 DEF OpsIn
  <2> QED
    BY <1>1, <2>1, <2>2
<1> QED
  BY <1>1, <1>2 DEF u, OpsIn

LEMMA OpNames ==
  /\ \A r, x : Write(r, x).op = "write"
  /\ \A r, x : Read(r, x).op = "read"
  /\ \A o, x : Do(o, x).op = o
BY DEF Write, Read, Do

LEMMA OpsOfOne == ASSUME NEW a, NEW O, a.op \in O PROVE OpsIn(<<a>>, O) /\ Len(<<a>>) = 1
BY DEF OpsIn, IsList, ToSet

LEMMA OpsOfTwo ==
  ASSUME NEW a, NEW b, NEW O, a.op \in O, b.op \in O
  PROVE  OpsIn(<<a, b>>, O) /\ Len(<<a, b>>) = 2
BY DEF OpsIn, IsList, ToSet

LEMMA OpsOfFour ==
  ASSUME NEW a, NEW b, NEW c, NEW d, NEW O, a.op \in O, b.op \in O, c.op \in O, d.op \in O
  PROVE  OpsIn(<<a, b, c, d>>, O) /\ Len(<<a, b, c, d>>) = 4
BY DEF OpsIn, IsList, ToSet

LEMMA OpsOfFive ==
  ASSUME NEW a, NEW b, NEW c, NEW d, NEW e, NEW O,
         a.op \in O, b.op \in O, c.op \in O, d.op \in O, e.op \in O
  PROVE  OpsIn(<<a, b, c, d, e>>, O) /\ Len(<<a, b, c, d, e>>) = 5
BY DEF OpsIn, IsList, ToSet

LEMMA ListOf ==
  ASSUME NEW m \in Nat, NEW S, NEW f \in [1 .. m -> S]
  PROVE  f \in Seq(S) /\ Len(f) = m
OBVIOUS

LEMMA PhaseAOps == OpsIn(PhaseA, {"write", "read"})
<1>1. \A n \in 1 .. 14 : PhaseA[n].op \in {"write", "read"}
  BY OpNames DEF PhaseA
<1>2. Len(PhaseA) = 14 /\ DOMAIN PhaseA = 1 .. 14 /\ PhaseA = [n \in 1 .. 14 |-> PhaseA[n]]
  BY DEF PhaseA
<1>3. \A n \in 1 .. 14 : PhaseA[n] \in ToSet(PhaseA)
  BY <1>2, Zenon DEF ToSet
<1>4. PhaseA \in [1 .. 14 -> ToSet(PhaseA)]
  BY <1>2, <1>3, Zenon
<1>5. PhaseA \in Seq(ToSet(PhaseA))
  BY <1>4, ListOf
<1> QED
  BY <1>1, <1>2, <1>5 DEF OpsIn, IsList

LEMMA AreaOps == \A a : OpsIn(WriteArea(a), {"low", "high"})
<1> SUFFICES ASSUME NEW a PROVE OpsIn(WriteArea(a), {"low", "high"})
  OBVIOUS
<1> DEFINE l == [op |-> "low", reg |-> a, v |-> Gpa[a]]
           h == [op |-> "high", reg |-> a, v |-> 0]
<1>1. l.op \in {"low", "high"} /\ h.op \in {"low", "high"}
  OBVIOUS
<1>2. WriteArea(a) = <<l, h>>
  BY DEF WriteArea
<1> HIDE DEF l, h
<1> QED
  BY <1>1, <1>2, OpsOfTwo

LEMMA PhaseBOps == OpsIn(PhaseB, {"write", "read", "low", "high", "clear"})
<1> DEFINE ops == {"write", "read", "low", "high", "clear"}
           w1 == <<Write("QUEUE_SEL", RNG_QUEUE), Read("QUEUE_READY", 0),
                   Read("QUEUE_SIZE_MAX", QueueSizeMax), Do("clear", 0),
                   Write("QUEUE_SIZE", QueueSizeMax)>>
           w3 == <<Write("QUEUE_READY", 1), Read("QUEUE_READY", 1),
                   Write("STATUS", Operational), Read("STATUS", Operational)>>
<1>1. OpsIn(w1, ops)
  BY OpNames, OpsOfFive
<1>2. OpsIn(w3, ops)
  BY OpNames, OpsOfFour
<1>3. \A a : OpsIn(WriteArea(a), ops)
  BY AreaOps DEF OpsIn
<1>4. PhaseB = (((w1 \o WriteArea("desc")) \o WriteArea("driver")) \o WriteArea("device")) \o w3
  BY DEF PhaseB
<1> HIDE DEF w1, w3
<1>5. OpsIn(w1 \o WriteArea("desc"), ops)
  BY <1>1, <1>3, OpsOfBoth
<1>6. OpsIn((w1 \o WriteArea("desc")) \o WriteArea("driver"), ops)
  BY <1>3, <1>5, OpsOfBoth
<1>7. OpsIn(((w1 \o WriteArea("desc")) \o WriteArea("driver")) \o WriteArea("device"), ops)
  BY <1>3, <1>6, OpsOfBoth
<1> QED
  BY <1>2, <1>4, <1>7, OpsOfBoth

\* A batch of requests, and its polled completion.
Requesting == {"prepare", "publish", "notify"}
Completing == {"poll", "reap"}

LEMMA BatchOps ==
  ASSUME NEW from \in Nat, NEW to \in Nat, from <= to
  PROVE  OpsIn(Batch(from, to), Requesting) /\ OpsIn(Polled(from, to), Completing)
<1> DEFINE m == to - from
           p == [n \in 1 .. m |-> Do("prepare", from + n - 1)]
           r == [n \in 1 .. m |-> Do("reap", from + n - 1)]
<1>1. OpsIn(p, Requesting)
  <2>1. m \in Nat /\ DOMAIN p = 1 .. m /\ \A n \in 1 .. m : p[n].op = "prepare"
    BY OpNames
  <2> HIDE DEF m
  <2>2. \A n \in 1 .. m : p[n] \in ToSet(p)
    BY <2>1, Zenon DEF ToSet
  <2>3. p \in [1 .. m -> ToSet(p)]
    BY <2>2
  <2> HIDE DEF p
  <2> QED
    BY <2>1, <2>3, ListOf DEF OpsIn, IsList, Requesting
<1>2. OpsIn(r, Completing)
  <2>1. m \in Nat /\ DOMAIN r = 1 .. m /\ \A n \in 1 .. m : r[n].op = "reap"
    BY OpNames
  <2> HIDE DEF m
  <2>2. \A n \in 1 .. m : r[n] \in ToSet(r)
    BY <2>1, Zenon DEF ToSet
  <2>3. r \in [1 .. m -> ToSet(r)]
    BY <2>2
  <2> HIDE DEF r
  <2> QED
    BY <2>1, <2>3, ListOf DEF OpsIn, IsList, Completing
<1>3. OpsIn(<<Do("publish", to), Do("notify", RNG_QUEUE)>>, Requesting)
  BY OpNames, OpsOfTwo DEF Requesting
<1>4. OpsIn(<<Do("poll", to)>>, Completing)
  BY OpNames, OpsOfOne DEF Completing
<1> HIDE DEF p, r
<1>5. OpsIn(p \o <<Do("publish", to), Do("notify", RNG_QUEUE)>>, Requesting)
  BY <1>1, <1>3, OpsOfBoth
<1>6. OpsIn(<<Do("poll", to)>> \o r, Completing)
  BY <1>2, <1>4, OpsOfBoth
<1> QED
  BY <1>5, <1>6 DEF Batch, Polled, p, r, m

\* The program: the configuration, the requests, and the wait for the interrupt.
Start == Len(PhaseA \o PhaseB)
Finish  == Len(Program)
Configuring == {"write", "read", "low", "high", "clear"}

LEMMA PhaseCOps == OpsIn(PhaseC, Requesting \cup Completing)
<1> DEFINE ops == Requesting \cup Completing
<1>1. OpsIn(Batch(0, 1), Requesting) /\ OpsIn(Polled(0, 1), Completing)
  BY BatchOps
<1>2. OpsIn(Batch(1, RequestCount), Requesting) /\ OpsIn(Polled(1, RequestCount), Completing)
  BY BatchOps, RngAssumption
<1>3. OpsIn(Batch(0, 1) \o Polled(0, 1), ops)
  BY <1>1, OpsOfBoth
<1>4. OpsIn((Batch(0, 1) \o Polled(0, 1)) \o Batch(1, RequestCount), ops \cup Requesting)
  <2> HIDE DEF ops
  <2> QED
    BY <1>2, <1>3, OpsOfBoth
<1>5. OpsIn(((Batch(0, 1) \o Polled(0, 1)) \o Batch(1, RequestCount))
              \o Polled(1, RequestCount), (ops \cup Requesting) \cup Completing)
  <2> HIDE DEF ops
  <2> QED
    BY <1>2, <1>4, OpsOfBoth
<1>6. (ops \cup Requesting) \cup Completing = ops
  OBVIOUS
<1> QED
  BY <1>5, <1>6 DEF PhaseC

\* The end of the program, after the last doorbell.
Ending == <<Do("wait", 0), Do("halted", 0), Do("poll", TotalCount),
            Do("reap", RequestCount), Do("success", 0)>>

LEMMA EndingOps ==
  /\ OpsIn(Ending, {"wait", "halted", "poll", "reap", "success"}) /\ Len(Ending) = 5
  /\ Ending[1].op = "wait" /\ Ending[2].op = "halted" /\ Ending[3].op = "poll"
  /\ Ending[4].op = "reap" /\ Ending[5].op = "success"
<1>1. OpsIn(Ending, {"wait", "halted", "poll", "reap", "success"}) /\ Len(Ending) = 5
  BY OpNames, OpsOfFive DEF Ending
<1>2. /\ Ending[1] = Do("wait", 0) /\ Ending[2] = Do("halted", 0)
      /\ Ending[3] = Do("poll", TotalCount)
      /\ Ending[4] = Do("reap", RequestCount) /\ Ending[5] = Do("success", 0)
  BY DEF Ending
<1> QED
  BY <1>1, <1>2, OpNames

LEMMA ProgramShape ==
  /\ Start \in Nat /\ Finish \in Nat /\ Start + 5 <= Finish
  /\ \A n \in 1 .. Start : Program[n].op \in Configuring
  /\ \A n \in Start + 1 .. Finish - 5 : Program[n].op \in Requesting \cup Completing \cup {"arm_irq"}
  /\ Program[Finish - 4].op = "wait" /\ Program[Finish - 3].op = "halted"
  /\ Program[Finish - 2].op = "poll" /\ Program[Finish - 1].op = "reap"
  /\ Program[Finish].op = "success"
<1> DEFINE AB == PhaseA \o PhaseB
           X  == AB \o PhaseC
           Y  == <<Do("arm_irq", 0)>> \o Batch(RequestCount, TotalCount)
           D  == Y \o Ending
<1>1. Program = X \o D
  BY DEF Program, PhaseD, Ending
<1>2. OpsIn(AB, Configuring) /\ Start = Len(AB)
  <2>1. OpsIn(AB, {"write", "read"} \cup {"write", "read", "low", "high", "clear"})
    BY PhaseAOps, PhaseBOps, OpsOfBoth
  <2>2. {"write", "read"} \cup {"write", "read", "low", "high", "clear"} = Configuring
    BY DEF Configuring
  <2> QED
    BY <2>1, <2>2 DEF Start
<1> HIDE DEF AB
<1>3. /\ OpsIn(X, Configuring \cup (Requesting \cup Completing))
      /\ Len(X) = Len(AB) + Len(PhaseC)
      /\ \A n \in 1 .. Len(AB) : X[n] = AB[n]
      /\ \A n \in 1 .. Len(PhaseC) : X[Len(AB) + n] = PhaseC[n]
  BY <1>2, PhaseCOps, OpsOfBoth
<1>4. OpsIn(Y, {"arm_irq"} \cup Requesting)
  <2>1. OpsIn(<<Do("arm_irq", 0)>>, {"arm_irq"})
    BY OpNames, OpsOfOne
  <2>2. RequestCount \in Nat /\ TotalCount \in Nat /\ RequestCount <= TotalCount
    BY RngAssumption DEF TotalCount
  <2>3. OpsIn(Batch(RequestCount, TotalCount), Requesting)
    BY <2>2, BatchOps
  <2> QED
    BY <2>1, <2>3, OpsOfBoth
<1> HIDE DEF X, Y
<1> DEFINE yops == {"arm_irq"} \cup Requesting
           zops == {"wait", "halted", "poll", "reap", "success"}
<1>4a. OpsIn(Y, yops) /\ OpsIn(Ending, zops)
  BY <1>4, EndingOps
<1> HIDE DEF yops, zops
<1>5. /\ OpsIn(D, yops \cup zops)
      /\ Len(D) = Len(Y) + Len(Ending)
      /\ \A n \in 1 .. Len(Y) : D[n] = Y[n]
      /\ \A n \in 1 .. Len(Ending) : D[Len(Y) + n] = Ending[n]
  BY <1>4a, OpsOfBoth
<1> HIDE DEF D
<1> DEFINE xops == Configuring \cup (Requesting \cup Completing)
           dops == yops \cup zops
<1>5a. OpsIn(X, xops) /\ OpsIn(D, dops)
  BY <1>3, <1>5
<1> HIDE DEF xops, dops
<1>6. /\ Len(Program) = Len(X) + Len(D)
      /\ \A n \in 1 .. Len(X) : Program[n] = X[n]
      /\ \A n \in 1 .. Len(D) : Program[Len(X) + n] = D[n]
  BY <1>1, <1>5a, OpsOfBoth
<1>7. Len(AB) \in Nat /\ Len(PhaseC) \in Nat /\ Len(Y) \in Nat /\ Len(Ending) = 5
  BY <1>2, <1>4, PhaseCOps, EndingOps DEF OpsIn
<1>8. Start \in Nat /\ Finish \in Nat /\ Start + 5 <= Finish /\ Finish = Len(X) + Len(Y) + 5
  BY <1>2, <1>3, <1>5, <1>6, <1>7 DEF Finish
<1>9. \A n \in 1 .. Start : Program[n].op \in Configuring
  BY <1>2, <1>3, <1>6, <1>7 DEF OpsIn
<1>10. ASSUME NEW n \in Start + 1 .. Finish - 5
       PROVE  Program[n].op \in Requesting \cup Completing \cup {"arm_irq"}
  <2>1. CASE n <= Len(X)
    <3>1. n - Len(AB) \in 1 .. Len(PhaseC) /\ n \in 1 .. Len(X)
      BY <1>2, <1>3, <1>7, <2>1
    <3>2. X[Len(AB) + (n - Len(AB))] = PhaseC[n - Len(AB)]
      BY <1>3, <3>1
    <3>3. Len(AB) + (n - Len(AB)) = n
      BY <1>7, <1>8
    <3>4. Program[n] = PhaseC[n - Len(AB)]
      BY <1>6, <3>1, <3>2, <3>3
    <3> QED
      BY <3>1, <3>4, PhaseCOps DEF OpsIn
  <2>2. CASE n > Len(X)
    <3>0. Len(X) \in Nat
      BY <1>3, <1>7
    <3>1. n - Len(X) \in 1 .. Len(Y) /\ n - Len(X) \in 1 .. Len(D) /\ Len(X) + (n - Len(X)) = n
      BY <1>5, <1>7, <1>8, <2>2, <3>0
    <3>2. Program[n] = Y[n - Len(X)]
      BY <1>5, <1>6, <3>1
    <3> QED
      BY <1>4, <3>1, <3>2 DEF OpsIn
  <2> QED
    BY <1>3, <1>7, <1>8, <2>1, <2>2
<1>11. \A n \in 1 .. 5 : Program[Finish - 5 + n] = Ending[n]
  <2> SUFFICES ASSUME NEW n \in 1 .. 5 PROVE Program[Finish - 5 + n] = Ending[n]
    OBVIOUS
  <2>1. Len(Y) + n \in 1 .. Len(D) /\ Finish - 5 + n = Len(X) + (Len(Y) + n) /\ Len(X) \in Nat
    BY <1>3, <1>5, <1>7, <1>8
  <2>2. Program[Len(X) + (Len(Y) + n)] = D[Len(Y) + n]
    BY <1>6, <2>1
  <2>3. D[Len(Y) + n] = Ending[n]
    BY <1>5, <1>7
  <2> QED
    BY <2>1, <2>2, <2>3
<1>12. /\ Program[Finish - 4].op = "wait" /\ Program[Finish - 3].op = "halted"
       /\ Program[Finish - 2].op = "poll" /\ Program[Finish - 1].op = "reap"
       /\ Program[Finish].op = "success"
  <2>1. /\ Finish - 5 + 1 = Finish - 4 /\ Finish - 5 + 2 = Finish - 3 /\ Finish - 5 + 3 = Finish - 2
        /\ Finish - 5 + 4 = Finish - 1 /\ Finish - 5 + 5 = Finish
    BY <1>8
  <2>2. /\ 1 \in 1 .. 5 /\ 2 \in 1 .. 5 /\ 3 \in 1 .. 5 /\ 4 \in 1 .. 5 /\ 5 \in 1 .. 5
    OBVIOUS
  <2> QED
    BY <1>11, <2>1, <2>2, EndingOps
<1> QED
  BY <1>8, <1>9, <1>10, <1>12

LEMMA ProgramIsList == Program \in Seq(ToSet(Program))
<1> DEFINE AB == PhaseA \o PhaseB
           X  == AB \o PhaseC
<1>1. \E O : OpsIn(AB, O)
  BY PhaseAOps, PhaseBOps, OpsOfBoth
<1> HIDE DEF AB
<1>2. \E O : OpsIn(X, O)
  BY <1>1, PhaseCOps, OpsOfBoth
<1> HIDE DEF X
<1>3. \E O : OpsIn(PhaseD, O)
  <2> DEFINE Y == <<Do("arm_irq", 0)>> \o Batch(RequestCount, TotalCount)
  <2>1. OpsIn(<<Do("arm_irq", 0)>>, {"arm_irq"})
    BY OpNames, OpsOfOne
  <2>2. RequestCount \in Nat /\ TotalCount \in Nat /\ RequestCount <= TotalCount
    BY RngAssumption DEF TotalCount
  <2>3. OpsIn(Batch(RequestCount, TotalCount), Requesting)
    BY <2>2, BatchOps
  <2>4. \E O : OpsIn(Y, O)
    BY <2>1, <2>3, OpsOfBoth
  <2> HIDE DEF Y
  <2>5. \E O : OpsIn(Y \o Ending, O)
    BY <2>4, EndingOps, OpsOfBoth
  <2> QED
    BY <2>5 DEF Y, PhaseD, Ending
<1>4. \E O : OpsIn(X \o PhaseD, O)
  BY <1>2, <1>3, OpsOfBoth
<1> QED
  BY <1>4 DEF X, AB, Program, OpsIn, IsList

\* Where each kind of operation can stand.
LEMMA Places ==
  /\ Start \in Nat /\ Finish \in Nat /\ Start + 5 <= Finish
  /\ WaitPc = Finish - 4
  /\ \A n \in 1 .. Finish :
       /\ Program[n].op \in {"write", "low", "high", "clear"} => n <= Start
       /\ Program[n].op = "notify" => n > Start /\ n < Finish - 4
       /\ Program[n].op # "success" => n + 1 <= Finish
       /\ Program[n].op = "wait" => n = WaitPc
       /\ Program[n].op = "halted" => n = HaltPc
<1>1. ASSUME NEW n \in 1 .. Finish
      PROVE  /\ Program[n].op \in {"write", "low", "high", "clear"} => n <= Start
             /\ Program[n].op = "notify" => n > Start /\ n < Finish - 4
             /\ Program[n].op # "success" => n + 1 <= Finish
             /\ Program[n].op = "wait" => n = Finish - 4
             /\ Program[n].op = "halted" => n = Finish - 3
  <2>1. CASE n \in 1 .. Start
    <3>1. Program[n].op \in Configuring
      BY <2>1, ProgramShape
    <3> QED
      BY <2>1, <3>1, ProgramShape DEF Configuring
  <2>2. CASE n \in Start + 1 .. Finish - 5
    <3>1. Program[n].op \in Requesting \cup Completing \cup {"arm_irq"}
      BY <2>2, ProgramShape
    <3> QED
      BY <2>2, <3>1, ProgramShape DEF Requesting, Completing
  <2>3. CASE n \in Finish - 4 .. Finish
    <3>1. n \in {Finish - 4, Finish - 3, Finish - 2, Finish - 1, Finish}
      BY <2>3, ProgramShape
    <3> QED
      BY <3>1, ProgramShape
  <2> QED
    BY <2>1, <2>2, <2>3, ProgramShape
<1>2. DOMAIN Program = 1 .. Finish
  <2>1. Program \in Seq(ToSet(Program))
    BY ProgramIsList
  <2> QED
    BY <2>1 DEF Finish
<1>3. \E n \in DOMAIN Program : Program[n].op = "wait"
  <2>1. Finish - 4 \in 1 .. Finish
    BY ProgramShape
  <2> QED
    BY <1>2, <2>1, ProgramShape
<1>4. WaitPc \in 1 .. Finish /\ Program[WaitPc].op = "wait"
  BY <1>2, <1>3, Zenon DEF WaitPc
<1>5. WaitPc = Finish - 4
  BY <1>1, <1>4
<1>6. HaltPc = Finish - 3
  BY <1>5, ProgramShape DEF HaltPc
<1> QED
  BY <1>1, <1>5, <1>6, ProgramShape

-----------------------------------------------------------------------------
(* Two threads, one consumer: the run of guest, VMM and worker *)

\* The queue process_queue() relies on.
LiveQueue == status = Operational /\ FixedQueue /\ queue_ready = 1

\* The VMM has made the calls of the set-up before this one.
SetUpSoFar == \A n \in 1 .. 5 : n < step => SetupPlan[n] \in held

RngTypes ==
  /\ pc \in 1 .. Finish
  /\ phase \in {"run", "setup", "shutdown", "exited"}
  /\ DOMAIN pq = Callers /\ \A p \in Callers : "pc" \in DOMAIN pq[p]

\* Once a doorbell was served, the guest is past its configuration, and configures no more.
ConsumerInv ==
  /\ RngTypes
  /\ phase \in {"run", "setup"} => alive
  /\ queue_ready = 1 => FixedQueue
  /\ pq["vmm"].pc # "idle" =>
       /\ phase = "run" /\ Program[pc].op = "notify" /\ isr = "none"
       /\ LiveQueue /\ worker = "none"
  /\ phase = "setup" => /\ LiveQueue /\ pc > Start /\ worker = "none"
                        /\ step \in 1 .. 5 /\ SetUpSoFar
  /\ worker # "none" => /\ LiveQueue /\ pc > Start
                        /\ phase = "run" => "ioeventfd" \in held

\* A step of one process_queue() call leaves the queue's configuration and the other call alone.
LEMMA CallIsLocal ==
  ASSUME RngTypes, NEW p \in Callers, PqStep(p) \/ PqCall(p) \/ PqReturn(p)
  PROVE  /\ UNCHANGED <<queue_size, queue_ready>>
         /\ DOMAIN pq' = Callers /\ \A q \in Callers : "pc" \in DOMAIN pq'[q]
         /\ \A q \in Callers : q # p => pq'[q] = pq[q]
         /\ PqStep(p) => pq[p].pc # "idle"
<1>1. UNCHANGED <<queue_size, queue_ready>>
  BY DEF PqStep, PqEnter, PqFetch, PqFill, PqUsed, PqPublish, PqAdvance, PqCall, PqReturn
<1>2. PqStep(p) => pq[p].pc # "idle"
  BY DEF PqStep, PqEnter, PqFetch, PqFill, PqUsed, PqPublish, PqAdvance
<1>3. /\ DOMAIN pq' = Callers /\ \A q \in Callers : "pc" \in DOMAIN pq'[q]
      /\ \A q \in Callers : q # p => pq'[q] = pq[q]
  BY DEF RngTypes, PqStep, PqEnter, PqFetch, PqFill, PqUsed, PqPublish, PqAdvance, PqCall,
         PqReturn, Goto
<1> QED
  BY <1>1, <1>2, <1>3

\* What most steps of the guest do to all this: nothing, but for its program counter.
LEMMA GuestMovesOn ==
  ASSUME ConsumerInv, phase = "run", pq["vmm"].pc = "idle",
         UNCHANGED <<status, queue_size, queue_addr, queue_ready, pq, worker, held, alive>>,
         phase' \in {"run", "shutdown"}, pc' \in 1 .. Finish, pc > Start => pc' > Start
  PROVE  ConsumerInv'
BY DEF ConsumerInv, RngTypes, LiveQueue, FixedQueue

LEMMA OrFailMoves ==
  ASSUME ConsumerInv, NEW ok, NEW o, o # "success", GuestRuns(o), OrFail(ok)
  PROVE  /\ phase = "run" /\ pq["vmm"].pc = "idle" /\ UNCHANGED <<worker, held>>
         /\ phase' \in {"run", "shutdown"} /\ pc' \in 1 .. Finish /\ (pc > Start => pc' > Start)
         /\ pc \in 1 .. Finish /\ Program[pc].op = o
<1>1. /\ phase = "run" /\ pq["vmm"].pc = "idle" /\ UNCHANGED <<worker, held>>
      /\ pc \in 1 .. Finish /\ Program[pc].op = o
  BY DEF GuestRuns, OrFail, ConsumerInv, RngTypes, backend_vars
<1>2. pc + 1 \in 1 .. Finish
  BY <1>1, Places
<1>3. phase' \in {"run", "shutdown"} /\ pc' \in {pc, pc + 1}
  BY <1>1 DEF OrFail, Break
<1> QED
  BY <1>1, <1>2, <1>3, Places

\* A register write leaves process_queue() alone, and a ready queue is still the fixed one.
LEMMA WriteKeepsQueue ==
  ASSUME queue_ready = 1 => FixedQueue, NEW reg, NEW v, NEW half,
         MmioWrite(reg, v) \/ WriteQueueAddr(reg, half, v)
  PROVE  pq' = pq /\ (queue_ready' = 1 => FixedQueue')
<1>1. CASE WriteStatus(v)
  BY <1>1 DEF WriteStatus, ResetRegisters, Guarded, Reject, data_vars, FixedQueue
<1>2. CASE WriteDeviceFeaturesSel(v)
  BY <1>2 DEF WriteDeviceFeaturesSel, data_vars, FixedQueue
<1>3. CASE WriteDriverFeaturesSel(v)
  BY <1>3 DEF WriteDriverFeaturesSel, data_vars, FixedQueue
<1>4. CASE WriteDriverFeatures(v)
  BY <1>4 DEF WriteDriverFeatures, data_vars, FixedQueue
<1>5. CASE WriteQueueSel(v)
  BY <1>5 DEF WriteQueueSel, data_vars, FixedQueue
<1>6. CASE WriteQueueSize(v)
  BY <1>6 DEF WriteQueueSize, Guarded, data_vars, FixedQueue
<1>7. CASE WriteQueueReady(v)
  BY <1>7 DEF WriteQueueReady, Guarded, data_vars, FixedQueue
<1>8. CASE WriteQueueAddr(reg, half, v)
  BY <1>8 DEF WriteQueueAddr, Guarded, data_vars, FixedQueue
<1> QED
  BY <1>1, <1>2, <1>3, <1>4, <1>5, <1>6, <1>7, <1>8 DEF MmioWrite

\* The guest's configuration: nobody serves the queue yet.
LEMMA ConfigurationKeeps ==
  ASSUME ConsumerInv, GuestWrite \/ GuestWriteAddr \/ GuestClear
  PROVE  ConsumerInv'
<1>1. \E o \in {"write", "low", "high", "clear"} : GuestRuns(o) /\ \E ok : OrFail(ok)
  <2>1. CASE GuestWrite
    BY <2>1 DEF GuestWrite
  <2>2. CASE GuestWriteAddr
    BY <2>2 DEF GuestWriteAddr
  <2>3. CASE GuestClear
    BY <2>3 DEF GuestClear
  <2> QED
    BY <2>1, <2>2, <2>3
<1>a. phase' = "run" => alive'
  BY DEF GuestWrite, GuestWriteAddr, GuestClear, GuestRuns, OrFail, Break, ConsumerInv
<1>2. pq' = pq /\ (queue_ready' = 1 => FixedQueue')
  <2>0. queue_ready = 1 => FixedQueue
    BY DEF ConsumerInv
  <2>1. CASE GuestWrite
    BY <2>0, <2>1, WriteKeepsQueue DEF GuestWrite
  <2>2. CASE GuestWriteAddr
    BY <2>0, <2>2, WriteKeepsQueue DEF GuestWriteAddr
  <2>3. CASE GuestClear
    BY <2>0, <2>3 DEF GuestClear, dev_vars, FixedQueue
  <2> QED
    BY <2>1, <2>2, <2>3
<1>3. PICK o \in {"write", "low", "high", "clear"} : GuestRuns(o) /\ \E ok : OrFail(ok)
  BY <1>1
<1>4. /\ phase = "run" /\ pq["vmm"].pc = "idle" /\ UNCHANGED <<worker, held>>
      /\ phase' \in {"run", "shutdown"} /\ pc' \in 1 .. Finish
      /\ pc \in 1 .. Finish /\ Program[pc].op = o
  BY <1>3, OrFailMoves
<1>5. pc <= Start
  BY <1>4, Places
<1>6. worker = "none"
  BY <1>4, <1>5, Places DEF ConsumerInv
<1>7. RngTypes'
  BY <1>2, <1>4 DEF ConsumerInv, RngTypes
<1> QED
  BY <1>a, <1>2, <1>4, <1>6, <1>7 DEF ConsumerInv

\* The requests and completions of the guest, its wait and its interrupt handler.
LEMMA GuestKeeps ==
  ASSUME ConsumerInv,
         \/ GuestRead \/ GuestPrepare \/ GuestPublish \/ GuestPoll \/ GuestReap \/ GuestArmIrq
         \/ GuestWait \/ TakeIrq \/ GuestSuccess \/ IsrStatus \/ IsrAck \/ IsrReturn
  PROVE  ConsumerInv'
<1> DEFINE Same == UNCHANGED <<status, queue_size, queue_addr, queue_ready, pq, worker, held,
                               alive>>
           Moves == /\ phase = "run" /\ pq["vmm"].pc = "idle"
                    /\ phase' \in {"run", "shutdown"} /\ pc' \in 1 .. Finish
                    /\ pc > Start => pc' > Start
<1>0. Start \in Nat /\ Finish \in Nat /\ Start + 5 <= Finish /\ WaitPc = Finish - 4
      /\ HaltPc = Finish - 3 /\ AwakePc = Finish - 2
  BY Places DEF HaltPc, AwakePc
<1>t. pc \in 1 .. Finish
  BY DEF ConsumerInv, RngTypes
<1>i. isr # "none" /\ phase = "run" => pq["vmm"].pc = "idle"
  BY DEF ConsumerInv
<1>1. ASSUME NEW o, o # "success", GuestRuns(o), NEW ok, OrFail(ok),
             UNCHANGED <<status, queue_size, queue_addr, queue_ready, pq, alive>>
      PROVE  Same /\ Moves
  BY <1>1, OrFailMoves
<1>2. ASSUME GuestRead PROVE Same /\ Moves
  BY <1>2, <1>1 DEF GuestRead, reg_vars, dev_vars, queue_vars
<1>3. ASSUME GuestPrepare PROVE Same /\ Moves
  BY <1>3, <1>1 DEF GuestPrepare, Prepare, dev_vars
<1>4. ASSUME GuestPublish PROVE Same /\ Moves
  BY <1>4, <1>1 DEF GuestPublish, Publish, dev_vars, queue_vars
<1>5. ASSUME GuestPoll PROVE Same /\ Moves
  BY <1>5, <1>1 DEF GuestPoll, reg_vars, dev_vars, queue_vars
<1>6. ASSUME GuestReap PROVE Same /\ Moves
  BY <1>6, <1>1 DEF GuestReap, Reap, dev_vars, queue_vars
<1>7. ASSUME GuestArmIrq PROVE Same /\ Moves
  <2>1. GuestRuns("arm_irq") /\ pc' = pc + 1 /\ phase' = phase
    BY <1>7 DEF GuestArmIrq, vmm_vars
  <2>2. pc + 1 \in 1 .. Finish
    BY <1>t, <2>1, Places DEF GuestRuns
  <2> QED
    BY <1>0, <1>7, <1>t, <2>1, <2>2
       DEF GuestArmIrq, GuestRuns, vmm_vars, reg_vars, dev_vars, queue_vars, backend_vars
<1>8. ASSUME GuestWait PROVE Same /\ Moves
  <2>1. GuestRuns("wait") /\ pc' \in {HaltPc, AwakePc, pc} /\ phase' \in {phase, "shutdown"}
    BY <1>8 DEF GuestWait, Break
  <2> QED
    BY <1>0, <1>8, <1>t, <2>1
       DEF GuestWait, GuestRuns, vmm_vars, reg_vars, dev_vars, queue_vars, backend_vars
<1>9. ASSUME TakeIrq PROVE Same /\ Moves
  BY <1>0, <1>9, <1>t
     DEF TakeIrq, GuestRuns, vmm_vars, reg_vars, dev_vars, queue_vars, backend_vars
<1>10. ASSUME GuestSuccess PROVE Same /\ Moves
  BY <1>0, <1>10, <1>t
     DEF GuestSuccess, GuestRuns, Break, guest_vars, reg_vars, dev_vars, queue_vars, backend_vars
<1>11. ASSUME IsrStatus PROVE Same /\ Moves
  BY <1>0, <1>11, <1>t, <1>i
     DEF IsrStatus, vmm_vars, reg_vars, dev_vars, queue_vars, backend_vars
<1>12. ASSUME IsrAck PROVE Same /\ Moves
  BY <1>0, <1>12, <1>t, <1>i
     DEF IsrAck, WriteInterruptAck, Guarded, vmm_vars, data_vars, backend_vars
<1>13. ASSUME IsrReturn PROVE Same /\ Moves
  BY <1>0, <1>13, <1>t, <1>i
     DEF IsrReturn, vmm_vars, reg_vars, dev_vars, queue_vars, backend_vars
<1>14. Same /\ Moves
  BY <1>2, <1>3, <1>4, <1>5, <1>6, <1>7, <1>8, <1>9, <1>10, <1>11, <1>12, <1>13
<1> QED
  BY <1>14, GuestMovesOn

\* A doorbell: with the worker running it goes to kick_fd, never to the VMM.
LEMMA NotifyKeeps ==
  ASSUME ConsumerInv, GuestNotify
  PROVE  ConsumerInv'
<1>0. /\ Start \in Nat /\ Finish \in Nat /\ pc \in 1 .. Finish
      /\ pc > Start /\ pc + 1 \in 1 .. Finish
      /\ phase = "run" /\ isr = "none" /\ pq["vmm"].pc = "idle" /\ Program[pc].op = "notify"
  <2>1. pc \in 1 .. Finish /\ Program[pc].op = "notify"
    BY DEF ConsumerInv, RngTypes, GuestNotify, GuestRuns
  <2> QED
    BY <2>1, Places DEF GuestNotify, GuestRuns
<1>1. CASE "ioeventfd" \in held
  <2>1. /\ UNCHANGED <<status, queue_size, queue_addr, queue_ready, pq, worker, held, alive,
                       phase>>
        /\ pc' = pc + 1
    BY <1>1 DEF GuestNotify, reg_vars, dev_vars, queue_vars, backend_vars
  <2> QED
    BY <1>0, <2>1, GuestMovesOn
<1>2. CASE "ioeventfd" \notin held
  <2>1. /\ worker = "none" /\ UNCHANGED <<worker, held, pc, isr>>
        /\ UNCHANGED <<status, queue_addr>>
        /\ WriteQueueNotify(Program[pc].v)
        /\ \/ alive' /\ UNCHANGED phase
           \/ ~alive' /\ phase' = "shutdown"
    BY <1>0, <1>2
       DEF ConsumerInv, GuestNotify, WriteQueueNotify, dev_vars, backend_vars, Break
  <2>2. CASE status = Operational /\ queue_ready = 1 /\ PqCall("vmm") /\ UNCHANGED alive
    <3>1. /\ UNCHANGED <<queue_size, queue_ready>>
          /\ DOMAIN pq' = Callers /\ \A q \in Callers : "pc" \in DOMAIN pq'[q]
      BY <2>2, CallIsLocal DEF Callers, ConsumerInv
    <3>2. phase' = "run" /\ alive'
      BY <1>0, <2>1, <2>2 DEF ConsumerInv
    <3>3. RngTypes'
      BY <1>0, <2>1, <3>1, <3>2 DEF RngTypes
    <3>4. LiveQueue'
      BY <2>1, <2>2, <3>1 DEF LiveQueue, ConsumerInv, FixedQueue
    <3> QED
      BY <1>0, <2>1, <3>2, <3>3, <3>4 DEF ConsumerInv, LiveQueue
  <2>3. CASE alive' = FALSE /\ UNCHANGED queue_vars
    <3>1. UNCHANGED <<queue_size, queue_ready, pq>> /\ phase' = "shutdown"
      BY <2>1, <2>3 DEF queue_vars
    <3> QED
      BY <1>0, <2>1, <3>1 DEF ConsumerInv, RngTypes, LiveQueue, FixedQueue
  <2> QED
    BY <2>1, <2>2, <2>3 DEF WriteQueueNotify, Reject
<1> QED
  BY <1>1, <1>2

\* The VMM inside a doorbell exit, and leaving it.
LEMMA ExitKeeps ==
  ASSUME ConsumerInv, NotifyWork \/ NotifyExit
  PROVE  ConsumerInv'
<1>1. "vmm" \in Callers /\ "worker" \in Callers
  BY DEF Callers
<1>2. /\ phase = "run" /\ UNCHANGED <<status, queue_addr, queue_size, queue_ready, worker, held, isr>>
      /\ DOMAIN pq' = Callers /\ \A q \in Callers : "pc" \in DOMAIN pq'[q]
  <2>1. CASE NotifyWork
    BY <1>1, <2>1, CallIsLocal
       DEF ConsumerInv, NotifyWork, dev_vars, vmm_vars, guest_vars, backend_vars
  <2>2. CASE NotifyExit
    BY <1>1, <2>2, CallIsLocal DEF ConsumerInv, NotifyExit, NotifyReturns, dev_vars, backend_vars
  <2> QED
    BY <2>1, <2>2
<1>3. pq["vmm"].pc # "idle"
  BY <1>1, CallIsLocal DEF ConsumerInv, NotifyWork, NotifyExit, NotifyReturns, PqReturn
<1>4. /\ Program[pc].op = "notify" /\ isr = "none" /\ LiveQueue /\ worker = "none"
      /\ pc \in 1 .. Finish /\ alive
  BY <1>2, <1>3 DEF ConsumerInv, RngTypes
<1>5. Start \in Nat /\ Finish \in Nat /\ pc > Start /\ pc + 1 \in 1 .. Finish
  BY <1>4, Places
<1>6. LiveQueue' /\ worker' = "none"
  BY <1>2, <1>4 DEF LiveQueue, FixedQueue
<1>7. CASE NotifyWork
  <2>1. UNCHANGED <<pc, phase, alive>>
    BY <1>7 DEF NotifyWork, vmm_vars, guest_vars
  <2> QED
    BY <1>2, <1>4, <1>5, <1>6, <2>1 DEF ConsumerInv, RngTypes, LiveQueue
<1>8. CASE NotifyExit
  <2>1. pq'["vmm"].pc = "idle"
    BY <1>1, <1>8 DEF NotifyExit, NotifyReturns, PqReturn, Goto, ConsumerInv, RngTypes
  <2>2. CASE alive' /\ phase' \in {"setup", "run"} /\ step' = 1 /\ pc' = pc + 1
    <3>1. SetUpSoFar'
      BY <2>2 DEF SetUpSoFar
    <3> QED
      BY <1>2, <1>5, <1>6, <2>1, <2>2, <3>1 DEF ConsumerInv, RngTypes, LiveQueue
  <2>3. CASE phase' = "shutdown" /\ UNCHANGED pc
    BY <1>2, <1>4, <1>6, <2>1, <2>3 DEF ConsumerInv, RngTypes, LiveQueue
  <2> QED
    BY <1>8, <2>2, <2>3 DEF NotifyExit, Break
<1> QED
  BY <1>7, <1>8

LEMMA SetupCalls ==
  /\ Len(SetupPlan) = 5 /\ SetupPlan[3] = "ioeventfd"
  /\ \A n \in 1 .. 5 : SetupPlan[n] = "worker" <=> n = 5
BY DEF SetupPlan

\* The set-up starts the worker last, after the ioeventfd has taken the doorbell over.
LEMMA SetupKeeps ==
  ASSUME ConsumerInv, SetupStep \/ SetupFails
  PROVE  ConsumerInv'
<1>1. /\ phase = "setup" /\ LiveQueue /\ pc > Start /\ worker = "none" /\ step \in 1 .. 5
      /\ SetUpSoFar /\ alive /\ pq["vmm"].pc = "idle" /\ RngTypes
  BY DEF ConsumerInv, SetupStep, SetupFails
<1>2. UNCHANGED <<status, queue_addr, queue_size, queue_ready, pq, pc, alive>>
  BY DEF SetupStep, SetupFails, reg_vars, dev_vars, queue_vars, guest_vars
<1>3. LiveQueue'
  BY <1>1, <1>2 DEF LiveQueue, FixedQueue
<1>4. phase' \in {"run", "setup", "shutdown"}
  BY DEF SetupStep, SetupFails, Break
<1>5. RngTypes'
  BY <1>1, <1>2, <1>4 DEF RngTypes
<1>6. CASE SetupFails
  <2>1. phase' = "shutdown" /\ worker' = "none"
    BY <1>1, <1>6 DEF SetupFails, Break, backend_vars
  <2> QED
    BY <1>1, <1>2, <1>3, <1>5, <2>1 DEF ConsumerInv, LiveQueue
<1>7. CASE SetupStep
  <2>1. held' = held \cup {SetupPlan[step]}
    BY <1>7 DEF SetupStep
  <2>2. CASE step = 5
    <3>1. "ioeventfd" \in held
      BY <1>1, <2>2, SetupCalls DEF SetUpSoFar
    <3>2. phase' = "run"
      BY <1>7, <2>2, SetupCalls DEF SetupStep
    <3> QED
      BY <1>1, <1>2, <1>3, <1>5, <2>1, <3>1, <3>2 DEF ConsumerInv, LiveQueue
  <2>3. CASE step # 5
    <3>1. phase' = "setup" /\ step' = step + 1 /\ worker' = "none"
      BY <1>1, <1>7, <2>3, SetupCalls DEF SetupStep
    <3>2. SetUpSoFar'
      BY <1>1, <2>1, <2>3, <3>1 DEF SetUpSoFar
    <3>3. step' \in 1 .. 5
      BY <1>1, <2>3, <3>1
    <3> QED
      BY <1>1, <1>2, <1>3, <1>5, <3>1, <3>2, <3>3 DEF ConsumerInv, LiveQueue
  <2> QED
    BY <2>2, <2>3
<1> QED
  BY <1>6, <1>7

\* The shutdown path leaves the device and the worker's position alone.
LEMMA ShutdownKeeps ==
  ASSUME ConsumerInv, NEW s, Shutdown(s)
  PROVE  ConsumerInv'
<1>1. /\ phase = "shutdown" /\ phase' \in {"shutdown", "exited"}
      /\ UNCHANGED <<status, queue_addr, queue_size, queue_ready, pq, pc, worker, isr>>
  BY DEF Shutdown, reg_vars, dev_vars, queue_vars, guest_vars, backend_vars
<1> QED
  BY <1>1 DEF ConsumerInv, RngTypes, LiveQueue, FixedQueue

\* The worker serves the queue and leaves its configuration alone.
LEMMA WorkerKeeps ==
  ASSUME ConsumerInv,
         \/ WorkerRead \/ WorkerReadFails \/ WorkerWoken \/ WorkerQueue \/ WorkerCheck
         \/ WorkerInterrupt \/ WorkerCall \/ WorkerCallFails \/ WorkerCount
  PROVE  ConsumerInv'
<1>1. worker # "none"
  BY DEF WorkerRead, WorkerReadFails, WorkerWoken, WorkerQueue, WorkerCheck, WorkerInterrupt,
         WorkerCall, WorkerCallFails, WorkerCount
<1>2. UNCHANGED <<phase, step, held, pc, isr>>
  BY DEF WorkerRead, WorkerReadFails, WorkerWoken, WorkerQueue, WorkerCheck, WorkerInterrupt,
         WorkerCall, WorkerCallFails, WorkerCount, WorkerUnchanged, vmm_vars, guest_vars
<1>3. UNCHANGED <<status, queue_addr, alive>>
  BY DEF WorkerRead, WorkerReadFails, WorkerWoken, WorkerQueue, WorkerCheck, WorkerInterrupt,
         WorkerCall, WorkerCallFails, WorkerCount, reg_vars, dev_vars
<1>4. /\ UNCHANGED <<queue_size, queue_ready>> /\ pq'["vmm"] = pq["vmm"]
      /\ DOMAIN pq' = Callers /\ \A q \in Callers : "pc" \in DOMAIN pq'[q]
  <2>1. CASE UNCHANGED queue_vars
    BY <2>1 DEF queue_vars, ConsumerInv, RngTypes
  <2>2. CASE PqStep("worker") \/ PqCall("worker") \/ PqReturn("worker")
    BY <2>2, CallIsLocal DEF Callers, ConsumerInv
  <2> QED
    BY <2>1, <2>2
       DEF WorkerRead, WorkerReadFails, WorkerWoken, WorkerQueue, WorkerCheck, WorkerInterrupt,
           WorkerCall, WorkerCallFails, WorkerCount, reg_vars
<1>5. LiveQueue /\ pc > Start /\ (phase = "run" => "ioeventfd" \in held)
      /\ pq["vmm"].pc = "idle" /\ phase # "setup"
  BY <1>1 DEF ConsumerInv
<1>6. LiveQueue'
  BY <1>3, <1>4, <1>5 DEF LiveQueue, FixedQueue
<1>7. RngTypes'
  BY <1>2, <1>4 DEF RngTypes, ConsumerInv
<1> QED
  BY <1>2, <1>3, <1>4, <1>5, <1>6, <1>7 DEF ConsumerInv, LiveQueue

LEMMA ConsumerInvIsInductive ==
  ASSUME ConsumerInv, [RngNext]_rng_vars
  PROVE  ConsumerInv'
<1>1. CASE GuestStep
  BY <1>1, ConfigurationKeeps, GuestKeeps, NotifyKeeps DEF GuestStep
<1>2. CASE VmmStep
  <2>1. CASE \E s : Shutdown(s)
    BY <2>1, ShutdownKeeps
  <2>2. CASE NotifyWork \/ NotifyExit \/ SetupStep
    BY <2>2, ExitKeeps, SetupKeeps
  <2> QED
    BY <1>2, <2>1, <2>2
       DEF VmmStep, DropRegistration, StoreStop, WakeWorker, JoinWorker, CloseFds, Verdict
<1>3. CASE WorkerStep
  BY <1>3, WorkerKeeps DEF WorkerStep
<1>4. CASE FaultStep
  <2>1. CASE KvmRunFails
    <3>1. /\ phase = "run" /\ pq["vmm"].pc = "idle" /\ phase' = "shutdown"
          /\ UNCHANGED <<status, queue_size, queue_addr, queue_ready, pq, worker, held, alive, pc>>
      BY <2>1 DEF KvmRunFails, Break, reg_vars, dev_vars, queue_vars, guest_vars, backend_vars
    <3> QED
      BY <3>1, GuestMovesOn DEF ConsumerInv, RngTypes
  <2>2. CASE SetupFails
    BY <2>2, SetupKeeps
  <2>3. CASE \E s : Shutdown(s)
    BY <2>3, ShutdownKeeps
  <2>4. CASE WorkerReadFails \/ WorkerCallFails
    BY <2>4, WorkerKeeps
  <2> QED
    BY <1>4, <2>1, <2>2, <2>3, <2>4 DEF FaultStep, DropFails, WakeFails
<1>5. CASE UNCHANGED rng_vars
  BY <1>5 DEF rng_vars, reg_vars, dev_vars, queue_vars, vmm_vars, guest_vars, backend_vars,
              ConsumerInv, RngTypes, LiveQueue, FixedQueue, SetUpSoFar
<1> QED
  BY <1>1, <1>2, <1>3, <1>4, <1>5 DEF RngNext, Exited

LEMMA ConsumerInvAtStart ==
  ASSUME RngInit
  PROVE  ConsumerInv
<1>1. pc = 1 /\ phase = "run" /\ worker = "none" /\ alive = TRUE /\ queue_ready = 0
  BY DEF RngInit, TransportInit
<1>2. pq = [p \in Callers |-> [pc |-> "idle", snap |-> 0, head |-> 0]]
  BY DEF RngInit, TransportInit, QueueInit
<1>3. pq["vmm"].pc = "idle" /\ RngTypes
  BY <1>1, <1>2, Places DEF RngTypes, Callers
<1> QED
  BY <1>1, <1>3 DEF ConsumerInv

(* process_queue() never runs in both threads at once, although last_avail_idx is a plain
   variable of struct virtio_queue: from the moment the worker exists, the doorbell is the
   ioeventfd's and the guest is past its last register write, for any number of requests, any
   failing call and any moment the run loop ends at. *)
THEOREM OneConsumerAlways == RngSpec => []OneConsumer
<1>1. RngInit => ConsumerInv
  BY ConsumerInvAtStart
<1>2. ConsumerInv /\ [RngNext]_rng_vars => ConsumerInv'
  BY ConsumerInvIsInductive
<1>3. ConsumerInv => OneConsumer
  BY DEF ConsumerInv, OneConsumer, LiveQueue
<1> QED
  BY <1>1, <1>2, <1>3, PTL DEF RngSpec

-----------------------------------------------------------------------------
(***************************************************************************)
(* The interrupt and the verdict.  What the rings hold is a function of    *)
(* how far the guest has come, what the worker may still do is a function  *)
(* of the doorbells it has not seen, and the interrupt follows the worker. *)
(***************************************************************************)

FirstRing  == Start + 3        \* the three doorbells
SecondRing == Start + RequestCount + 6
ThirdRing  == Start + 2 * RequestCount + 10

\* The requests prepared, and published, when the guest's program counter is n.
Prepared(n) ==
  IF n <= Start + 1 THEN 0
  ELSE IF n <= Start + 6 THEN 1
  ELSE IF n <= Start + RequestCount + 5 THEN n - Start - 5
  ELSE IF n <= Start + 2 * RequestCount + 8 THEN RequestCount ELSE RequestCount + 1

Published(n) ==
  IF n <= Start + 2 THEN 0
  ELSE IF n <= Start + RequestCount + 5 THEN 1
  ELSE IF n <= Start + 2 * RequestCount + 9 THEN RequestCount ELSE RequestCount + 1

Kicks(n) == IF n > ThirdRing THEN 1 ELSE 0   \* doorbells for the ioeventfd

RingTypes ==
  /\ used_idx \in Nat /\ last_avail_idx \in Nat
  /\ desc \in [Table -> BOOLEAN] /\ avail_ring \in [Table -> Nat] /\ used_ring \in [Table -> Nat]
  /\ pq \in [Callers -> [pc : {"idle", "enter", "fetch", "fill", "used", "publish", "advance",
                               "done", "failed"},
                         snap : Nat, head : Nat]]
  /\ Len(staged) \in Nat /\ staged \in Seq(Nat)

\* The driver's side.
DriverRings ==
  /\ avail_idx = Published(pc)
  /\ Len(staged) = Prepared(pc) - Published(pc)
  /\ \A n \in 0 .. Prepared(pc) - 1 : desc[n] /\ avail_ring[n] = n

\* The device's side: one process_queue() at a time, at the request it is at.
DeviceRings ==
  /\ last_avail_idx <= avail_idx
  /\ used_idx = last_avail_idx + (IF \E p \in Callers : pq[p].pc = "advance" THEN 1 ELSE 0)
  /\ \A n \in 0 .. used_idx - 1 : used_ring[n] = n /\ n \in filled
  /\ \A p \in Callers :
       /\ pq[p].pc \in {"fetch", "fill", "used", "publish", "advance", "done"} =>
            pq[p].snap = avail_idx
       /\ pq[p].pc \in {"fill", "used", "publish"} => pq[p].head = last_avail_idx
       /\ pq[p].pc \in {"fill", "used", "publish", "advance"} => last_avail_idx < avail_idx
       /\ pq[p].pc \in {"used", "publish"} => pq[p].head \in filled
       /\ pq[p].pc = "publish" => used_ring[used_idx] = pq[p].head

\* The device's configuration.
DeviceInv ==
  /\ "FEATURES_OK" \in status => Negotiated
  /\ queue_sel = RNG_QUEUE

Busy == {"queue", "check", "interrupt", "call", "count"}

\* Who has been rung for, and by whom: two exits, then the ioeventfd.
KickInv ==
  /\ kick_count \in Nat /\ count \in Nat /\ guest_kicks \in Nat /\ stop \in BOOLEAN
  /\ worker \in Busy \cup {"none", "read", "woken", "ended"}
  /\ guest_calls \in {0, 1} /\ backend_result \in {0, 1}
  /\ pq["worker"].pc # "idle" <=> worker = "queue"
  /\ phase \in {"run", "setup"} => ~stop
  /\ phase = "run" /\ worker = "none" =>
       /\ held = {} /\ pc <= SecondRing
       /\ queue_notify_exits = (IF pc > FirstRing THEN 1 ELSE 0)
                                 + (IF pq["vmm"].pc # "idle" THEN 1 ELSE 0)
  /\ phase = "setup" => pc = SecondRing + 1 /\ queue_notify_exits = 2
  /\ worker = "none" =>
       /\ kick_count = 0 /\ guest_kicks = 0 /\ guest_calls = 0 /\ backend_result = 0
       /\ ~stop /\ "worker" \notin held /\ pc <= ThirdRing
  /\ worker # "none" => queue_notify_exits = 2 /\ pc > SecondRing
  /\ ~stop => kick_count + (IF worker = "woken" THEN count ELSE 0) + guest_kicks = Kicks(pc)
  /\ worker \in Busy => guest_kicks = 1 /\ guest_calls = 0 /\ backend_result = 0 /\ pc > ThirdRing
  /\ worker \in {"read", "woken"} => backend_result = 0
  /\ worker \in {"read", "woken"} \/ (worker = "ended" /\ backend_result = 0) =>
       guest_kicks = guest_calls
  /\ guest_calls = 1 => /\ guest_kicks = 1 /\ pc > ThirdRing
                        /\ worker \in {"read", "woken", "ended"}

\* The interrupt, its cause and its handler.
Announced == irq \/ isr # "none" \/ completion = 1

AnnounceInv ==
  /\ irq \in BOOLEAN /\ completion \in {0, 1} /\ isr \in {"none", "status", "ack", "eoi"}
  /\ worker \in {"interrupt", "call", "count"} \/ guest_calls = 1 =>
       used_idx = TotalCount /\ last_avail_idx = TotalCount
  /\ Announced => worker = "count" \/ guest_calls = 1
  /\ worker = "call" \/ irq \/ isr \in {"status", "ack"} => interrupt_status = 1
  /\ irq => isr = "none" /\ completion = 0
  /\ isr \in {"status", "ack"} => completion = 0
  /\ isr = "eoi" => completion = 1
  /\ isr # "none" => pc = HaltPc
  /\ completion = 1 => interrupt_status = 0
  /\ pc >= AwakePc => completion = 1

\* The shutdown path, one step after the other.
ShutdownInv ==
  /\ held \subseteq {"kick_fd", "call_fd", "ioeventfd", "irqfd", "worker"}
  /\ run_result \in {0, 1}
  /\ run_result = 0 => completion = 1 /\ phase \in {"shutdown", "exited"}
  /\ worker \notin {"none", "ended"} => {"kick_fd", "call_fd", "worker"} \subseteq held
  /\ worker # "none" /\ (phase = "shutdown" => step <= 5) /\ phase # "exited" => "worker" \in held
  /\ phase \in {"shutdown", "exited"} =>
       /\ step \in 1 .. 7
       /\ phase = "exited" => step = 7
       /\ "ioeventfd" \in held /\ step > 1 => run_result = 1
       /\ "irqfd" \in held /\ step > 2 => run_result = 1
       /\ step > 3 /\ worker # "none" => stop
       /\ step > 5 => "worker" \notin held /\ worker \in {"none", "ended"}
       /\ step > 6 => "kick_fd" \notin held /\ "call_fd" \notin held
  /\ phase = "exited" => (exit_code = 0 <=> run_result = 0 /\ backend_result = 0)

RunInv ==
  /\ ConsumerInv /\ RingTypes /\ DriverRings /\ DeviceRings /\ DeviceInv /\ KickInv
  /\ AnnounceInv /\ ShutdownInv

LEMMA DoIs == \A o, x : Do(o, x).op = o /\ Do(o, x).v = x
BY DEF Do

LEMMA BatchAt ==
  ASSUME NEW from \in Nat, NEW to \in Nat, from <= to
  PROVE  /\ IsList(Batch(from, to))
         /\ Len(Batch(from, to)) = to - from + 2
         /\ \A n \in 1 .. to - from : Batch(from, to)[n] = Do("prepare", from + n - 1)
         /\ Batch(from, to)[to - from + 1] = Do("publish", to)
         /\ Batch(from, to)[to - from + 2] = Do("notify", RNG_QUEUE)
<1> DEFINE m == to - from
           p == [n \in 1 .. m |-> Do("prepare", from + n - 1)]
           q == <<Do("publish", to), Do("notify", RNG_QUEUE)>>
<1>1. m \in Nat /\ p \in Seq({Do("prepare", from + n - 1) : n \in 1 .. m}) /\ Len(p) = m
  <2>1. m \in Nat
    OBVIOUS
  <2> HIDE DEF m
  <2>2. p \in [1 .. m -> {Do("prepare", from + n - 1) : n \in 1 .. m}]
    OBVIOUS
  <2> QED
    BY <2>1, <2>2, ListOf
<1>2. IsList(p)
  <2>1. \A n \in 1 .. m : p[n] \in ToSet(p)
    BY DEF ToSet
  <2>2. p \in [1 .. m -> ToSet(p)]
    BY <2>1
  <2> HIDE DEF p, m
  <2> QED
    BY <1>1, <2>2, ListOf DEF IsList
<1>3. IsList(q) /\ Len(q) = 2 /\ q[1] = Do("publish", to) /\ q[2] = Do("notify", RNG_QUEUE)
  <2>1. OpsIn(q, Requesting)
    BY OpNames, OpsOfTwo DEF Requesting
  <2> QED
    BY <2>1 DEF OpsIn
<1>4. \A n \in 1 .. m : p[n] = Do("prepare", from + n - 1)
  OBVIOUS
<1>5. Batch(from, to) = p \o q
  BY DEF Batch
<1> HIDE DEF p, q, m
<1>6. IsList(q)
  BY <1>3
<1>7. /\ IsList(p \o q)
      /\ Len(p) \in Nat /\ Len(q) \in Nat /\ Len(p \o q) = Len(p) + Len(q)
      /\ \A n \in 1 .. Len(p) : (p \o q)[n] = p[n]
      /\ \A n \in 1 .. Len(q) : (p \o q)[Len(p) + n] = q[n]
  BY <1>2, <1>6, Joined
<1> QED
  BY <1>1, <1>3, <1>4, <1>5, <1>7 DEF m

LEMMA PolledAt ==
  ASSUME NEW from \in Nat, NEW to \in Nat, from <= to
  PROVE  /\ IsList(Polled(from, to))
         /\ Len(Polled(from, to)) = to - from + 1
         /\ Polled(from, to)[1] = Do("poll", to)
         /\ \A n \in 1 .. to - from : Polled(from, to)[1 + n] = Do("reap", from + n - 1)
<1> DEFINE m == to - from
           q == <<Do("poll", to)>>
           p == [n \in 1 .. m |-> Do("reap", from + n - 1)]
<1>1. m \in Nat /\ p \in Seq({Do("reap", from + n - 1) : n \in 1 .. m}) /\ Len(p) = m
  <2>1. m \in Nat
    OBVIOUS
  <2> HIDE DEF m
  <2>2. p \in [1 .. m -> {Do("reap", from + n - 1) : n \in 1 .. m}]
    OBVIOUS
  <2> QED
    BY <2>1, <2>2, ListOf
<1>2. IsList(p)
  <2>1. \A n \in 1 .. m : p[n] \in ToSet(p)
    BY DEF ToSet
  <2>2. p \in [1 .. m -> ToSet(p)]
    BY <2>1
  <2> HIDE DEF p, m
  <2> QED
    BY <1>1, <2>2, ListOf DEF IsList
<1>3. IsList(q) /\ Len(q) = 1 /\ q[1] = Do("poll", to)
  <2>1. OpsIn(q, Completing)
    BY OpNames, OpsOfOne DEF Completing
  <2> QED
    BY <2>1 DEF OpsIn
<1>4. \A n \in 1 .. m : p[n] = Do("reap", from + n - 1)
  OBVIOUS
<1>5. Polled(from, to) = q \o p
  BY DEF Polled
<1> HIDE DEF p, q, m
<1>6. IsList(q)
  BY <1>3
<1>7. /\ IsList(q \o p)
      /\ Len(q) \in Nat /\ Len(p) \in Nat /\ Len(q \o p) = Len(q) + Len(p)
      /\ \A n \in 1 .. Len(q) : (q \o p)[n] = q[n]
      /\ \A n \in 1 .. Len(p) : (q \o p)[Len(q) + n] = p[n]
  BY <1>2, <1>6, Joined
<1>8. /\ Len(q) = 1 /\ Len(p) = m /\ m \in Nat
      /\ Len(q \o p) = 1 + m /\ (q \o p)[1] = q[1]
  BY <1>1, <1>3, <1>7
<1>9. \A n \in 1 .. m : (q \o p)[1 + n] = Do("reap", from + n - 1)
  BY <1>4, <1>7, <1>8
<1> QED
  BY <1>3, <1>5, <1>7, <1>8, <1>9 DEF m

\* guest.S from its first request on, operation by operation.
LEMMA Layout ==
  /\ Start \in Nat /\ Finish = Start + 2 * RequestCount + 15
  /\ Program[Start + 1] = Do("prepare", 0) /\ Program[Start + 2] = Do("publish", 1)
  /\ Program[Start + 3] = Do("notify", RNG_QUEUE)
  /\ Program[Start + 4] = Do("poll", 1) /\ Program[Start + 5] = Do("reap", 0)
  /\ \A n \in 1 .. RequestCount - 1 : Program[Start + 5 + n] = Do("prepare", n)
  /\ Program[Start + RequestCount + 5] = Do("publish", RequestCount)
  /\ Program[Start + RequestCount + 6] = Do("notify", RNG_QUEUE)
  /\ Program[Start + RequestCount + 7] = Do("poll", RequestCount)
  /\ \A n \in 1 .. RequestCount - 1 : Program[Start + RequestCount + 7 + n] = Do("reap", n)
  /\ Program[Start + 2 * RequestCount + 7] = Do("arm_irq", 0)
  /\ Program[Start + 2 * RequestCount + 8] = Do("prepare", RequestCount)
  /\ Program[Start + 2 * RequestCount + 9] = Do("publish", TotalCount)
  /\ Program[Start + 2 * RequestCount + 10] = Do("notify", RNG_QUEUE)
<1> DEFINE AB == PhaseA \o PhaseB
           B1 == Batch(0, 1)
           P1 == Polled(0, 1)
           B2 == Batch(1, RequestCount)
           P2 == Polled(1, RequestCount)
           A3 == <<Do("arm_irq", 0)>>
           B3 == Batch(RequestCount, TotalCount)
           C1 == B1 \o P1
           C2 == C1 \o B2
           C3 == C2 \o P2
           X  == AB \o C3
           D1 == A3 \o B3
           D2 == D1 \o Ending
<1>0. RequestCount \in Nat /\ RequestCount >= 2 /\ TotalCount = RequestCount + 1
  BY RngAssumption DEF TotalCount
<1>n. /\ 0 \in Nat /\ 1 \in Nat /\ 0 <= 1 /\ RequestCount \in Nat /\ 1 <= RequestCount
      /\ TotalCount \in Nat /\ RequestCount <= TotalCount
  BY <1>0
<1>1. Program = X \o D2
  BY DEF Program, PhaseC, PhaseD, Ending
<1>2. IsList(AB) /\ Len(AB) \in Nat /\ Start = Len(AB)
  <2>1. IsList(PhaseA) /\ IsList(PhaseB)
    BY PhaseAOps, PhaseBOps DEF OpsIn
  <2>2. IsList(AB)
    BY <2>1, Joined
  <2> QED
    BY <2>2 DEF Start, IsList
<1>3. /\ IsList(B1) /\ Len(B1) = 3 /\ B1[1] = Do("prepare", 0) /\ B1[2] = Do("publish", 1)
      /\ B1[3] = Do("notify", RNG_QUEUE)
  <2>1. /\ IsList(B1) /\ Len(B1) = 1 - 0 + 2
        /\ \A n \in 1 .. 1 - 0 : B1[n] = Do("prepare", 0 + n - 1)
        /\ B1[1 - 0 + 1] = Do("publish", 1) /\ B1[1 - 0 + 2] = Do("notify", RNG_QUEUE)
    BY <1>n, BatchAt, Zenon
  <2> HIDE DEF B1
  <2> QED
    BY <2>1
<1>4. IsList(P1) /\ Len(P1) = 2 /\ P1[1] = Do("poll", 1) /\ P1[2] = Do("reap", 0)
  <2>1. /\ IsList(P1) /\ Len(P1) = 1 - 0 + 1 /\ P1[1] = Do("poll", 1)
        /\ \A n \in 1 .. 1 - 0 : P1[1 + n] = Do("reap", 0 + n - 1)
    BY <1>n, PolledAt, Zenon
  <2> HIDE DEF P1
  <2> QED
    BY <2>1
<1>5. /\ IsList(B2) /\ Len(B2) = RequestCount + 1
      /\ \A n \in 1 .. RequestCount - 1 : B2[n] = Do("prepare", n)
      /\ B2[RequestCount] = Do("publish", RequestCount)
      /\ B2[RequestCount + 1] = Do("notify", RNG_QUEUE)
  <2>1. /\ IsList(B2) /\ Len(B2) = RequestCount - 1 + 2
        /\ \A n \in 1 .. RequestCount - 1 : B2[n] = Do("prepare", 1 + n - 1)
        /\ B2[RequestCount - 1 + 1] = Do("publish", RequestCount)
        /\ B2[RequestCount - 1 + 2] = Do("notify", RNG_QUEUE)
    BY <1>n, BatchAt, Zenon
  <2> HIDE DEF B2
  <2> QED
    BY <1>0, <2>1
<1>6. /\ IsList(P2) /\ Len(P2) = RequestCount /\ P2[1] = Do("poll", RequestCount)
      /\ \A n \in 1 .. RequestCount - 1 : P2[1 + n] = Do("reap", n)
  <2>1. /\ IsList(P2) /\ Len(P2) = RequestCount - 1 + 1 /\ P2[1] = Do("poll", RequestCount)
        /\ \A n \in 1 .. RequestCount - 1 : P2[1 + n] = Do("reap", 1 + n - 1)
    BY <1>n, PolledAt, Zenon
  <2> HIDE DEF P2
  <2> QED
    BY <1>0, <2>1
<1>7. IsList(A3) /\ Len(A3) = 1 /\ A3[1] = Do("arm_irq", 0)
  <2>1. OpsIn(A3, {"arm_irq"})
    BY OpNames, OpsOfOne
  <2> QED
    BY <2>1 DEF OpsIn
<1>8. /\ IsList(B3) /\ Len(B3) = 3 /\ B3[1] = Do("prepare", RequestCount)
      /\ B3[2] = Do("publish", TotalCount) /\ B3[3] = Do("notify", RNG_QUEUE)
  <2>1. /\ IsList(B3) /\ Len(B3) = TotalCount - RequestCount + 2
        /\ \A n \in 1 .. TotalCount - RequestCount : B3[n] = Do("prepare", RequestCount + n - 1)
        /\ B3[TotalCount - RequestCount + 1] = Do("publish", TotalCount)
        /\ B3[TotalCount - RequestCount + 2] = Do("notify", RNG_QUEUE)
    BY <1>n, BatchAt, Zenon
  <2> HIDE DEF B3
  <2>2. TotalCount - RequestCount = 1 /\ RequestCount + 1 - 1 = RequestCount
    BY <1>0
  <2> QED
    BY <2>1, <2>2
<1>9. IsList(Ending) /\ Len(Ending) = 5
  BY EndingOps DEF OpsIn
<1> HIDE DEF AB, B1, P1, B2, P2, A3, B3
<1>10. /\ IsList(C1) /\ Len(C1) = Len(B1) + Len(P1)
       /\ \A n \in 1 .. Len(B1) : C1[n] = B1[n]
       /\ \A n \in 1 .. Len(P1) : C1[Len(B1) + n] = P1[n]
  <2>1. IsList(B1) /\ IsList(P1)
    BY <1>3, <1>4
  <2> QED
    BY <2>1, Joined
<1> HIDE DEF C1
<1>11. /\ IsList(C2) /\ Len(C2) = Len(C1) + Len(B2)
       /\ \A n \in 1 .. Len(C1) : C2[n] = C1[n]
       /\ \A n \in 1 .. Len(B2) : C2[Len(C1) + n] = B2[n]
  <2>1. IsList(C1) /\ IsList(B2)
    BY <1>5, <1>10
  <2> QED
    BY <2>1, Joined
<1> HIDE DEF C2
<1>12. /\ IsList(C3) /\ Len(C3) = Len(C2) + Len(P2)
       /\ \A n \in 1 .. Len(C2) : C3[n] = C2[n]
       /\ \A n \in 1 .. Len(P2) : C3[Len(C2) + n] = P2[n]
  <2>1. IsList(C2) /\ IsList(P2)
    BY <1>6, <1>11
  <2> QED
    BY <2>1, Joined
<1> HIDE DEF C3
<1>13. /\ IsList(X) /\ Len(X) = Start + Len(C3)
       /\ \A n \in 1 .. Len(C3) : X[Start + n] = C3[n]
  <2>1. IsList(AB) /\ IsList(C3)
    BY <1>2, <1>12
  <2> QED
    BY <1>2, <2>1, Joined
<1> HIDE DEF X
<1>14. /\ IsList(D1) /\ Len(D1) = Len(A3) + Len(B3)
       /\ \A n \in 1 .. Len(A3) : D1[n] = A3[n]
       /\ \A n \in 1 .. Len(B3) : D1[Len(A3) + n] = B3[n]
  <2>1. IsList(A3) /\ IsList(B3)
    BY <1>7, <1>8
  <2> QED
    BY <2>1, Joined
<1> HIDE DEF D1
<1>15. /\ IsList(D2) /\ Len(D2) = Len(D1) + Len(Ending)
       /\ \A n \in 1 .. Len(D1) : D2[n] = D1[n]
  <2>1. IsList(D1) /\ IsList(Ending)
    BY <1>9, <1>14
  <2> QED
    BY <2>1, Joined
<1> HIDE DEF D2
<1>16. /\ Len(Program) = Len(X) + Len(D2)
       /\ \A n \in 1 .. Len(X) : Program[n] = X[n]
       /\ \A n \in 1 .. Len(D2) : Program[Len(X) + n] = D2[n]
  <2>1. IsList(X) /\ IsList(D2)
    BY <1>13, <1>15
  <2> QED
    BY <1>1, <2>1, Joined
<1>17. /\ Len(C1) = 5 /\ Len(C2) = RequestCount + 6 /\ Len(C3) = 2 * RequestCount + 6
       /\ Len(X) = Start + 2 * RequestCount + 6 /\ Len(D1) = 4 /\ Len(D2) = 9
       /\ Start \in Nat /\ Finish = Start + 2 * RequestCount + 15
  BY <1>0, <1>2, <1>3, <1>4, <1>5, <1>6, <1>7, <1>8, <1>9, <1>10, <1>11, <1>12, <1>13, <1>14, <1>15,
     <1>16 DEF Finish
<1>18. \A n \in 1 .. 2 * RequestCount + 6 : Program[Start + n] = C3[n]
  <2> SUFFICES ASSUME NEW n \in 1 .. 2 * RequestCount + 6 PROVE Program[Start + n] = C3[n]
    OBVIOUS
  <2>1. Start + n \in 1 .. Len(X) /\ n \in 1 .. Len(C3)
    BY <1>0, <1>17
  <2> QED
    BY <1>13, <1>16, <2>1
<1>19. \A n \in 1 .. 5 : C3[n] = C1[n]
  <2> SUFFICES ASSUME NEW n \in 1 .. 5 PROVE C3[n] = C1[n]
    OBVIOUS
  <2>1. n \in 1 .. Len(C2) /\ n \in 1 .. Len(C1)
    BY <1>0, <1>17
  <2> QED
    BY <1>11, <1>12, <2>1
<1>20. \A n \in 1 .. RequestCount + 1 : C3[5 + n] = B2[n]
  <2> SUFFICES ASSUME NEW n \in 1 .. RequestCount + 1 PROVE C3[5 + n] = B2[n]
    OBVIOUS
  <2>1. 5 + n \in 1 .. Len(C2) /\ n \in 1 .. Len(B2)
    BY <1>0, <1>5, <1>17
  <2>2. C2[Len(C1) + n] = B2[n]
    BY <1>11, <2>1
  <2> QED
    BY <1>12, <1>17, <2>1, <2>2
<1>21. \A n \in 1 .. RequestCount : C3[RequestCount + 6 + n] = P2[n]
  BY <1>6, <1>12, <1>17
<1>22. \A n \in 1 .. 4 : Program[Start + 2 * RequestCount + 6 + n] = D1[n]
  <2> SUFFICES ASSUME NEW n \in 1 .. 4 PROVE Program[Start + 2 * RequestCount + 6 + n] = D1[n]
    OBVIOUS
  <2>1. n \in 1 .. Len(D1) /\ n \in 1 .. Len(D2)
    BY <1>17
  <2>2. Program[Len(X) + n] = D2[n] /\ D2[n] = D1[n]
    BY <1>15, <1>16, <2>1
  <2> QED
    BY <1>17, <2>2
<1>23. /\ C1[1] = Do("prepare", 0) /\ C1[2] = Do("publish", 1) /\ C1[3] = Do("notify", RNG_QUEUE)
       /\ C1[4] = Do("poll", 1) /\ C1[5] = Do("reap", 0)
  <2>1. C1[1] = B1[1] /\ C1[2] = B1[2] /\ C1[3] = B1[3] /\ C1[3 + 1] = P1[1] /\ C1[3 + 2] = P1[2]
    BY <1>3, <1>4, <1>10
  <2> QED
    BY <1>3, <1>4, <2>1
<1>24. /\ D1[1] = Do("arm_irq", 0) /\ D1[2] = Do("prepare", RequestCount)
       /\ D1[3] = Do("publish", TotalCount) /\ D1[4] = Do("notify", RNG_QUEUE)
  <2>1. D1[1] = A3[1] /\ D1[1 + 1] = B3[1] /\ D1[1 + 2] = B3[2] /\ D1[1 + 3] = B3[3]
    BY <1>7, <1>8, <1>14
  <2> QED
    BY <1>7, <1>8, <2>1
<1>25. /\ Program[Start + 1] = Do("prepare", 0) /\ Program[Start + 2] = Do("publish", 1)
       /\ Program[Start + 3] = Do("notify", RNG_QUEUE)
       /\ Program[Start + 4] = Do("poll", 1) /\ Program[Start + 5] = Do("reap", 0)
  <2>1. \A n \in 1 .. 5 : Program[Start + n] = C1[n]
    BY <1>0, <1>18, <1>19
  <2> QED
    BY <1>23, <2>1
<1>26. \A n \in 1 .. RequestCount + 1 : Program[Start + 5 + n] = B2[n]
  <2> SUFFICES ASSUME NEW n \in 1 .. RequestCount + 1 PROVE Program[Start + 5 + n] = B2[n]
    OBVIOUS
  <2>1. 5 + n \in 1 .. 2 * RequestCount + 6 /\ Start + (5 + n) = Start + 5 + n
    BY <1>0, <1>17
  <2>2. Program[Start + (5 + n)] = C3[5 + n]
    BY <1>18, <2>1
  <2> QED
    BY <1>20, <2>1, <2>2
<1>27. \A n \in 1 .. RequestCount : Program[Start + RequestCount + 6 + n] = P2[n]
  <2> SUFFICES ASSUME NEW n \in 1 .. RequestCount PROVE Program[Start + RequestCount + 6 + n] = P2[n]
    OBVIOUS
  <2>1. /\ RequestCount + 6 + n \in 1 .. 2 * RequestCount + 6
        /\ Start + (RequestCount + 6 + n) = Start + RequestCount + 6 + n
    BY <1>0, <1>17
  <2>2. Program[Start + (RequestCount + 6 + n)] = C3[RequestCount + 6 + n]
    BY <1>18, <2>1
  <2> QED
    BY <1>21, <2>1, <2>2
<1>28. /\ \A n \in 1 .. RequestCount - 1 : Program[Start + 5 + n] = Do("prepare", n)
       /\ Program[Start + RequestCount + 5] = Do("publish", RequestCount)
       /\ Program[Start + RequestCount + 6] = Do("notify", RNG_QUEUE)
  <2>1. Program[Start + 5 + RequestCount] = B2[RequestCount]
    BY <1>0, <1>26
  <2>2. Program[Start + 5 + (RequestCount + 1)] = B2[RequestCount + 1]
    BY <1>0, <1>26
  <2>3. /\ Start + 5 + RequestCount = Start + RequestCount + 5
        /\ Start + 5 + (RequestCount + 1) = Start + RequestCount + 6
    BY <1>0, <1>17
  <2>4. \A n \in 1 .. RequestCount - 1 : Program[Start + 5 + n] = B2[n]
    BY <1>0, <1>26
  <2> QED
    BY <1>5, <2>1, <2>2, <2>3, <2>4
<1>29. /\ Program[Start + RequestCount + 7] = Do("poll", RequestCount)
       /\ \A n \in 1 .. RequestCount - 1 : Program[Start + RequestCount + 7 + n] = Do("reap", n)
  <2>1. Program[Start + RequestCount + 6 + 1] = P2[1]
    BY <1>0, <1>27
  <2>2. ASSUME NEW n \in 1 .. RequestCount - 1
        PROVE  Program[Start + RequestCount + 7 + n] = Do("reap", n)
    <3>1. Program[Start + RequestCount + 6 + (1 + n)] = P2[1 + n]
      BY <1>0, <1>27
    <3>2. Start + RequestCount + 6 + (1 + n) = Start + RequestCount + 7 + n
      BY <1>0, <1>17
    <3> QED
      BY <1>6, <3>1, <3>2
  <2>3. Start + RequestCount + 6 + 1 = Start + RequestCount + 7
    BY <1>0, <1>17
  <2> QED
    BY <1>6, <2>1, <2>2, <2>3
<1>30. /\ Program[Start + 2 * RequestCount + 7] = Do("arm_irq", 0)
       /\ Program[Start + 2 * RequestCount + 8] = Do("prepare", RequestCount)
       /\ Program[Start + 2 * RequestCount + 9] = Do("publish", TotalCount)
       /\ Program[Start + 2 * RequestCount + 10] = Do("notify", RNG_QUEUE)
  <2>1. /\ Program[Start + 2 * RequestCount + 6 + 1] = D1[1]
        /\ Program[Start + 2 * RequestCount + 6 + 2] = D1[2]
        /\ Program[Start + 2 * RequestCount + 6 + 3] = D1[3]
        /\ Program[Start + 2 * RequestCount + 6 + 4] = D1[4]
    BY <1>22
  <2>2. /\ Start + 2 * RequestCount + 6 + 1 = Start + 2 * RequestCount + 7
        /\ Start + 2 * RequestCount + 6 + 2 = Start + 2 * RequestCount + 8
        /\ Start + 2 * RequestCount + 6 + 3 = Start + 2 * RequestCount + 9
        /\ Start + 2 * RequestCount + 6 + 4 = Start + 2 * RequestCount + 10
    BY <1>0, <1>17
  <2> QED
    BY <1>24, <2>1, <2>2
<1> QED
  BY <1>17, <1>25, <1>28, <1>29, <1>30

\* The guest selects no other queue.
Selects(s) == \A n \in 1 .. Len(s) : s[n].reg = "QUEUE_SEL" => s[n].v = RNG_QUEUE

LEMMA SelectsBoth ==
  ASSUME NEW s, NEW t, IsList(s), IsList(t), Selects(s), Selects(t)
  PROVE  IsList(s \o t) /\ Selects(s \o t)
<1> DEFINE u == s \o t
<1>1. /\ IsList(u)
      /\ Len(s) \in Nat /\ Len(t) \in Nat /\ Len(u) = Len(s) + Len(t)
      /\ \A n \in 1 .. Len(s) : u[n] = s[n]
      /\ \A n \in 1 .. Len(t) : u[Len(s) + n] = t[n]
  BY Joined
<1> HIDE DEF u
<1>2. ASSUME NEW n \in 1 .. Len(u), u[n].reg = "QUEUE_SEL" PROVE u[n].v = RNG_QUEUE
  <2>1. CASE n <= Len(s)
    BY <1>1, <1>2, <2>1 DEF Selects
  <2>2. CASE n > Len(s)
    <3>1. n - Len(s) \in 1 .. Len(t) /\ u[n] = t[n - Len(s)]
      BY <1>1, <2>2
    <3> QED
      BY <1>2, <3>1 DEF Selects
  <2> QED
    BY <1>1, <2>1, <2>2
<1> QED
  BY <1>1, <1>2 DEF u, Selects

LEMMA FieldsOf ==
  /\ \A r, x : Write(r, x).reg = r /\ Write(r, x).v = x
  /\ \A r, x : Read(r, x).reg = r /\ Read(r, x).v = x
  /\ \A o, x : Do(o, x).reg = "none"
BY DEF Write, Read, Do

LEMMA GuestSelects ==
  ASSUME NEW n \in 1 .. Start, Program[n].reg = "QUEUE_SEL"
  PROVE  Program[n].v = RNG_QUEUE
<1> DEFINE w1 == <<Write("QUEUE_SEL", RNG_QUEUE), Read("QUEUE_READY", 0),
                   Read("QUEUE_SIZE_MAX", QueueSizeMax), Do("clear", 0),
                   Write("QUEUE_SIZE", QueueSizeMax)>>
           w3 == <<Write("QUEUE_READY", 1), Read("QUEUE_READY", 1),
                   Write("STATUS", Operational), Read("STATUS", Operational)>>
           a1 == WriteArea("desc")
           a2 == WriteArea("driver")
           a3 == WriteArea("device")
<1>1. IsList(PhaseA) /\ Selects(PhaseA)
  <2>1. IsList(PhaseA)
    BY PhaseAOps DEF OpsIn
  <2>2. Len(PhaseA) = 14
    BY DEF PhaseA
  <2>3. \A k \in 1 .. 14 : PhaseA[k].reg # "QUEUE_SEL"
    BY FieldsOf DEF PhaseA
  <2> QED
    BY <2>1, <2>2, <2>3 DEF Selects
<1>2. IsList(w1) /\ Selects(w1)
  <2>1. OpsIn(w1, Configuring)
    BY OpNames, OpsOfFive DEF Configuring
  <2>2. Len(w1) = 5
    OBVIOUS
  <2>3. \A k \in 1 .. 5 : w1[k].reg = "QUEUE_SEL" => w1[k].v = RNG_QUEUE
    BY FieldsOf
  <2> QED
    BY <2>1, <2>2, <2>3 DEF Selects, OpsIn
<1>3. IsList(w3) /\ Selects(w3)
  <2>1. OpsIn(w3, Configuring)
    BY OpNames, OpsOfFour DEF Configuring
  <2>2. Len(w3) = 4
    OBVIOUS
  <2>3. \A k \in 1 .. 4 : w3[k].reg = "QUEUE_SEL" => w3[k].v = RNG_QUEUE
    BY FieldsOf
  <2> QED
    BY <2>1, <2>2, <2>3 DEF Selects, OpsIn
<1>4. ASSUME NEW a, a # "QUEUE_SEL" PROVE IsList(WriteArea(a)) /\ Selects(WriteArea(a))
  <2>1. IsList(WriteArea(a))
    BY AreaOps DEF OpsIn
  <2>2. Selects(WriteArea(a))
    BY <1>4 DEF Selects, WriteArea
  <2> QED
    BY <2>1, <2>2
<1>5. /\ IsList(a1) /\ Selects(a1) /\ IsList(a2) /\ Selects(a2) /\ IsList(a3) /\ Selects(a3)
  BY <1>4
<1>6. PhaseB = (((w1 \o a1) \o a2) \o a3) \o w3
  BY DEF PhaseB
<1> HIDE DEF w1, w3, a1, a2, a3
<1>7. IsList(w1 \o a1) /\ Selects(w1 \o a1)
  BY <1>2, <1>5, SelectsBoth
<1>8. IsList((w1 \o a1) \o a2) /\ Selects((w1 \o a1) \o a2)
  BY <1>5, <1>7, SelectsBoth
<1>9. IsList(((w1 \o a1) \o a2) \o a3) /\ Selects(((w1 \o a1) \o a2) \o a3)
  BY <1>5, <1>8, SelectsBoth
<1>10. IsList(PhaseB) /\ Selects(PhaseB)
  BY <1>3, <1>6, <1>9, SelectsBoth
<1>11. IsList(PhaseA \o PhaseB) /\ Selects(PhaseA \o PhaseB)
  BY <1>1, <1>10, SelectsBoth
<1> DEFINE ab == PhaseA \o PhaseB  cd == PhaseC \o PhaseD
<1>12. Program[n] = (PhaseA \o PhaseB)[n]
  <2>1. IsList(PhaseC)
    BY PhaseCOps DEF OpsIn
  <2>2. IsList(ab \o PhaseC) /\ (\A k \in 1 .. Len(ab) : (ab \o PhaseC)[k] = ab[k])
        /\ Len(ab) \in Nat /\ Len(PhaseC) \in Nat /\ Len(ab \o PhaseC) = Len(ab) + Len(PhaseC)
    BY <1>11, <2>1, Joined
  <2>3. IsList(PhaseD)
    <3> DEFINE Y == <<Do("arm_irq", 0)>> \o Batch(RequestCount, TotalCount)
    <3>1. OpsIn(<<Do("arm_irq", 0)>>, {"arm_irq"})
      BY OpNames, OpsOfOne
    <3>2. RequestCount \in Nat /\ TotalCount \in Nat /\ RequestCount <= TotalCount
      BY RngAssumption DEF TotalCount
    <3>3. OpsIn(Batch(RequestCount, TotalCount), Requesting)
      BY <3>2, BatchOps
    <3>4. IsList(Y) /\ IsList(Ending)
      BY <3>1, <3>3, Joined, EndingOps DEF OpsIn
    <3> HIDE DEF Y
    <3>5. IsList(Y \o Ending)
      BY <3>4, Joined
    <3> QED
      BY <3>5 DEF Y, PhaseD, Ending
  <2>4. Program = (ab \o PhaseC) \o PhaseD
    BY DEF Program
  <2>5. Start = Len(ab)
    BY DEF Start
  <2> DEFINE abc == ab \o PhaseC
  <2>6. IsList(abc) /\ (\A k \in 1 .. Len(ab) : abc[k] = ab[k]) /\ Len(abc) = Len(ab) + Len(PhaseC)
        /\ Program = abc \o PhaseD /\ Len(ab) \in Nat /\ Len(PhaseC) \in Nat
    BY <2>2, <2>4
  <2> HIDE DEF abc, ab
  <2>7. \A k \in 1 .. Len(abc) : Program[k] = abc[k]
    BY <2>3, <2>6, Joined
  <2>8. n \in 1 .. Len(ab) /\ n \in 1 .. Len(abc)
    BY <2>5, <2>6
  <2>9. Program[n] = ab[n]
    BY <2>6, <2>7, <2>8
  <2> QED
    BY <2>9 DEF ab
<1> QED
  BY <1>11, <1>12 DEF Selects, Start

\* What an operation of guest.S does to the counts of prepared and published requests.
LEMMA Progress ==
  ASSUME NEW n \in 1 .. Finish
  PROVE  /\ Prepared(n) \in 0 .. TotalCount /\ Published(n) \in 0 .. Prepared(n)
         /\ n <= Start => Prepared(n) = 0
         /\ Program[n].op = "prepare" =>
              /\ Program[n].v = Prepared(n) /\ Prepared(n) < TotalCount
              /\ Prepared(n + 1) = Prepared(n) + 1 /\ Published(n + 1) = Published(n)
         /\ Program[n].op = "publish" =>
              /\ Program[n].v = Prepared(n) /\ n < ThirdRing
              /\ Prepared(n + 1) = Prepared(n) /\ Published(n + 1) = Prepared(n)
         /\ Program[n].op \notin {"prepare", "publish"} =>
              Prepared(n + 1) = Prepared(n) /\ Published(n + 1) = Published(n)
         /\ Program[n].op = "notify" <=> n \in {FirstRing, SecondRing, ThirdRing}
         /\ n > ThirdRing => Prepared(n) = TotalCount /\ Published(n) = TotalCount
<1> DEFINE Goal == /\ Prepared(n) \in 0 .. TotalCount /\ Published(n) \in 0 .. Prepared(n)
                   /\ n <= Start => Prepared(n) = 0
                   /\ Program[n].op = "prepare" =>
                        /\ Program[n].v = Prepared(n) /\ Prepared(n) < TotalCount
                        /\ Prepared(n + 1) = Prepared(n) + 1 /\ Published(n + 1) = Published(n)
                   /\ Program[n].op = "publish" =>
                        /\ Program[n].v = Prepared(n) /\ n < ThirdRing
                        /\ Prepared(n + 1) = Prepared(n) /\ Published(n + 1) = Prepared(n)
                   /\ Program[n].op \notin {"prepare", "publish"} =>
                        Prepared(n + 1) = Prepared(n) /\ Published(n + 1) = Published(n)
                   /\ Program[n].op = "notify" <=> n \in {FirstRing, SecondRing, ThirdRing}
                   /\ n > ThirdRing => Prepared(n) = TotalCount /\ Published(n) = TotalCount
<1>0. /\ Start \in Nat /\ Finish = Start + 2 * RequestCount + 15
      /\ RequestCount \in Nat /\ RequestCount >= 2 /\ TotalCount = RequestCount + 1
  BY Layout, RngAssumption DEF TotalCount
<1>1. ASSUME NEW o, NEW x, Program[n] = Do(o, x)
      PROVE  Program[n].op = o /\ Program[n].v = x
  BY <1>1, DoIs
<1>2. CASE n <= Start
  <2>1. Program[n].op \in Configuring
    BY <1>0, <1>2, ProgramShape
  <2> QED
    BY <1>0, <1>2, <2>1
       DEF Configuring, Prepared, Published, FirstRing, SecondRing, ThirdRing
<1>3. CASE n = Start + 1
  <2>1. Program[n].op = "prepare" /\ Program[n].v = 0
    BY <1>1, <1>3, Layout
  <2> QED
    BY <1>0, <1>3, <2>1 DEF Prepared, Published, FirstRing, SecondRing, ThirdRing
<1>4. CASE n = Start + 2
  <2>1. Program[n].op = "publish" /\ Program[n].v = 1
    BY <1>1, <1>4, Layout
  <2> QED
    BY <1>0, <1>4, <2>1 DEF Prepared, Published, FirstRing, SecondRing, ThirdRing
<1>5. CASE n = Start + 3
  <2>1. Program[n].op = "notify"
    BY <1>1, <1>5, Layout
  <2> QED
    BY <1>0, <1>5, <2>1 DEF Prepared, Published, FirstRing, SecondRing, ThirdRing
<1>6. CASE n \in {Start + 4, Start + 5}
  <2>1. Program[n].op \in {"poll", "reap"}
    BY <1>1, <1>6, Layout
  <2> QED
    BY <1>0, <1>6, <2>1 DEF Prepared, Published, FirstRing, SecondRing, ThirdRing
<1>7. CASE n \in Start + 6 .. Start + RequestCount + 4
  <2>0. n - Start - 5 \in 1 .. RequestCount - 1 /\ Start + 5 + (n - Start - 5) = n
    BY <1>0, <1>7
  <2>1. Program[n].op = "prepare" /\ Program[n].v = n - Start - 5
    BY <1>1, <2>0, Layout
  <2> QED
    BY <1>0, <1>7, <2>1 DEF Prepared, Published, FirstRing, SecondRing, ThirdRing
<1>8. CASE n = Start + RequestCount + 5
  <2>1. Program[n].op = "publish" /\ Program[n].v = RequestCount
    BY <1>1, <1>8, Layout
  <2> QED
    BY <1>0, <1>8, <2>1 DEF Prepared, Published, FirstRing, SecondRing, ThirdRing
<1>9. CASE n = Start + RequestCount + 6
  <2>1. Program[n].op = "notify"
    BY <1>1, <1>9, Layout
  <2> QED
    BY <1>0, <1>9, <2>1 DEF Prepared, Published, FirstRing, SecondRing, ThirdRing
<1>10. CASE n \in Start + RequestCount + 7 .. Start + 2 * RequestCount + 7
  <2>1. Program[n].op \in {"poll", "reap", "arm_irq"}
    <3>1. CASE n = Start + RequestCount + 7
      BY <1>1, <3>1, Layout
    <3>2. CASE n = Start + 2 * RequestCount + 7
      BY <1>1, <3>2, Layout
    <3>3. CASE n > Start + RequestCount + 7 /\ n < Start + 2 * RequestCount + 7
      <4>1. /\ n - (Start + RequestCount + 7) \in 1 .. RequestCount - 1
            /\ Start + RequestCount + 7 + (n - (Start + RequestCount + 7)) = n
        BY <1>0, <3>3
      <4> QED
        BY <1>1, <4>1, Layout
    <3> QED
      BY <1>0, <1>10, <3>1, <3>2, <3>3
  <2> QED
    BY <1>0, <1>10, <2>1 DEF Prepared, Published, FirstRing, SecondRing, ThirdRing
<1>11. CASE n = Start + 2 * RequestCount + 8
  <2>1. Program[n].op = "prepare" /\ Program[n].v = RequestCount
    BY <1>1, <1>11, Layout
  <2> QED
    BY <1>0, <1>11, <2>1 DEF Prepared, Published, FirstRing, SecondRing, ThirdRing
<1>12. CASE n = Start + 2 * RequestCount + 9
  <2>1. Program[n].op = "publish" /\ Program[n].v = TotalCount
    BY <1>1, <1>12, Layout
  <2> QED
    BY <1>0, <1>12, <2>1 DEF Prepared, Published, FirstRing, SecondRing, ThirdRing
<1>13. CASE n = Start + 2 * RequestCount + 10
  <2>1. Program[n].op = "notify"
    BY <1>1, <1>13, Layout
  <2> QED
    BY <1>0, <1>13, <2>1 DEF Prepared, Published, FirstRing, SecondRing, ThirdRing
<1>14. CASE n > Start + 2 * RequestCount + 10
  <2>0. n \in {Finish - 4, Finish - 3, Finish - 2, Finish - 1, Finish}
    BY <1>0, <1>14
  <2>1. Program[n].op \in {"wait", "halted", "poll", "reap", "success"}
    BY <2>0, ProgramShape
  <2> QED
    BY <1>0, <1>14, <2>1 DEF Prepared, Published, FirstRing, SecondRing, ThirdRing
<1> QED
  BY <1>0, <1>2, <1>3, <1>4, <1>5, <1>6, <1>7, <1>8, <1>9, <1>10, <1>11, <1>12, <1>13, <1>14

LEMMA Spots ==
  /\ Start \in Nat /\ Finish \in Nat /\ RequestCount \in Nat /\ RequestCount >= 2
  /\ FirstRing = Start + 3 /\ SecondRing = Start + RequestCount + 6
  /\ ThirdRing = Finish - 5 /\ SecondRing + 1 < ThirdRing
  /\ WaitPc = Finish - 4 /\ HaltPc = Finish - 3 /\ AwakePc = Finish - 2
  /\ Program[HaltPc].op = "halted"
<1>1. /\ Start \in Nat /\ Finish = Start + 2 * RequestCount + 15
      /\ RequestCount \in Nat /\ RequestCount >= 2
  BY Layout, RngAssumption
<1>2. WaitPc = Finish - 4 /\ HaltPc = Finish - 3 /\ AwakePc = Finish - 2
  BY <1>1, Places DEF HaltPc, AwakePc
<1> QED
  BY <1>1, <1>2, ProgramShape DEF FirstRing, SecondRing, ThirdRing

LEMMA RingFits ==
  /\ TotalCount \in Nat /\ TotalCount = RequestCount + 1
  /\ \A n \in 0 .. TotalCount - 1 : n \in Table /\ Slot(n) = n
  /\ \A n \in 0 .. TotalCount : n % IdxMod = n
<1>1. /\ TotalCount \in Nat /\ TotalCount = RequestCount + 1 /\ TotalCount <= QueueSizeMax
      /\ QueueSizeMax \in Nat \ {0} /\ IdxMod \in Nat \ {0} /\ QueueSizeMax < IdxMod
  BY RngAssumption, QueueAssumption DEF TotalCount
<1>2. ASSUME NEW q \in Nat \ {0}, NEW n \in Nat, n < q PROVE n % q = n
  BY <1>2, Z3
<1> QED
  BY <1>1, <1>2 DEF Table, Slot

\* The guest goes on, or fails: neither touches the doorbells, the interrupt or the shutdown.
LEMMA GoesOn ==
  ASSUME RunInv, NEW o, o \notin {"notify", "wait", "halted", "success"}, GuestRuns(o),
         \E ok : OrFail(ok),
         UNCHANGED <<pq, used_idx, last_avail_idx>>,
         interrupt_status' = interrupt_status \/ pc <= Start
  PROVE  KickInv' /\ AnnounceInv' /\ ShutdownInv' /\ pc \in 1 .. Finish /\ Program[pc].op = o
<1>1. /\ phase = "run" /\ isr = "none" /\ pq["vmm"].pc = "idle" /\ Program[pc].op = o
      /\ pc \in 1 .. Finish
  BY DEF GuestRuns, RunInv, ConsumerInv, RngTypes
<1>2. /\ UNCHANGED <<isr, completion, held, queue_notify_exits, run_result, stop, exit_code, worker,
                     count, guest_kicks, guest_calls, backend_result, irq, kick_count>>
      /\ \/ pc' = pc + 1 /\ phase' = phase /\ step' = step
         \/ pc' = pc /\ phase' = "shutdown" /\ step' = 1
  BY DEF OrFail, Break, backend_vars
<1>3. pc \notin {FirstRing, SecondRing, ThirdRing, HaltPc}
  BY <1>1, Progress, Spots
<1>4. KickInv'
  <2>1. /\ pc' > ThirdRing <=> pc > ThirdRing
        /\ phase' = "run" => (pc' > FirstRing <=> pc > FirstRing)
        /\ pc <= SecondRing => pc' <= SecondRing
        /\ pc > SecondRing => pc' > SecondRing
    BY <1>1, <1>2, <1>3, Spots
  <2>2. phase' \in {"run", "shutdown"}
    BY <1>1, <1>2
  <2>3. Kicks(pc') = Kicks(pc)
    BY <2>1 DEF Kicks
  <2>4. KickInv
    BY DEF RunInv
  <2>5. pc \in Nat /\ pc' \in Nat /\ ThirdRing \in Nat
    BY <1>1, <1>2, Spots
  <2>6. pc' <= ThirdRing <=> pc <= ThirdRing
    BY <2>1, <2>5
  <2> QED
    BY <1>1, <1>2, <2>1, <2>2, <2>3, <2>4, <2>6 DEF KickInv
<1>5. AnnounceInv'
  <2>1. pc' >= AwakePc <=> pc >= AwakePc
    BY <1>1, <1>2, <1>3, Spots
  <2>2. AnnounceInv
    BY DEF RunInv
  <2>3. CASE interrupt_status' = interrupt_status
    BY <1>1, <1>2, <2>1, <2>2, <2>3 DEF AnnounceInv, Announced
  <2>4. CASE pc <= Start
    <3>1. worker # "count" /\ guest_calls # 1 /\ worker \notin {"interrupt", "call"}
      BY <1>1, <2>4, Spots DEF RunInv, KickInv, Busy
    <3>2. ~irq /\ completion = 0
      BY <1>1, <2>2, <3>1 DEF AnnounceInv, Announced
    <3> QED
      BY <1>1, <1>2, <2>1, <2>2, <3>1, <3>2 DEF AnnounceInv, Announced
  <2> QED
    BY <2>3, <2>4
<1>6. ShutdownInv'
  <2>1. ShutdownInv
    BY DEF RunInv
  <2> QED
    BY <1>1, <1>2, <2>1 DEF ShutdownInv
<1> QED
  BY <1>1, <1>4, <1>5, <1>6

\* The rings when only the guest moves on.
LEMMA RingsStay ==
  ASSUME RunInv, UNCHANGED <<desc, avail_ring, avail_idx, used_ring, used_idx, last_avail_idx,
                             filled, pq, staged>>,
         Prepared(pc') = Prepared(pc), Published(pc') = Published(pc)
  PROVE  RingTypes' /\ DriverRings' /\ DeviceRings'
BY DEF RunInv, RingTypes, DriverRings, DeviceRings

\* A register write leaves the rings alone, and what was negotiated stays negotiated.
LEMMA WriteLeaves ==
  ASSUME DeviceInv, NEW reg, NEW v, NEW half,
         MmioWrite(reg, v) \/ WriteQueueAddr(reg, half, v)
  PROVE  /\ UNCHANGED <<desc, avail_ring, avail_idx, used_ring, used_idx, filled, pq, staged>>
         /\ last_avail_idx' \in {last_avail_idx, 0}
         /\ "FEATURES_OK" \in status' => Negotiated'
         /\ queue_sel' = RNG_QUEUE \/ (MmioWrite(reg, v) /\ reg = "QUEUE_SEL" /\ queue_sel' = v)
<1>0. ("FEATURES_OK" \in status => Negotiated) /\ queue_sel = RNG_QUEUE
  BY DEF DeviceInv
<1>1. CASE reg = "STATUS" /\ WriteStatus(v)
  <2>1. CASE v = {} /\ ResetRegisters
    BY <2>1 DEF ResetRegisters, data_vars, RNG_QUEUE
  <2>2. CASE /\ v # {}
             /\ Guarded(status \subseteq v /\ DriverOkAllowed(v),
                        status' = IF FeaturesRefused(v) THEN v \ {"FEATURES_OK"} ELSE v, status)
             /\ UNCHANGED <<device_features_sel, driver_features_sel, driver_features,
                            interrupt_status, queue_sel, queue_addr, queue_size,
                            queue_ready, last_avail_idx, data_vars>>
    <3>1. Negotiated' <=> Negotiated
      BY <2>2 DEF Negotiated
    <3>2. \/ status' = status
          \/ status' = v \ {"FEATURES_OK"} /\ FeaturesRefused(v)
          \/ status' = v /\ ~FeaturesRefused(v) /\ status \subseteq v
      BY <2>2 DEF Guarded
    <3>3. "FEATURES_OK" \in status' => Negotiated
      BY <1>0, <3>2 DEF FeaturesRefused
    <3> QED
      BY <1>0, <2>2, <3>1, <3>3 DEF data_vars
  <2> QED
    BY <1>1, <2>1, <2>2 DEF WriteStatus
<1>2. CASE reg = "DEVICE_FEATURES_SEL" /\ WriteDeviceFeaturesSel(v)
  BY <1>0, <1>2 DEF WriteDeviceFeaturesSel, data_vars, Negotiated
<1>3. CASE reg = "DRIVER_FEATURES_SEL" /\ WriteDriverFeaturesSel(v)
  BY <1>0, <1>3 DEF WriteDriverFeaturesSel, data_vars, Negotiated
<1>4. CASE reg = "DRIVER_FEATURES" /\ WriteDriverFeatures(v)
  BY <1>0, <1>4 DEF WriteDriverFeatures, Guarded, data_vars, Negotiated
<1>5. CASE reg = "QUEUE_SEL" /\ WriteQueueSel(v)
  <2>1. MmioWrite(reg, v)
    BY <1>5 DEF MmioWrite
  <2> QED
    BY <1>0, <1>5, <2>1 DEF WriteQueueSel, data_vars, Negotiated
<1>6. CASE reg = "QUEUE_SIZE" /\ WriteQueueSize(v)
  BY <1>0, <1>6 DEF WriteQueueSize, data_vars, Negotiated
<1>7. CASE reg = "QUEUE_READY" /\ WriteQueueReady(v)
  BY <1>0, <1>7 DEF WriteQueueReady, data_vars, Negotiated
<1>8. CASE WriteQueueAddr(reg, half, v)
  BY <1>0, <1>8 DEF WriteQueueAddr, data_vars, Negotiated
<1> QED
  BY <1>1, <1>2, <1>3, <1>4, <1>5, <1>6, <1>7, <1>8 DEF MmioWrite

\* Before the first request the rings are empty.
LEMMA EmptyBefore ==
  ASSUME RunInv, pc <= Start
  PROVE  /\ avail_idx = 0 /\ used_idx = 0 /\ last_avail_idx = 0 /\ Len(staged) = 0
         /\ Prepared(pc) = 0 /\ Published(pc) = 0
<1>1. pc \in 1 .. Finish
  BY DEF RunInv, ConsumerInv, RngTypes
<1>2. Prepared(pc) = 0 /\ Published(pc) = 0
  BY <1>1, Progress
<1> QED
  BY <1>2 DEF RunInv, RingTypes, DriverRings, DeviceRings

LEMMA ConfigurationGoesOn ==
  ASSUME RunInv, GuestWrite \/ GuestWriteAddr
  PROVE  RunInv'
<1>1. \E o \in {"write", "low", "high"} : GuestRuns(o) /\ \E ok : OrFail(ok)
  <2>1. CASE GuestWrite
    BY <2>1 DEF GuestWrite
  <2>2. CASE GuestWriteAddr
    BY <2>2 DEF GuestWriteAddr
  <2> QED
    BY <2>1, <2>2
<1>2. PICK o \in {"write", "low", "high"} : GuestRuns(o) /\ \E ok : OrFail(ok)
  BY <1>1
<1>3. pc \in 1 .. Finish /\ Program[pc].op = o
  BY <1>2 DEF RunInv, ConsumerInv, RngTypes, GuestRuns
<1>4. pc <= Start
  BY <1>3, Places
<1>5. /\ UNCHANGED <<desc, avail_ring, avail_idx, used_ring, used_idx, filled, pq, staged>>
      /\ last_avail_idx' \in {last_avail_idx, 0}
      /\ "FEATURES_OK" \in status' => Negotiated'
      /\ queue_sel' = RNG_QUEUE
  <2>0. DeviceInv
    BY DEF RunInv
  <2>1. CASE GuestWriteAddr
    <3>1. PICK half \in {"low", "high"} : WriteQueueAddr(Program[pc].reg, half, Program[pc].v)
                                          /\ UNCHANGED queue_sel
      BY <2>1 DEF GuestWriteAddr, WriteQueueAddr
    <3>2. queue_sel' = RNG_QUEUE
      BY <2>0, <3>1 DEF DeviceInv
    <3> QED
      BY <2>0, <3>1, <3>2, WriteLeaves
  <2>2. CASE GuestWrite
    <3>1. MmioWrite(Program[pc].reg, Program[pc].v)
      BY <2>2 DEF GuestWrite
    <3>2. Program[pc].reg = "QUEUE_SEL" => Program[pc].v = RNG_QUEUE
      BY <1>3, <1>4, GuestSelects
    <3> QED
      BY <2>0, <3>1, <3>2, WriteLeaves
  <2> QED
    BY <2>1, <2>2
<1>6. last_avail_idx' = last_avail_idx
  BY <1>4, <1>5, EmptyBefore
<1>7. KickInv' /\ AnnounceInv' /\ ShutdownInv'
  BY <1>2, <1>4, <1>5, <1>6, GoesOn
<1>8. Prepared(pc') = Prepared(pc) /\ Published(pc') = Published(pc)
  <2>1. pc' \in {pc, pc + 1}
    BY <1>2 DEF OrFail
  <2> QED
    BY <1>2, <1>3, <2>1, Progress
<1>9. RingTypes' /\ DriverRings' /\ DeviceRings'
  BY <1>5, <1>6, <1>8, RingsStay
<1>10. ConsumerInv'
  BY ConfigurationKeeps DEF RunInv
<1> QED
  BY <1>5, <1>7, <1>9, <1>10 DEF RunInv, DeviceInv

\* The queue pages are cleared before there is anything in them.
LEMMA ClearGoesOn ==
  ASSUME RunInv, GuestClear
  PROVE  RunInv'
<1>1. /\ GuestRuns("clear") /\ (\E ok : OrFail(ok)) /\ OrFail(TRUE)
      /\ UNCHANGED <<status, driver_features, interrupt_status, queue_sel, last_avail_idx, pq,
                     filled, staged>>
      /\ desc' = [h \in Table |-> FALSE] /\ avail_ring' = [s \in Table |-> 0]
      /\ used_ring' = [s \in Table |-> 0] /\ avail_idx' = 0 /\ used_idx' = 0
  BY DEF GuestClear, dev_vars
<1>2. pc \in 1 .. Finish /\ Program[pc].op = "clear"
  BY <1>1 DEF RunInv, ConsumerInv, RngTypes, GuestRuns
<1>3. pc <= Start
  BY <1>2, Places
<1>4. /\ avail_idx = 0 /\ used_idx = 0 /\ last_avail_idx = 0 /\ Len(staged) = 0
      /\ Prepared(pc) = 0 /\ Published(pc) = 0
  BY <1>3, EmptyBefore
<1>5. KickInv' /\ AnnounceInv' /\ ShutdownInv'
  BY <1>1, <1>4, GoesOn
<1>6. Prepared(pc') = 0 /\ Published(pc') = 0
  <2>1. pc' = pc + 1
    BY <1>1 DEF OrFail
  <2> QED
    BY <1>2, <1>4, <2>1, Progress
<1>7. RingTypes'
  BY <1>1 DEF RunInv, RingTypes
<1>8. DriverRings' /\ DeviceRings'
  BY <1>1, <1>4, <1>6 DEF RunInv, DriverRings, DeviceRings
<1>9. ConsumerInv'
  BY ConfigurationKeeps DEF RunInv
<1>10. DeviceInv'
  BY <1>1 DEF RunInv, DeviceInv, Negotiated
<1> QED
  BY <1>5, <1>7, <1>8, <1>9, <1>10 DEF RunInv

\* The used index is never ahead of the available one.
LEMMA UsedBehind ==
  ASSUME RunInv
  PROVE  /\ pc \in 1 .. Finish
         /\ avail_idx = Published(pc) /\ avail_idx \in 0 .. Prepared(pc)
         /\ Prepared(pc) \in 0 .. TotalCount /\ TotalCount \in Nat
         /\ last_avail_idx \in 0 .. avail_idx /\ used_idx \in 0 .. avail_idx
<1>1. pc \in 1 .. Finish
  BY DEF RunInv, ConsumerInv, RngTypes
<1>2. /\ Prepared(pc) \in 0 .. TotalCount /\ Published(pc) \in 0 .. Prepared(pc)
      /\ TotalCount \in Nat
  BY <1>1, Progress, RingFits
<1>3. avail_idx = Published(pc) /\ last_avail_idx \in 0 .. avail_idx
  BY <1>2 DEF RunInv, RingTypes, DriverRings, DeviceRings
<1>4. used_idx \in 0 .. avail_idx
  <2>1. CASE \E p \in Callers : pq[p].pc = "advance"
    <3>1. last_avail_idx < avail_idx /\ used_idx = last_avail_idx + 1
      BY <2>1 DEF RunInv, DeviceRings
    <3> QED
      BY <1>2, <1>3, <3>1
  <2>2. CASE ~\E p \in Callers : pq[p].pc = "advance"
    <3>1. used_idx = last_avail_idx + 0
      BY <2>2 DEF RunInv, DeviceRings
    <3> QED
      BY <1>2, <1>3, <3>1
  <2> QED
    BY <2>1, <2>2
<1> QED
  BY <1>1, <1>2, <1>3, <1>4

LEMMA PrepareGoesOn ==
  ASSUME RunInv, GuestPrepare
  PROVE  RunInv'
<1> DEFINE h == Program[pc].v
<1>1. /\ GuestRuns("prepare") /\ OrFail(TRUE) /\ (\E ok : OrFail(ok))
      /\ UNCHANGED <<status, driver_features, interrupt_status, queue_sel, last_avail_idx, pq,
                     used_ring, used_idx, avail_idx>>
      /\ desc' = [desc EXCEPT ![h] = TRUE]
      /\ avail_ring' = [avail_ring EXCEPT ![Slot(avail_idx + Len(staged))] = h]
      /\ filled' = filled \ {h} /\ staged' = Append(staged, h)
  BY DEF GuestPrepare, Prepare, dev_vars
<1>2. KickInv' /\ AnnounceInv' /\ ShutdownInv' /\ pc \in 1 .. Finish /\ Program[pc].op = "prepare"
  BY <1>1, GoesOn
<1>3. /\ h = Prepared(pc) /\ h \in 0 .. TotalCount - 1 /\ pc' = pc + 1
      /\ Prepared(pc') = Prepared(pc) + 1 /\ Published(pc') = Published(pc)
  <2>1. pc' = pc + 1
    BY <1>1 DEF OrFail
  <2> QED
    BY <1>2, <2>1, Progress, RingFits
<1>4. /\ avail_idx \in 0 .. h /\ last_avail_idx \in 0 .. avail_idx /\ used_idx \in 0 .. avail_idx
      /\ avail_idx = Published(pc)
  BY <1>3, UsedBehind
<1>5. Len(staged) \in Nat /\ avail_idx + Len(staged) = h
  BY <1>3, <1>4 DEF RunInv, RingTypes, DriverRings
<1>6. h \in Table /\ Slot(avail_idx + Len(staged)) = h /\ h \in Nat
  BY <1>3, <1>5, RingFits
<1> HIDE DEF h
<1>7. staged' \in Seq(Nat) /\ Len(staged') = Len(staged) + 1
  BY <1>1, <1>5, <1>6 DEF RunInv, RingTypes
<1>8. RingTypes'
  BY <1>1, <1>5, <1>6, <1>7 DEF RunInv, RingTypes
<1>9. DriverRings'
  <2>1. ASSUME NEW n \in 0 .. Prepared(pc') - 1 PROVE desc'[n] /\ avail_ring'[n] = n
    <3>0. n \in Nat /\ n <= h /\ n \in Table
      BY <1>3, <2>1, RingFits
    <3>1. CASE n = h
      BY <1>1, <1>6, <3>1 DEF RunInv, RingTypes
    <3>2. CASE n # h
      <4>1. n \in 0 .. Prepared(pc) - 1
        BY <1>3, <3>0, <3>2
      <4>2. desc[n] /\ avail_ring[n] = n
        BY <4>1 DEF RunInv, DriverRings
      <4> QED
        BY <1>1, <1>6, <3>0, <3>2, <4>2 DEF RunInv, RingTypes
    <3> QED
      BY <3>1, <3>2
  <2>2. Len(staged) = Prepared(pc) - Published(pc)
    BY DEF RunInv, DriverRings
  <2> QED
    BY <1>1, <1>3, <1>4, <1>7, <2>1, <2>2, UsedBehind DEF DriverRings
<1>10. DeviceRings'
  <2>1. \A n \in 0 .. used_idx - 1 : n \in filled'
    BY <1>1, <1>3, <1>4 DEF RunInv, DeviceRings
  <2>2. \A p \in Callers : pq[p].pc \in {"used", "publish"} => pq[p].head \in filled'
    BY <1>1, <1>3, <1>4 DEF RunInv, DeviceRings
  <2>3. DeviceRings
    BY DEF RunInv
  <2> QED
    BY <1>1, <2>1, <2>2, <2>3 DEF DeviceRings
<1>11. ConsumerInv'
  BY GuestKeeps DEF RunInv
<1>12. DeviceInv'
  BY <1>1 DEF RunInv, DeviceInv, Negotiated
<1> QED
  BY <1>2, <1>8, <1>9, <1>10, <1>11, <1>12 DEF RunInv

\* The new available index covers exactly the requests the rings name.
LEMMA PublishGoesOn ==
  ASSUME RunInv, GuestPublish
  PROVE  RunInv'
<1>1. /\ GuestRuns("publish") /\ (\E ok : OrFail(ok))
      /\ UNCHANGED <<status, driver_features, interrupt_status, queue_sel, last_avail_idx, pq,
                     used_ring, used_idx, desc, avail_ring, filled>>
  BY DEF GuestPublish, Publish, dev_vars, queue_vars
<1>2. KickInv' /\ AnnounceInv' /\ ShutdownInv' /\ pc \in 1 .. Finish /\ Program[pc].op = "publish"
  BY <1>1, GoesOn
<1>3. /\ Program[pc].v = Prepared(pc)
      /\ Prepared(pc + 1) = Prepared(pc) /\ Published(pc + 1) = Prepared(pc)
  BY <1>2, Progress
<1>4. /\ avail_idx = Published(pc) /\ avail_idx \in 0 .. Prepared(pc)
      /\ Prepared(pc) \in 0 .. TotalCount /\ TotalCount \in Nat
      /\ last_avail_idx \in 0 .. avail_idx
  BY UsedBehind
<1>5. Len(staged) \in Nat /\ avail_idx + Len(staged) = Prepared(pc)
  BY <1>4 DEF RunInv, RingTypes, DriverRings
<1>6. Publish /\ OrFail(TRUE)
  BY <1>3, <1>5 DEF GuestPublish
<1>7. avail_idx' = Prepared(pc) /\ staged' = <<>> /\ pc' = pc + 1
  BY <1>4, <1>5, <1>6, RingFits DEF Publish, OrFail
<1>8. RingTypes'
  BY <1>1, <1>7 DEF RunInv, RingTypes
<1>9. DriverRings'
  <2>1. \A n \in 0 .. Prepared(pc) - 1 : desc[n] /\ avail_ring[n] = n
    BY DEF RunInv, DriverRings
  <2>2. Len(staged') = 0
    BY <1>7
  <2> QED
    BY <1>1, <1>3, <1>4, <1>7, <2>1, <2>2 DEF DriverRings
<1>10. DeviceRings'
  <2>1. pq["vmm"].pc = "idle"
    BY <1>1 DEF GuestRuns
  <2>2. pq["worker"].pc = "idle"
    <3>1. pc <= ThirdRing
      BY <1>2, Progress, Spots
    <3> QED
      BY <1>2, <3>1, Spots DEF RunInv, KickInv, Busy
  <2>3. \A p \in Callers : pq'[p].pc = "idle" /\ pq[p].pc = "idle"
    BY <1>1, <2>1, <2>2 DEF Callers
  <2>4. DeviceRings
    BY DEF RunInv
  <2> QED
    BY <1>1, <1>4, <1>7, <2>3, <2>4 DEF DeviceRings
<1>11. ConsumerInv'
  BY GuestKeeps DEF RunInv
<1>12. DeviceInv'
  BY <1>1 DEF RunInv, DeviceInv, Negotiated
<1> QED
  BY <1>2, <1>8, <1>9, <1>10, <1>11, <1>12 DEF RunInv

\* The guest looks at the device, at the used ring, or arms its interrupt.
LEMMA LookGoesOn ==
  ASSUME RunInv, GuestRead \/ GuestPoll \/ GuestReap
  PROVE  RunInv'
<1>1. /\ \E o \in {"read", "poll", "reap"} : GuestRuns(o)
      /\ \E ok : OrFail(ok)
      /\ UNCHANGED <<status, driver_features, interrupt_status, queue_sel>>
      /\ UNCHANGED <<desc, avail_ring, avail_idx, used_ring, used_idx, last_avail_idx,
                     filled, pq, staged>>
  <2>1. CASE GuestRead
    BY <2>1 DEF GuestRead, reg_vars, dev_vars, queue_vars
  <2>2. CASE GuestPoll
    BY <2>2 DEF GuestPoll, reg_vars, dev_vars, queue_vars
  <2>3. CASE GuestReap
    BY <2>3 DEF GuestReap, Reap, dev_vars, queue_vars
  <2> QED
    BY <2>1, <2>2, <2>3
<1>2. PICK o \in {"read", "poll", "reap"} : GuestRuns(o)
  BY <1>1
<1>3. KickInv' /\ AnnounceInv' /\ ShutdownInv' /\ pc \in 1 .. Finish /\ Program[pc].op = o
  BY <1>1, <1>2, GoesOn
<1>4. pc' \in {pc, pc + 1}
  BY <1>1 DEF OrFail
<1>5. Prepared(pc') = Prepared(pc) /\ Published(pc') = Published(pc)
  BY <1>3, <1>4, Progress
<1>6. RingTypes' /\ DriverRings' /\ DeviceRings'
  BY <1>1, <1>5, RingsStay
<1>7. ConsumerInv'
  BY GuestKeeps DEF RunInv
<1>8. DeviceInv'
  BY <1>1 DEF RunInv, DeviceInv, Negotiated
<1> QED
  BY <1>3, <1>6, <1>7, <1>8 DEF RunInv

LEMMA ArmPc ==
  ASSUME NEW n \in 1 .. Finish, Program[n].op = "arm_irq"
  PROVE  n = Start + 2 * RequestCount + 7
<1>0. /\ Start \in Nat /\ Finish = Start + 2 * RequestCount + 15
      /\ RequestCount \in Nat /\ RequestCount >= 2
  BY Layout, RngAssumption
<1>1. ASSUME NEW o, NEW x, Program[n] = Do(o, x) PROVE o = "arm_irq"
  BY <1>1, DoIs
<1>2. n > Start /\ n < Finish - 4
  <2>1. CASE n <= Start
    BY <1>0, <2>1, ProgramShape DEF Configuring
  <2>2. CASE n \in {Finish - 4, Finish - 3, Finish - 2, Finish - 1, Finish}
    BY <2>2, ProgramShape
  <2> QED
    BY <1>0, <2>1, <2>2
<1>3. n \notin {Start + 1, Start + 2, Start + 3, Start + 4, Start + 5}
  BY <1>1, Layout
<1>4. n \notin {Start + RequestCount + 5, Start + RequestCount + 6, Start + RequestCount + 7}
  BY <1>1, Layout
<1>5. n \notin {Start + 2 * RequestCount + 8, Start + 2 * RequestCount + 9,
                Start + 2 * RequestCount + 10}
  BY <1>1, Layout
<1>6. n \notin Start + 6 .. Start + RequestCount + 4
  <2> SUFFICES ASSUME n \in Start + 6 .. Start + RequestCount + 4 PROVE FALSE
    OBVIOUS
  <2>1. n - Start - 5 \in 1 .. RequestCount - 1 /\ Start + 5 + (n - Start - 5) = n
    BY <1>0
  <2> QED
    BY <1>1, <2>1, Layout
<1>7. n \notin Start + RequestCount + 8 .. Start + 2 * RequestCount + 6
  <2> SUFFICES ASSUME n \in Start + RequestCount + 8 .. Start + 2 * RequestCount + 6 PROVE FALSE
    OBVIOUS
  <2>1. /\ n - (Start + RequestCount + 7) \in 1 .. RequestCount - 1
        /\ Start + RequestCount + 7 + (n - (Start + RequestCount + 7)) = n
    BY <1>0
  <2> QED
    BY <1>1, <2>1, Layout
<1> QED
  BY <1>0, <1>2, <1>3, <1>4, <1>5, <1>6, <1>7

LEMMA SuccessPc ==
  ASSUME NEW n \in 1 .. Finish, Program[n].op = "success"
  PROVE  n = Finish
<1>1. n \notin 1 .. Start
  BY ProgramShape DEF Configuring
<1>2. n \notin Start + 1 .. Finish - 5
  BY ProgramShape DEF Requesting, Completing
<1>3. n \notin {Finish - 4, Finish - 3, Finish - 2, Finish - 1}
  BY ProgramShape
<1> QED
  BY <1>1, <1>2, <1>3, ProgramShape

\* The guest's steps outside the run of its requests: it arms the interrupt, waits, is
\* interrupted, and ends.  The rings and the worker are not concerned.
GuestAside ==
  /\ UNCHANGED <<status, driver_features, queue_sel, desc, avail_ring, avail_idx, used_ring,
                 used_idx, last_avail_idx, filled, pq, staged>>
  /\ UNCHANGED <<held, queue_notify_exits, stop, exit_code, worker, count, guest_kicks,
                 guest_calls, backend_result, kick_count>>
  /\ phase = "run"
  /\ (phase' = "run" /\ step' = step) \/ (phase' = "shutdown" /\ step' = 1)
  /\ \/ pc' = pc
     \/ pc = Start + 2 * RequestCount + 7 /\ pc' = pc + 1
     \/ pc > ThirdRing /\ pc' > ThirdRing
  /\ run_result' = run_result \/ (completion' = 1 /\ run_result' = 0 /\ phase' = "shutdown")

LEMMA OutsideRequests ==
  ASSUME RunInv, GuestAside, ConsumerInv', AnnounceInv'
  PROVE  RunInv'
<1>1. pc \in 1 .. Finish /\ pc' \in 1 .. Finish
  BY DEF RunInv, ConsumerInv, RngTypes
<1>2. /\ Prepared(pc') = Prepared(pc) /\ Published(pc') = Published(pc)
      /\ pc' > ThirdRing <=> pc > ThirdRing
      /\ pc' <= SecondRing <=> pc <= SecondRing
      /\ pc' > SecondRing <=> pc > SecondRing
      /\ pc' > FirstRing <=> pc > FirstRing
      /\ pc' <= ThirdRing <=> pc <= ThirdRing
  <2>1. CASE pc' = pc
    BY <2>1
  <2>2. CASE pc = Start + 2 * RequestCount + 7 /\ pc' = pc + 1
    <3>1. /\ Start \in Nat /\ RequestCount \in Nat /\ RequestCount >= 2
          /\ FirstRing = Start + 3 /\ SecondRing = Start + RequestCount + 6
          /\ ThirdRing = Start + 2 * RequestCount + 10
      BY Spots DEF ThirdRing
    <3> QED
      BY <2>2, <3>1 DEF Prepared, Published
  <2>3. CASE pc > ThirdRing /\ pc' > ThirdRing
    BY <1>1, <2>3, Progress, Spots
  <2> QED
    BY <2>1, <2>2, <2>3 DEF GuestAside
<1>3. RingTypes' /\ DriverRings' /\ DeviceRings'
  BY <1>2, RingsStay DEF GuestAside
<1>4. DeviceInv'
  BY DEF RunInv, DeviceInv, Negotiated, GuestAside
<1>5. KickInv'
  <2>1. Kicks(pc') = Kicks(pc)
    BY <1>2 DEF Kicks
  <2>2. KickInv
    BY DEF RunInv
  <2>3. pq' = pq
    BY DEF GuestAside
  <2> QED
    BY <1>2, <2>1, <2>2, <2>3 DEF KickInv, GuestAside
<1>6. ShutdownInv'
  <2>1. ShutdownInv
    BY DEF RunInv
  <2>2. run_result = 1
    BY <2>1 DEF ShutdownInv, GuestAside
  <2> QED
    BY <2>1, <2>2 DEF ShutdownInv, GuestAside
<1> QED
  BY <1>3, <1>4, <1>5, <1>6 DEF RunInv

LEMMA InterruptGoesOn ==
  ASSUME RunInv, \/ GuestArmIrq \/ GuestWait \/ TakeIrq \/ GuestSuccess \/ IsrStatus \/ IsrAck
                 \/ IsrReturn
  PROVE  RunInv'
<1>1. ConsumerInv'
  BY GuestKeeps DEF RunInv
<1>2. AnnounceInv /\ pc \in 1 .. Finish
  BY DEF RunInv, ConsumerInv, RngTypes
<1>3. CASE GuestArmIrq
  <2>1. /\ GuestRuns("arm_irq") /\ completion' = 0 /\ pc' = pc + 1
        /\ UNCHANGED <<reg_vars, phase, step, held, queue_notify_exits, run_result, stop,
                       exit_code, isr, irq, kick_count, worker, count, guest_kicks,
                       guest_calls, backend_result>>
    BY <1>3 DEF GuestArmIrq, vmm_vars, backend_vars
  <2>2. UNCHANGED <<status, driver_features, queue_sel, queue_vars, interrupt_status, used_idx,
                    last_avail_idx>>
    BY <2>1 DEF reg_vars, dev_vars, queue_vars
  <2>3. phase = "run" /\ isr = "none" /\ Program[pc].op = "arm_irq"
    BY <2>1 DEF GuestRuns
  <2>4. pc = Start + 2 * RequestCount + 7
    BY <1>2, <2>3, ArmPc
  <2>5. pc' < AwakePc
    BY <2>1, <2>4, Spots DEF ThirdRing
  <2>6. AnnounceInv'
    BY <1>2, <2>1, <2>2, <2>3, <2>5, Spots DEF AnnounceInv, Announced
  <2>9. GuestAside
    BY <2>1, <2>2, <2>3, <2>4, <2>6 DEF GuestAside, queue_vars
  <2> QED
    BY <1>1, <2>6, <2>9, OutsideRequests
<1>4. CASE GuestWait
  <2>1. /\ GuestRuns("wait")
        /\ \/ completion = 0 /\ pc' = HaltPc /\ UNCHANGED <<phase, step>>
           \/ completion = 1 /\ pc' = AwakePc /\ UNCHANGED <<phase, step>>
           \/ pc' = pc /\ phase' = "shutdown" /\ step' = 1
        /\ UNCHANGED <<reg_vars, completion, held, queue_notify_exits, run_result, stop,
                       exit_code, isr, irq, kick_count, worker, count, guest_kicks,
                       guest_calls, backend_result>>
    BY <1>4 DEF GuestWait, Break, backend_vars
  <2>2. UNCHANGED <<status, driver_features, queue_sel, queue_vars, interrupt_status, used_idx,
                    last_avail_idx>>
    BY <2>1 DEF reg_vars, dev_vars, queue_vars
  <2>3. phase = "run" /\ isr = "none" /\ pc = WaitPc
    BY <1>2, <2>1, Places DEF GuestRuns
  <2>4. pc > ThirdRing /\ pc' > ThirdRing /\ (pc' >= AwakePc => completion = 1)
    BY <2>1, <2>3, Spots
  <2>5. AnnounceInv'
    BY <1>2, <2>1, <2>2, <2>3, <2>4 DEF AnnounceInv, Announced
  <2>9. GuestAside
    BY <2>1, <2>2, <2>3, <2>4, <2>5 DEF GuestAside, queue_vars
  <2> QED
    BY <1>1, <2>5, <2>9, OutsideRequests
<1>5. CASE TakeIrq
  <2>1. /\ GuestRuns("halted") /\ irq /\ irq' = FALSE /\ isr' = "status"
        /\ UNCHANGED <<reg_vars, phase, step, held, queue_notify_exits, run_result, stop,
                       exit_code, pc, completion, kick_count, worker, count, guest_kicks,
                       guest_calls, backend_result>>
    BY <1>5 DEF TakeIrq, vmm_vars, backend_vars
  <2>2. UNCHANGED <<status, driver_features, queue_sel, queue_vars, interrupt_status, used_idx,
                    last_avail_idx>>
    BY <2>1 DEF reg_vars, dev_vars, queue_vars
  <2>3. phase = "run" /\ isr = "none" /\ pc = HaltPc
    BY <1>2, <2>1, Places DEF GuestRuns
  <2>4. AnnounceInv'
    BY <1>2, <2>1, <2>2, <2>3 DEF AnnounceInv, Announced
  <2>9. GuestAside
    BY <2>1, <2>2, <2>3, <2>4 DEF GuestAside, queue_vars
  <2> QED
    BY <1>1, <2>4, <2>9, OutsideRequests
<1>6. CASE GuestSuccess
  <2>1. /\ GuestRuns("success") /\ run_result' = 0 /\ phase' = "shutdown" /\ step' = 1
        /\ UNCHANGED <<reg_vars, held, queue_notify_exits, stop, exit_code, pc, isr, completion,
                       irq, kick_count, worker, count, guest_kicks, guest_calls, backend_result>>
    BY <1>6 DEF GuestSuccess, Break, guest_vars, backend_vars
  <2>2. UNCHANGED <<status, driver_features, queue_sel, queue_vars, interrupt_status, used_idx,
                    last_avail_idx>>
    BY <2>1 DEF reg_vars, dev_vars, queue_vars
  <2>3. phase = "run" /\ isr = "none" /\ Program[pc].op = "success"
    BY <2>1 DEF GuestRuns
  <2>4. pc >= AwakePc
    BY <1>2, <2>3, SuccessPc, Spots
  <2>5. completion = 1 /\ AnnounceInv'
    BY <1>2, <2>1, <2>2, <2>4 DEF AnnounceInv, Announced
  <2>9. GuestAside
    BY <2>1, <2>2, <2>3, <2>5 DEF GuestAside, queue_vars
  <2> QED
    BY <1>1, <2>5, <2>9, OutsideRequests
<1>7. CASE IsrStatus
  <2>1. /\ phase = "run" /\ isr = "status"
        /\ \/ interrupt_status = 1 /\ isr' = "ack" /\ completion' = completion
           \/ interrupt_status = 0 /\ isr' = "eoi" /\ completion' = 2
        /\ UNCHANGED <<reg_vars, phase, step, held, queue_notify_exits, run_result, stop,
                       exit_code, pc, irq, kick_count, worker, count, guest_kicks,
                       guest_calls, backend_result>>
    BY <1>7 DEF IsrStatus, vmm_vars, backend_vars
  <2>2. UNCHANGED <<status, driver_features, queue_sel, queue_vars, interrupt_status, used_idx,
                    last_avail_idx>>
    BY <2>1 DEF reg_vars, dev_vars, queue_vars
  <2>3. interrupt_status = 1
    BY <1>2, <2>1 DEF AnnounceInv
  <2>4. AnnounceInv'
    BY <1>2, <2>1, <2>2, <2>3 DEF AnnounceInv, Announced
  <2>9. GuestAside
    BY <2>1, <2>2, <2>4 DEF GuestAside, queue_vars
  <2> QED
    BY <1>1, <2>4, <2>9, OutsideRequests
<1>8. CASE IsrAck
  <2>1. /\ phase = "run" /\ isr = "ack" /\ completion' = 1 /\ isr' = "eoi"
        /\ interrupt_status' = 0
        /\ UNCHANGED <<phase, step, held, queue_notify_exits, run_result, stop,
                       exit_code, pc, irq, kick_count, worker, count, guest_kicks,
                       guest_calls, backend_result>>
        /\ UNCHANGED <<status, driver_features, queue_sel, queue_vars, used_idx,
                       last_avail_idx>>
    BY <1>8 DEF IsrAck, WriteInterruptAck, Guarded, vmm_vars, backend_vars, data_vars, queue_vars
  <2>2. worker # "call" /\ ~irq
    BY <1>2, <2>1 DEF AnnounceInv, Announced, RunInv, KickInv
  <2>3. AnnounceInv'
    BY <1>2, <2>1, <2>2 DEF AnnounceInv, Announced
  <2>9. GuestAside
    BY <2>1, <2>3 DEF GuestAside, queue_vars
  <2> QED
    BY <1>1, <2>3, <2>9, OutsideRequests
<1>9. CASE IsrReturn
  <2>1. /\ phase = "run" /\ isr = "eoi" /\ isr' = "none" /\ pc' = WaitPc
        /\ UNCHANGED <<reg_vars, phase, step, held, queue_notify_exits, run_result, stop,
                       exit_code, completion, irq, kick_count, worker, count, guest_kicks,
                       guest_calls, backend_result>>
    BY <1>9 DEF IsrReturn, vmm_vars, backend_vars
  <2>2. UNCHANGED <<status, driver_features, queue_sel, queue_vars, interrupt_status, used_idx,
                    last_avail_idx>>
    BY <2>1 DEF reg_vars, dev_vars, queue_vars
  <2>3. pc = HaltPc /\ completion = 1
    BY <1>2, <2>1 DEF AnnounceInv
  <2>4. pc > ThirdRing /\ pc' > ThirdRing
    BY <2>1, <2>3, Spots
  <2>5. AnnounceInv'
    BY <1>2, <2>1, <2>2, <2>3 DEF AnnounceInv, Announced
  <2>9. GuestAside
    BY <2>1, <2>2, <2>4, <2>5 DEF GuestAside, queue_vars
  <2> QED
    BY <1>1, <2>5, <2>9, OutsideRequests
<1> QED
  BY <1>3, <1>4, <1>5, <1>6, <1>7, <1>8, <1>9

\* KVM_RUN fails, at any moment the guest runs.
LEMMA KvmRunFailureGoesOn ==
  ASSUME RunInv, KvmRunFails, ConsumerInv'
  PROVE  RunInv'
<1>1. /\ phase = "run" /\ phase' = "shutdown" /\ step' = 1
      /\ UNCHANGED <<reg_vars, held, queue_notify_exits, run_result, stop, exit_code, pc, isr,
                     completion, irq, kick_count, worker, count, guest_kicks, guest_calls,
                     backend_result>>
  BY DEF KvmRunFails, Break, guest_vars, backend_vars
<1>2. UNCHANGED <<status, driver_features, queue_sel, queue_vars, interrupt_status, used_idx,
                  last_avail_idx>>
  BY <1>1 DEF reg_vars, dev_vars, queue_vars
<1>3. AnnounceInv'
  BY <1>1, <1>2 DEF RunInv, AnnounceInv, Announced
<1>4. GuestAside
  BY <1>1, <1>2 DEF GuestAside, queue_vars
<1> QED
  BY <1>3, <1>4, OutsideRequests

\* One step of process_queue(), the other thread's call being idle.
LEMMA QueueServes ==
  ASSUME RunInv, NEW p \in Callers, PqStep(p), pc' = pc,
         \A q \in Callers : q # p => pq[q].pc = "idle"
  PROVE  /\ RingTypes' /\ DriverRings' /\ DeviceRings'
         /\ pq'[p].pc # "idle" /\ \A q \in Callers : q # p => pq'[q] = pq[q]
<1> USE DEF Callers
<1> DEFINE Pcs == {"idle", "enter", "fetch", "fill", "used", "publish", "advance", "done", "failed"}
<1>0. /\ RingTypes /\ DriverRings /\ DeviceRings
      /\ avail_idx \in 0 .. Prepared(pc) /\ Prepared(pc) \in 0 .. TotalCount /\ TotalCount \in Nat
      /\ last_avail_idx \in 0 .. avail_idx /\ used_idx \in 0 .. avail_idx
      /\ avail_idx \in Nat /\ last_avail_idx \in Nat
  BY UsedBehind DEF RunInv
<1>1. UNCHANGED <<desc, avail_ring, avail_idx, staged>>
  BY DEF PqStep, PqEnter, PqFetch, PqFill, PqUsed, PqPublish, PqAdvance
<1>2. DriverRings'
  BY <1>0, <1>1 DEF DriverRings
<1>3. pq \in [Callers -> [pc : Pcs, snap : Nat, head : Nat]]
  BY <1>0 DEF RingTypes
<1>4. used_idx = last_avail_idx + (IF pq[p].pc = "advance" THEN 1 ELSE 0)
  BY <1>0 DEF DeviceRings
<1>5. pq[p].pc = "advance" \/ used_idx = last_avail_idx
  BY <1>0, <1>4
\* What is left to show once the next local state of this call is known.
<1> DEFINE Fits(l) ==
             /\ l \in [pc : Pcs, snap : Nat, head : Nat] /\ l.pc # "idle"
             /\ pq' = [pq EXCEPT ![p] = l]
             /\ used_idx' \in Nat /\ last_avail_idx' \in Nat /\ used_ring' \in [Table -> Nat]
             /\ last_avail_idx' <= avail_idx
             /\ used_idx' = last_avail_idx' + (IF l.pc = "advance" THEN 1 ELSE 0)
             /\ \A n \in 0 .. used_idx' - 1 : used_ring'[n] = n /\ n \in filled'
             /\ l.pc \in {"fetch", "fill", "used", "publish", "advance", "done"} =>
                  l.snap = avail_idx
             /\ l.pc \in {"fill", "used", "publish"} => l.head = last_avail_idx'
             /\ l.pc \in {"fill", "used", "publish", "advance"} => last_avail_idx' < avail_idx
             /\ l.pc \in {"used", "publish"} => l.head \in filled'
             /\ l.pc = "publish" => used_ring'[used_idx'] = l.head
<1>6. ASSUME NEW l, Fits(l)
      PROVE  /\ RingTypes' /\ DeviceRings'
             /\ pq'[p].pc # "idle" /\ \A q \in Callers : q # p => pq'[q] = pq[q]
  <2>1. pq'[p] = l /\ \A q \in Callers : q # p => pq'[q] = pq[q]
    BY <1>3, <1>6
  <2>2. pq' \in [Callers -> [pc : Pcs, snap : Nat, head : Nat]]
    BY <1>3, <1>6
  <2>3. RingTypes'
    BY <1>0, <1>1, <1>6, <2>2 DEF RingTypes
  <2>4. \A q \in Callers : q # p => pq'[q].pc = "idle"
    BY <2>1
  <2>5. (\E q \in Callers : pq'[q].pc = "advance") <=> l.pc = "advance"
    BY <2>1, <2>4
  <2>6. \A q \in Callers : q # p \/ pq'[q] = l
    BY <2>1
  <2> HIDE DEF Callers
  <2>7. DeviceRings'
    BY <1>1, <1>6, <2>4, <2>5, <2>6 DEF DeviceRings
  <2> QED
    BY <1>6, <2>1, <2>3, <2>7
<1>7. CASE PqEnter(p)
  <2> DEFINE x == pq'[p].pc
             l == [pc |-> x, snap |-> avail_idx, head |-> pq[p].head]
  <2>1. /\ pq[p].pc = "enter" /\ pq' = [pq EXCEPT ![p] = l]
        /\ x \in {"failed", "done", "fetch"}
        /\ UNCHANGED <<used_idx, last_avail_idx, used_ring, filled>>
    BY <1>3, <1>7 DEF PqEnter
  <2> HIDE DEF x
  <2>2. l \in [pc : Pcs, snap : Nat, head : Nat] /\ l.snap = avail_idx /\ l.pc = x
    BY <1>0, <1>3, <2>1 DEF x
  <2> HIDE DEF l
  <2>3. used_idx = last_avail_idx
    BY <1>5, <2>1
  <2>9. Fits(l)
    BY <1>0, <2>1, <2>2, <2>3 DEF RingTypes, DeviceRings
  <2> HIDE DEF Fits
  <2> QED
    BY <1>2, <1>6, <2>9
<1>8. CASE PqFetch(p)
  <2>1. /\ pq[p].pc = "fetch" /\ pq[p].snap = avail_idx
        /\ UNCHANGED <<used_idx, last_avail_idx, used_ring, filled>>
        /\ used_idx = last_avail_idx
    BY <1>0, <1>5, <1>8 DEF PqFetch, DeviceRings
  <2>2. CASE last_avail_idx # pq[p].snap
             /\ pq' = [pq EXCEPT ![p].pc = "fill", ![p].head = avail_ring[Slot(last_avail_idx)]]
    <3>1. last_avail_idx < avail_idx /\ last_avail_idx \in 0 .. Prepared(pc) - 1
          /\ last_avail_idx \in 0 .. TotalCount - 1
      BY <1>0, <2>1, <2>2
    <3>2. avail_ring[Slot(last_avail_idx)] = last_avail_idx
      BY <1>0, <3>1, RingFits DEF DriverRings
    <3> DEFINE l == [pq[p] EXCEPT !.pc = "fill", !.head = last_avail_idx]
    <3>3. pq' = [pq EXCEPT ![p] = l]
      BY <1>3, <2>2, <3>2
    <3>4. /\ l \in [pc : Pcs, snap : Nat, head : Nat] /\ l.snap = avail_idx /\ l.pc = "fill"
          /\ l.head = last_avail_idx
      BY <1>0, <1>3, <2>1
    <3> HIDE DEF l
    <3>9. Fits(l)
      BY <1>0, <2>1, <3>1, <3>3, <3>4 DEF RingTypes, DeviceRings
    <3> HIDE DEF Fits
    <3> QED
      BY <1>2, <1>6, <3>9
  <2>3. CASE \E x \in {"done", "failed"} : Goto(p, x)
    <3>1. PICK x \in {"done", "failed"} : pq' = [pq EXCEPT ![p].pc = x]
      BY <2>3 DEF Goto
    <3> DEFINE l == [pq[p] EXCEPT !.pc = x]
    <3>2. pq' = [pq EXCEPT ![p] = l]
      BY <1>3, <3>1
    <3>3. l \in [pc : Pcs, snap : Nat, head : Nat] /\ l.snap = avail_idx /\ l.pc = x
      BY <1>3, <2>1
    <3> HIDE DEF l
    <3>9. Fits(l)
      BY <1>0, <2>1, <3>2, <3>3 DEF RingTypes, DeviceRings
    <3> HIDE DEF Fits
    <3> QED
      BY <1>2, <1>6, <3>9
  <2> QED
    BY <1>8, <2>2, <2>3 DEF PqFetch
<1>9. CASE PqFill(p)
  <2>1. /\ pq[p].pc = "fill" /\ pq[p].snap = avail_idx /\ pq[p].head = last_avail_idx
        /\ last_avail_idx < avail_idx
        /\ UNCHANGED <<used_idx, last_avail_idx, used_ring>>
        /\ used_idx = last_avail_idx
    BY <1>0, <1>5, <1>9 DEF PqFill, DeviceRings
  <2>2. \E x \in {"used", "failed"} :
          /\ pq' = [pq EXCEPT ![p].pc = x]
          /\ filled \subseteq filled' /\ (x = "used" => pq[p].head \in filled')
    BY <1>9 DEF PqFill, Goto
  <2>3. PICK x \in {"used", "failed"} :
          /\ pq' = [pq EXCEPT ![p].pc = x]
          /\ filled \subseteq filled' /\ (x = "used" => pq[p].head \in filled')
    BY <2>2
  <2> DEFINE l == [pq[p] EXCEPT !.pc = x]
  <2>4. pq' = [pq EXCEPT ![p] = l]
    BY <1>3, <2>3
  <2>5. /\ l \in [pc : Pcs, snap : Nat, head : Nat] /\ l.snap = avail_idx /\ l.pc = x
        /\ l.head = last_avail_idx
    BY <1>3, <2>1
  <2> HIDE DEF l
  <2>9. Fits(l)
    BY <1>0, <2>1, <2>3, <2>4, <2>5 DEF RingTypes, DeviceRings
  <2> HIDE DEF Fits
  <2> QED
    BY <1>2, <1>6, <2>9
<1>10. CASE PqUsed(p)
  <2>1. /\ pq[p].pc = "used" /\ pq[p].snap = avail_idx /\ pq[p].head = last_avail_idx
        /\ last_avail_idx < avail_idx /\ pq[p].head \in filled
        /\ UNCHANGED <<used_idx, last_avail_idx, filled>>
        /\ used_idx = last_avail_idx
        /\ used_ring' = [used_ring EXCEPT ![Slot(used_idx)] = pq[p].head]
        /\ pq' = [pq EXCEPT ![p].pc = "publish"]
    BY <1>0, <1>5, <1>10 DEF PqUsed, DeviceRings, Goto
  <2>2. Slot(used_idx) = used_idx /\ used_idx \in Table /\ used_idx \in Nat
    BY <1>0, <2>1, RingFits
  <2>3. /\ used_ring' \in [Table -> Nat] /\ used_ring'[used_idx] = last_avail_idx
        /\ \A n \in 0 .. used_idx - 1 : used_ring'[n] = n /\ n \in filled
    <3>1. used_ring \in [Table -> Nat]
      BY <1>0 DEF RingTypes
    <3>2. \A n \in 0 .. used_idx - 1 : used_ring[n] = n /\ n \in filled /\ n # used_idx
      BY <1>0, <2>2 DEF DeviceRings
    <3>3. \A n \in 0 .. used_idx - 1 : n \in Table
      BY <1>0, RingFits
    <3> QED
      BY <2>1, <2>2, <3>1, <3>2, <3>3
  <2> DEFINE l == [pq[p] EXCEPT !.pc = "publish"]
  <2>4. pq' = [pq EXCEPT ![p] = l]
    BY <1>3, <2>1
  <2>5. /\ l \in [pc : Pcs, snap : Nat, head : Nat] /\ l.snap = avail_idx /\ l.pc = "publish"
        /\ l.head = last_avail_idx
    BY <1>3, <2>1
  <2> HIDE DEF l
  <2>6. /\ used_idx' = last_avail_idx' + 0 /\ used_idx' \in Nat /\ last_avail_idx' \in Nat
        /\ last_avail_idx' < avail_idx /\ last_avail_idx' <= avail_idx
        /\ l.head = last_avail_idx' /\ l.head \in filled' /\ used_ring'[used_idx'] = l.head
        /\ \A n \in 0 .. used_idx' - 1 : used_ring'[n] = n /\ n \in filled'
    BY <1>0, <2>1, <2>3, <2>5
  <2>9. Fits(l)
    BY <2>3, <2>4, <2>5, <2>6
  <2> HIDE DEF Fits
  <2> QED
    BY <1>2, <1>6, <2>9
<1>11. CASE PqPublish(p)
  <2>1. /\ pq[p].pc = "publish" /\ pq[p].snap = avail_idx /\ pq[p].head = last_avail_idx
        /\ last_avail_idx < avail_idx /\ pq[p].head \in filled /\ used_ring[used_idx] = pq[p].head
        /\ UNCHANGED <<used_ring, last_avail_idx, filled>>
        /\ used_idx = last_avail_idx
        /\ used_idx' = (used_idx + 1) % IdxMod
        /\ pq' = [pq EXCEPT ![p].pc = "advance"]
    BY <1>0, <1>5, <1>11 DEF PqPublish, DeviceRings, Goto
  <2>2. used_idx' = used_idx + 1
    BY <1>0, <2>1, RingFits
  <2>3. \A n \in 0 .. used_idx' - 1 : used_ring[n] = n /\ n \in filled
    BY <1>0, <2>1, <2>2 DEF DeviceRings
  <2> DEFINE l == [pq[p] EXCEPT !.pc = "advance"]
  <2>4. pq' = [pq EXCEPT ![p] = l]
    BY <1>3, <2>1
  <2>5. l \in [pc : Pcs, snap : Nat, head : Nat] /\ l.snap = avail_idx /\ l.pc = "advance"
    BY <1>3, <2>1
  <2> HIDE DEF l
  <2>6. /\ used_idx' = last_avail_idx' + 1 /\ used_idx' \in Nat /\ last_avail_idx' \in Nat
        /\ last_avail_idx' < avail_idx /\ last_avail_idx' <= avail_idx
        /\ \A n \in 0 .. used_idx' - 1 : used_ring'[n] = n /\ n \in filled'
        /\ used_ring' \in [Table -> Nat]
    BY <1>0, <2>1, <2>2, <2>3 DEF RingTypes
  <2>9. Fits(l)
    BY <2>4, <2>5, <2>6
  <2> HIDE DEF Fits
  <2> QED
    BY <1>2, <1>6, <2>9
<1>12. CASE PqAdvance(p)
  <2>1. /\ pq[p].pc = "advance" /\ pq[p].snap = avail_idx /\ last_avail_idx < avail_idx
        /\ UNCHANGED <<used_ring, used_idx, filled>>
        /\ used_idx = last_avail_idx + 1
        /\ last_avail_idx' = (last_avail_idx + 1) % IdxMod
        /\ pq' = [pq EXCEPT ![p].pc = "fetch"]
    BY <1>0, <1>4, <1>12 DEF PqAdvance, DeviceRings, Goto
  <2>2. last_avail_idx' = last_avail_idx + 1
    BY <1>0, <2>1, RingFits
  <2> DEFINE l == [pq[p] EXCEPT !.pc = "fetch"]
  <2>3. pq' = [pq EXCEPT ![p] = l]
    BY <1>3, <2>1
  <2>4. l \in [pc : Pcs, snap : Nat, head : Nat] /\ l.snap = avail_idx /\ l.pc = "fetch"
    BY <1>3, <2>1
  <2> HIDE DEF l
  <2>6. /\ used_idx' = last_avail_idx' + 0 /\ used_idx' \in Nat /\ last_avail_idx' \in Nat
        /\ last_avail_idx' <= avail_idx
        /\ \A n \in 0 .. used_idx' - 1 : used_ring'[n] = n /\ n \in filled'
        /\ used_ring' \in [Table -> Nat]
    BY <1>0, <2>1, <2>2 DEF RingTypes, DeviceRings
  <2>9. Fits(l)
    BY <2>3, <2>4, <2>6
  <2> HIDE DEF Fits
  <2> QED
    BY <1>2, <1>6, <2>9
<1> QED
  BY <1>2, <1>7, <1>8, <1>9, <1>10, <1>11, <1>12 DEF PqStep

\* process_queue() is called, or returns.
LEMMA QueueCalled ==
  ASSUME RunInv, NEW p \in Callers, PqCall(p) \/ PqReturn(p), NEW n,
         Prepared(n) = Prepared(pc), Published(n) = Published(pc), pc' = n,
         \A q \in Callers : q # p => pq[q].pc = "idle"
  PROVE  /\ RingTypes' /\ DriverRings' /\ DeviceRings'
         /\ pq'[p].pc = (IF PqCall(p) THEN "enter" ELSE "idle")
         /\ \A q \in Callers : q # p => pq'[q] = pq[q]
<1> USE DEF Callers
<1>1. UNCHANGED <<desc, avail_ring, avail_idx, used_ring, used_idx, last_avail_idx, filled, staged>>
  BY DEF PqCall, PqReturn
<1>2. PICK x \in {"enter", "idle"} : /\ pq' = [pq EXCEPT ![p].pc = x]
                                     /\ x = "enter" <=> PqCall(p)
  BY DEF PqCall, PqReturn, Goto
<1>3. pq[p].pc # "advance"
  BY DEF PqCall, PqReturn
<1>4. RingTypes /\ DriverRings /\ DeviceRings
  BY DEF RunInv
<1>5. pq'[p].pc = x /\ \A q \in Callers : q # p => pq'[q] = pq[q]
  BY <1>2, <1>4 DEF RingTypes
<1>6. RingTypes'
  BY <1>1, <1>2, <1>4 DEF RingTypes
<1>7. DriverRings'
  BY <1>1, <1>4 DEF DriverRings
<1>8. \A q \in Callers : pq'[q].pc \in {"idle", "enter"} /\ pq[q].pc # "advance"
  BY <1>3, <1>5
<1> HIDE DEF Callers
<1>9. DeviceRings'
  BY <1>1, <1>4, <1>8 DEF DeviceRings
<1> QED
  BY <1>2, <1>5, <1>6, <1>7, <1>9

\* A doorbell: an exit to the VMM, or one kick for the worker.
LEMMA NotifyGoesOn ==
  ASSUME RunInv, GuestNotify
  PROVE  RunInv'
<1>0. ConsumerInv'
  BY NotifyKeeps DEF RunInv
<1>1. /\ phase = "run" /\ isr = "none" /\ pq["vmm"].pc = "idle" /\ Program[pc].op = "notify"
      /\ pc \in 1 .. Finish
      /\ UNCHANGED <<status, driver_features, interrupt_status, queue_sel>>
      /\ UNCHANGED <<isr, completion, held, run_result, stop, exit_code, worker, count,
                     guest_kicks, guest_calls, backend_result, irq>>
  BY DEF RunInv, ConsumerInv, RngTypes, GuestNotify, GuestRuns, WriteQueueNotify, reg_vars,
         dev_vars, backend_vars
<1>2. /\ pc \in {FirstRing, SecondRing, ThirdRing}
      /\ Prepared(pc + 1) = Prepared(pc) /\ Published(pc + 1) = Published(pc)
  BY <1>1, Progress
<1>3. DeviceInv'
  BY <1>1 DEF RunInv, DeviceInv, Negotiated
<1>4. ConsumerInv /\ KickInv /\ AnnounceInv /\ ShutdownInv
  BY DEF RunInv
<1>5. CASE "ioeventfd" \in held
  <2>1. /\ kick_count' = kick_count + 1 /\ pc' = pc + 1
        /\ UNCHANGED <<queue_notify_exits, phase, step>>
        /\ UNCHANGED <<desc, avail_ring, avail_idx, used_ring, used_idx, last_avail_idx,
                       filled, pq, staged>>
    BY <1>5 DEF GuestNotify, reg_vars, queue_vars
  <2>2. RingTypes' /\ DriverRings' /\ DeviceRings'
    BY <1>2, <2>1, RingsStay
  <2>3. worker # "none"
    BY <1>1, <1>4, <1>5 DEF KickInv
  <2>4. pc = ThirdRing
    <3>1. pc > SecondRing
      BY <1>4, <2>3 DEF KickInv
    <3> QED
      BY <1>2, <3>1, Spots
  <2>5. pc' > ThirdRing /\ ~(pc > ThirdRing) /\ pc' < AwakePc /\ pc' > SecondRing
    BY <2>1, <2>4, Spots
  <2>6. Kicks(pc') = 1 /\ Kicks(pc) = 0
    BY <2>5 DEF Kicks
  <2>7. KickInv'
    BY <1>1, <1>4, <2>1, <2>3, <2>5, <2>6 DEF KickInv
  <2>8. AnnounceInv'
    BY <1>1, <1>4, <2>1, <2>5, Spots DEF AnnounceInv, Announced
  <2>9. ShutdownInv'
    BY <1>1, <1>4, <2>1 DEF ShutdownInv
  <2> QED
    BY <1>0, <1>3, <2>2, <2>7, <2>8, <2>9 DEF RunInv
<1>6. CASE "ioeventfd" \notin held
  <2>1. /\ queue_notify_exits' = queue_notify_exits + 1
        /\ UNCHANGED <<kick_count, pc>>
        /\ WriteQueueNotify(Program[pc].v)
        /\ \/ alive' /\ UNCHANGED <<phase, step>>
           \/ ~alive' /\ phase' = "shutdown" /\ step' = 1
    BY <1>6 DEF GuestNotify, Break
  <2>2. worker = "none"
    BY <1>1, <1>4, <1>6 DEF ConsumerInv
  <2>3. pq["worker"].pc = "idle" /\ held = {} /\ pc <= SecondRing
    BY <1>1, <1>4, <2>2 DEF KickInv
  <2>4. /\ RingTypes' /\ DriverRings' /\ DeviceRings' /\ UNCHANGED <<used_idx, last_avail_idx>>
        /\ pq'["worker"].pc = "idle"
        /\ phase' = "run" => pq'["vmm"].pc # "idle"
    <3>1. CASE PqCall("vmm")
      <4>1. /\ "vmm" \in Callers /\ "worker" \in Callers
            /\ \A q \in Callers : q # "vmm" => pq[q].pc = "idle"
        BY <2>3 DEF Callers
      <4>2. /\ RingTypes' /\ DriverRings' /\ DeviceRings'
            /\ pq'["vmm"].pc = "enter" /\ pq'["worker"] = pq["worker"]
        BY <2>1, <3>1, <4>1, QueueCalled
      <4>3. UNCHANGED <<used_idx, last_avail_idx>>
        BY <3>1 DEF PqCall
      <4> QED
        BY <2>3, <4>2, <4>3
    <3>2. CASE alive' = FALSE /\ UNCHANGED queue_vars
      <4>1. UNCHANGED <<desc, avail_ring, avail_idx, used_ring, used_idx, last_avail_idx,
                        filled, pq, staged>>
        BY <3>2 DEF queue_vars
      <4>2. RingTypes' /\ DriverRings' /\ DeviceRings'
        BY <2>1, <4>1, RingsStay
      <4> QED
        BY <2>1, <2>3, <3>2, <4>1, <4>2
    <3> QED
      BY <2>1, <3>1, <3>2 DEF WriteQueueNotify, Reject
  <2>5. phase' \in {"run", "shutdown"}
    BY <1>1, <2>1
  <2>6. KickInv'
    <3>1. queue_notify_exits = (IF pc > FirstRing THEN 1 ELSE 0) + 0
      BY <1>1, <1>4, <2>2 DEF KickInv
    <3> QED
      BY <1>1, <1>4, <2>1, <2>2, <2>3, <2>4, <2>5, <3>1 DEF KickInv
  <2>7. AnnounceInv'
    BY <1>1, <1>4, <2>1, <2>4 DEF AnnounceInv, Announced
  <2>8. ShutdownInv'
    BY <1>1, <1>4, <2>1 DEF ShutdownInv
  <2> QED
    BY <1>0, <1>3, <2>4, <2>6, <2>7, <2>8 DEF RunInv
<1> QED
  BY <1>5, <1>6

LEMMA SetupNames ==
  /\ SetupPlan[1] = "kick_fd" /\ SetupPlan[2] = "call_fd" /\ SetupPlan[3] = "ioeventfd"
  /\ SetupPlan[4] = "irqfd" /\ SetupPlan[5] = "worker"
BY DEF SetupPlan

\* The exit of a doorbell: process_queue() on the VMM's thread, and its return.
LEMMA ExitGoesOn ==
  ASSUME RunInv, NotifyWork \/ NotifyExit
  PROVE  RunInv'
<1>0. ConsumerInv'
  BY ExitKeeps DEF RunInv
<1>1. ConsumerInv /\ KickInv /\ AnnounceInv /\ ShutdownInv
  BY DEF RunInv
<1>2. /\ phase = "run" /\ pq["vmm"].pc # "idle"
      /\ UNCHANGED <<status, driver_features, interrupt_status, queue_sel>>
      /\ UNCHANGED <<isr, completion, held, queue_notify_exits, run_result, stop, exit_code, worker,
                     count, guest_kicks, guest_calls, backend_result, irq, kick_count>>
  <2>1. PqStep("vmm") => pq["vmm"].pc # "idle"
    BY CallIsLocal DEF RunInv, ConsumerInv, Callers
  <2>2. CASE NotifyWork
    BY <2>1, <2>2 DEF NotifyWork, dev_vars, vmm_vars, guest_vars, backend_vars
  <2>3. CASE NotifyExit
    BY <2>3 DEF NotifyExit, NotifyReturns, PqReturn, dev_vars, backend_vars
  <2> QED
    BY <2>2, <2>3
<1>3. DeviceInv'
  BY <1>2 DEF RunInv, DeviceInv, Negotiated
<1>4. worker = "none" /\ Program[pc].op = "notify" /\ pc \in 1 .. Finish /\ isr = "none"
  BY <1>1, <1>2 DEF ConsumerInv, RngTypes
<1>5. /\ pc \in {FirstRing, SecondRing} /\ held = {} /\ pq["worker"].pc = "idle"
      /\ queue_notify_exits = (IF pc > FirstRing THEN 1 ELSE 0) + 1
      /\ kick_count = 0 /\ guest_kicks = 0 /\ guest_calls = 0 /\ ~stop
  <2>1. /\ held = {} /\ pq["worker"].pc = "idle" /\ pc <= SecondRing
        /\ queue_notify_exits = (IF pc > FirstRing THEN 1 ELSE 0) + 1
        /\ kick_count = 0 /\ guest_kicks = 0 /\ guest_calls = 0 /\ ~stop
    BY <1>1, <1>2, <1>4 DEF KickInv
  <2>2. pc \in {FirstRing, SecondRing, ThirdRing}
    BY <1>4, Progress
  <2> QED
    BY <2>1, <2>2, Spots
<1>6. Prepared(pc + 1) = Prepared(pc) /\ Published(pc + 1) = Published(pc)
  BY <1>4, Progress
<1>7. "vmm" \in Callers /\ "worker" \in Callers /\ \A q \in Callers : q # "vmm" => pq[q].pc = "idle"
  BY <1>5 DEF Callers
<1>8. ~Announced /\ completion = 0
  BY <1>1, <1>4, <1>5 DEF AnnounceInv, Announced
<1>9. CASE NotifyWork
  <2>1. PqStep("vmm") /\ UNCHANGED <<pc, phase, step>>
    BY <1>9 DEF NotifyWork, vmm_vars, guest_vars
  <2>2. /\ RingTypes' /\ DriverRings' /\ DeviceRings'
        /\ pq'["vmm"].pc # "idle" /\ pq'["worker"] = pq["worker"]
    BY <1>7, <2>1, QueueServes
  <2>3. KickInv'
    BY <1>1, <1>2, <1>4, <1>5, <2>1, <2>2 DEF KickInv
  <2>4. AnnounceInv'
    BY <1>1, <1>2, <1>4, <1>5, <1>8, <2>1 DEF AnnounceInv, Announced
  <2>5. ShutdownInv'
    BY <1>1, <1>2, <2>1 DEF ShutdownInv
  <2> QED
    BY <1>0, <1>3, <2>2, <2>3, <2>4, <2>5 DEF RunInv
<1>10. CASE NotifyExit
  <2>1. PqReturn("vmm")
    BY <1>10 DEF NotifyExit, NotifyReturns
  <2>2. \/ /\ phase' = IF queue_notify_exits = 2 THEN "setup" ELSE "run"
           /\ pc' = pc + 1 /\ step' = 1
        \/ phase' = "shutdown" /\ step' = 1 /\ pc' = pc
    BY <1>10 DEF NotifyExit, Break
  <2>3. /\ RingTypes' /\ DriverRings' /\ DeviceRings'
        /\ pq'["vmm"].pc = "idle" /\ pq'["worker"] = pq["worker"]
    <3>1. Prepared(pc') = Prepared(pc) /\ Published(pc') = Published(pc)
      BY <1>6, <2>2
    <3>2. ~PqCall("vmm")
      BY <1>2 DEF PqCall
    <3> QED
      BY <1>7, <2>1, <3>1, <3>2, QueueCalled
  <2>4. /\ pc' <= ThirdRing /\ pc <= ThirdRing /\ pc' < AwakePc
        /\ ~(pc' > ThirdRing) /\ ~(pc > ThirdRing)
    BY <1>4, <1>5, <2>2, Spots
  <2>5. Kicks(pc') = 0
    BY <2>4 DEF Kicks
  <2>6. KickInv'
    <3>1. phase' = "setup" => pc' = SecondRing + 1 /\ queue_notify_exits = 2
      BY <1>5, <2>2, Spots
    <3>2. phase' = "run" => /\ pc' <= SecondRing /\ pc' > FirstRing
                            /\ queue_notify_exits = 1
      BY <1>5, <2>2, Spots
    <3>3. phase' \in {"run", "setup", "shutdown"}
      BY <2>2
    <3>4. /\ worker' = "none" /\ kick_count' = 0 /\ guest_kicks' = 0 /\ guest_calls' = 0 /\ ~stop'
          /\ held' = {} /\ pq'["worker"].pc = "idle" /\ queue_notify_exits' = queue_notify_exits
          /\ backend_result' = backend_result /\ count' = count /\ stop' = stop
      BY <1>2, <1>4, <1>5, <2>3
    <3> QED
      BY <1>1, <1>4, <2>3, <2>4, <2>5, <3>1, <3>2, <3>3, <3>4 DEF KickInv, Busy
  <2>7. AnnounceInv'
    <3>1. pc' \in Nat /\ AwakePc \in Nat
      BY <1>4, <2>2, Spots
    <3>2. ~(pc' >= AwakePc)
      BY <2>4, <3>1
    <3>3. /\ ~irq' /\ isr' = "none" /\ completion' = 0 /\ worker' = "none" /\ guest_calls' = 0
          /\ irq' \in BOOLEAN
      BY <1>1, <1>2, <1>4, <1>5, <1>8 DEF AnnounceInv, Announced
    <3> QED
      BY <3>2, <3>3 DEF AnnounceInv, Announced
  <2>8. ShutdownInv'
    BY <1>1, <1>2, <1>4, <1>5, <2>2 DEF ShutdownInv
  <2> QED
    BY <1>0, <1>3, <2>3, <2>6, <2>7, <2>8 DEF RunInv
<1> QED
  BY <1>9, <1>10

\* The set-up and the shutdown leave guest and device alone.
VmmAside ==
  /\ UNCHANGED <<status, driver_features, queue_sel, interrupt_status>>
  /\ UNCHANGED <<desc, avail_ring, avail_idx, used_ring, used_idx, last_avail_idx, filled, pq,
                 staged>>
  /\ UNCHANGED <<pc, isr, completion, queue_notify_exits, irq>>

LEMMA VmmGoesOn ==
  ASSUME RunInv, VmmAside
  PROVE  RingTypes' /\ DriverRings' /\ DeviceRings' /\ DeviceInv'
<1>1. RingTypes' /\ DriverRings' /\ DeviceRings'
  BY RingsStay DEF VmmAside
<1>2. DeviceInv'
  BY DEF RunInv, DeviceInv, Negotiated, VmmAside
<1> QED
  BY <1>1, <1>2

LEMMA SetupGoesOn ==
  ASSUME RunInv, SetupStep \/ SetupFails
  PROVE  RunInv'
<1>0. ConsumerInv'
  BY SetupKeeps DEF RunInv
<1>1. ConsumerInv /\ KickInv /\ AnnounceInv /\ ShutdownInv
  BY DEF RunInv
<1>2. /\ phase = "setup" /\ worker = "none" /\ step \in 1 .. 5 /\ SetUpSoFar
      /\ pc = SecondRing + 1 /\ queue_notify_exits = 2
      /\ kick_count = 0 /\ guest_kicks = 0 /\ guest_calls = 0 /\ backend_result = 0 /\ ~stop
      /\ run_result = 1
  BY <1>1 DEF SetupStep, SetupFails, ConsumerInv, KickInv, ShutdownInv
<1>3. VmmAside
  BY DEF SetupStep, SetupFails, reg_vars, dev_vars, queue_vars, guest_vars, VmmAside
<1>4. /\ UNCHANGED <<run_result, stop, exit_code, count, guest_kicks, guest_calls, backend_result,
                     kick_count>>
  BY DEF SetupStep, SetupFails, backend_vars
<1>5. ~(pc > ThirdRing) /\ pc <= ThirdRing /\ pc > SecondRing /\ Kicks(pc) = 0
  BY <1>2, Spots DEF Kicks
<1>6. RingTypes' /\ DriverRings' /\ DeviceRings' /\ DeviceInv'
  BY <1>3, VmmGoesOn
<1>7. ~Announced
  BY <1>1, <1>2 DEF AnnounceInv
<1>8. AnnounceInv' /\ KickInv' /\ ShutdownInv'
  <2>1. CASE SetupFails
    <3>1. phase' = "shutdown" /\ step' = 1 /\ worker' = "none" /\ held' \subseteq held
      BY <1>2, <2>1 DEF SetupFails, Break, backend_vars
    <3>2. AnnounceInv'
      BY <1>1, <1>2, <1>3, <1>4, <1>7, <3>1 DEF AnnounceInv, Announced, VmmAside
    <3>3. KickInv'
      BY <1>1, <1>2, <1>3, <1>4, <1>5, <3>1 DEF KickInv, VmmAside, Busy
    <3>4. ShutdownInv'
      BY <1>1, <1>2, <1>3, <1>4, <3>1 DEF ShutdownInv, VmmAside
    <3> QED
      BY <3>2, <3>3, <3>4
  <2>2. CASE SetupStep /\ step # 5
    <3>1. /\ phase' = "setup" /\ step' = step + 1 /\ worker' = "none"
          /\ held' = held \cup {SetupPlan[step]}
          /\ SetupPlan[step] \in {"kick_fd", "call_fd", "ioeventfd", "irqfd"}
      BY <1>2, <2>2, SetupCalls, SetupNames DEF SetupStep
    <3>2. AnnounceInv'
      BY <1>1, <1>2, <1>3, <1>4, <1>7, <3>1 DEF AnnounceInv, Announced, VmmAside
    <3>3. KickInv'
      BY <1>1, <1>2, <1>3, <1>4, <1>5, <3>1 DEF KickInv, VmmAside, Busy
    <3>4. ShutdownInv'
      BY <1>1, <1>2, <1>3, <1>4, <3>1 DEF ShutdownInv, VmmAside
    <3> QED
      BY <3>2, <3>3, <3>4
  <2>3. CASE SetupStep /\ step = 5
    <3>1. /\ phase' = "run" /\ step' = 1 /\ worker' = "read" /\ held' = held \cup {"worker"}
      BY <1>2, <2>3, SetupCalls DEF SetupStep
    <3>2. {"kick_fd", "call_fd", "ioeventfd"} \subseteq held
      BY <1>2, <2>3, SetupNames DEF SetUpSoFar
    <3>3. AnnounceInv'
      BY <1>1, <1>2, <1>3, <1>4, <1>7, <3>1 DEF AnnounceInv, Announced, VmmAside
    <3>4. KickInv'
      BY <1>1, <1>2, <1>3, <1>4, <1>5, <3>1 DEF KickInv, VmmAside, Busy
    <3>5. ShutdownInv'
      BY <1>1, <1>2, <1>3, <1>4, <3>1, <3>2 DEF ShutdownInv, VmmAside
    <3> QED
      BY <3>3, <3>4, <3>5
  <2> QED
    BY <2>1, <2>2, <2>3
<1> QED
  BY <1>0, <1>6, <1>8 DEF RunInv

LEMMA ShutdownNames ==
  /\ ShutdownPlan[1] = "drop_ioeventfd" /\ ShutdownPlan[2] = "drop_irqfd"
  /\ ShutdownPlan[3] = "stop" /\ ShutdownPlan[4] = "wake" /\ ShutdownPlan[5] = "join"
  /\ ShutdownPlan[6] = "close" /\ ShutdownPlan[7] = "verdict"
  /\ DeassignOf["ioeventfd"] = "drop_ioeventfd" /\ DeassignOf["irqfd"] = "drop_irqfd"
BY DEF ShutdownPlan, DeassignOf

\* What every step of the shutdown does, and leaves alone.
LEMMA ShutdownAside ==
  ASSUME RunInv, NEW s, Shutdown(s)
  PROVE  /\ ConsumerInv' /\ RingTypes' /\ DriverRings' /\ DeviceRings' /\ DeviceInv'
         /\ AnnounceInv'
         /\ VmmAside /\ UNCHANGED <<worker, count, guest_kicks, guest_calls, backend_result>>
         /\ phase = "shutdown" /\ step \in 1 .. 7 /\ s = ShutdownPlan[step]
         /\ step = 7 => step' = 7 /\ phase' = "exited"
         /\ step # 7 => step' = step + 1 /\ phase' = "shutdown"
<1>1. /\ VmmAside /\ UNCHANGED <<worker, count, guest_kicks, guest_calls, backend_result>>
      /\ phase = "shutdown" /\ s = ShutdownPlan[step]
      /\ step' = (IF s = "verdict" THEN step ELSE step + 1)
      /\ phase' = (IF s = "verdict" THEN "exited" ELSE "shutdown")
  BY DEF Shutdown, reg_vars, dev_vars, queue_vars, guest_vars, backend_vars, VmmAside
<1>2. step \in 1 .. 7
  BY <1>1 DEF RunInv, ShutdownInv
<1>3. s = "verdict" <=> step = 7
  BY <1>1, <1>2, ShutdownNames
<1>4. ConsumerInv'
  BY ShutdownKeeps DEF RunInv
<1>5. AnnounceInv'
  BY <1>1 DEF RunInv, AnnounceInv, Announced, VmmAside
<1> QED
  BY <1>1, <1>2, <1>3, <1>4, <1>5, VmmGoesOn

\* What is left to show of a shutdown step before the verdict.
LEMMA ShutdownStep ==
  ASSUME RunInv, NEW s, Shutdown(s), s # "verdict",
         held' \subseteq held, run_result' \in {1, run_result},
         stop' \in BOOLEAN, stop' = stop \/ (stop' /\ Started),
         kick_count' = kick_count \/ (kick_count' = kick_count + 1 /\ Started /\ step = 4),
         \/ step < 5 /\ held' \cap {"kick_fd", "call_fd", "worker"}
                          = held \cap {"kick_fd", "call_fd", "worker"}
         \/ step >= 5 /\ (Started => worker = "ended"),
         step = 1 /\ "ioeventfd" \in held' => run_result' = 1,
         step = 2 /\ "irqfd" \in held' => run_result' = 1,
         step = 3 /\ Started => stop',
         step = 5 => "worker" \notin held',
         step = 6 => "kick_fd" \notin held' /\ "call_fd" \notin held'
  PROVE  RunInv'
<1>1. ConsumerInv /\ KickInv /\ AnnounceInv /\ ShutdownInv
  BY DEF RunInv
<1>2. /\ ConsumerInv' /\ RingTypes' /\ DriverRings' /\ DeviceRings' /\ DeviceInv' /\ AnnounceInv'
      /\ VmmAside /\ UNCHANGED <<worker, count, guest_kicks, guest_calls, backend_result>>
      /\ phase = "shutdown" /\ step \in 1 .. 6 /\ step' = step + 1 /\ phase' = "shutdown"
  <2>1. s = ShutdownPlan[step] /\ step \in 1 .. 7
    BY ShutdownAside
  <2>2. step # 7
    BY <2>1, ShutdownNames
  <2> QED
    BY <2>1, <2>2, ShutdownAside
<1>3. Started => worker # "none"
  BY <1>1 DEF KickInv, Started
<1>4. ShutdownInv'
  <2>1. worker \notin {"none", "ended"} => {"kick_fd", "call_fd", "worker"} \subseteq held'
    BY <1>1, <1>2 DEF ShutdownInv, Started
  <2>2. worker # "none" /\ step' <= 5 => "worker" \in held'
    BY <1>1, <1>2 DEF ShutdownInv, Started
  <2>3. /\ "ioeventfd" \in held' /\ step' > 1 => run_result' = 1
        /\ "irqfd" \in held' /\ step' > 2 => run_result' = 1
    BY <1>1, <1>2 DEF ShutdownInv
  <2>4. step' > 3 /\ worker # "none" => stop'
    BY <1>1, <1>2 DEF ShutdownInv, Started
  <2>5. /\ step' > 5 => "worker" \notin held' /\ worker \in {"none", "ended"}
        /\ step' > 6 => "kick_fd" \notin held' /\ "call_fd" \notin held'
    BY <1>1, <1>2 DEF ShutdownInv, Started
  <2>6. run_result' \in {0, 1} /\ (run_result' = 0 => completion' = 1)
    BY <1>1, <1>2 DEF ShutdownInv, VmmAside
  <2> QED
    BY <1>1, <1>2, <2>1, <2>2, <2>3, <2>4, <2>5, <2>6 DEF ShutdownInv
<1>5. KickInv'
  <2>1. stop' \in BOOLEAN /\ kick_count' \in Nat /\ (worker = "none" => ~stop' /\ kick_count' = 0)
    BY <1>1, <1>3 DEF KickInv
  <2>2. ~stop' => kick_count' = kick_count /\ ~stop
    BY <1>1, <1>2, <1>3 DEF ShutdownInv, KickInv
  <2>3. /\ pc' = pc /\ pq' = pq /\ queue_notify_exits' = queue_notify_exits
        /\ Kicks(pc') = Kicks(pc)
    BY <1>2 DEF VmmAside
  <2> QED
    BY <1>1, <1>2, <2>1, <2>2, <2>3 DEF KickInv
<1> QED
  BY <1>2, <1>4, <1>5 DEF RunInv

\* main()'s verdict: a guest that reported success and a worker without an error have left the
\* device, the rings and the counters as they are expected to be.
LEMMA VerdictIsHonest ==
  ASSUME RunInv, phase = "shutdown", step = 7, run_result = 0, backend_result = 0
  PROVE  DeviceAsExpected /\ RingsAsExpected /\ CountersAsExpected
<1>1. ConsumerInv /\ KickInv /\ AnnounceInv /\ ShutdownInv /\ DriverRings /\ DeviceRings /\ DeviceInv
  BY DEF RunInv
<1>2. completion = 1 /\ worker \in {"none", "ended"}
  BY <1>1 DEF ShutdownInv
<1>3. guest_calls = 1 /\ interrupt_status = 0
  BY <1>1, <1>2 DEF AnnounceInv, Announced
<1>4. /\ worker = "ended" /\ guest_kicks = 1 /\ queue_notify_exits = 2 /\ pc > ThirdRing
      /\ used_idx = TotalCount /\ last_avail_idx = TotalCount
  BY <1>1, <1>2, <1>3 DEF KickInv, AnnounceInv
<1>5. CountersAsExpected
  BY <1>3, <1>4 DEF CountersAsExpected
<1>6. DeviceAsExpected
  <2>1. status = Operational /\ FixedQueue /\ queue_ready = 1
    BY <1>1, <1>4 DEF ConsumerInv, LiveQueue
  <2>2. "FEATURES_OK" \in Operational
    BY DEF Operational, Accepted
  <2> QED
    BY <1>1, <2>1, <2>2 DEF DeviceInv, DeviceAsExpected
<1>7. RingsAsExpected
  <2>1. /\ avail_idx \in 0 .. Prepared(pc) /\ Prepared(pc) \in 0 .. TotalCount
        /\ last_avail_idx \in 0 .. avail_idx /\ TotalCount \in Nat
    BY UsedBehind
  <2>2. avail_idx = TotalCount /\ Prepared(pc) = TotalCount
    BY <1>4, <2>1
  <2> QED
    BY <1>1, <1>4, <2>2 DEF DriverRings, DeviceRings, RingsAsExpected
<1> QED
  BY <1>5, <1>6, <1>7

LEMMA ShutdownGoesOn ==
  ASSUME RunInv,
         \/ DropRegistration \/ DropFails \/ StoreStop \/ WakeWorker \/ WakeFails
         \/ JoinWorker \/ CloseFds \/ Verdict
  PROVE  RunInv'
<1>0. ShutdownInv /\ KickInv
  BY DEF RunInv
<1>a. stop \in BOOLEAN /\ run_result \in {0, 1}
  BY <1>0 DEF ShutdownInv, KickInv
<1>b. \A s : Shutdown(s) =>
        /\ phase = "shutdown" /\ step \in 1 .. 7 /\ s = ShutdownPlan[step]
        /\ step = 7 => step' = 7 /\ phase' = "exited"
  BY ShutdownAside
<1>c. step > 5 => ~Started
  BY <1>b, <1>0 DEF ShutdownInv, Started, DropRegistration, DropFails, StoreStop, WakeWorker,
                    WakeFails, JoinWorker, CloseFds, Verdict
<1>1. CASE DropRegistration
  <2>1. PICK r \in {"ioeventfd", "irqfd"} :
          /\ Shutdown(DeassignOf[r]) /\ held' = held \ {r}
          /\ UNCHANGED <<run_result, stop, exit_code, kick_count>>
    BY <1>1 DEF DropRegistration
  <2>2. /\ r = "ioeventfd" => step = 1
        /\ r = "irqfd" => step = 2
        /\ DeassignOf[r] # "verdict" /\ step \in 1 .. 2
    BY <1>b, <2>1, ShutdownNames
  <2>3. /\ held' \cap {"kick_fd", "call_fd", "worker"} = held \cap {"kick_fd", "call_fd", "worker"}
        /\ held' \subseteq held
        /\ step = 1 => "ioeventfd" \notin held'
        /\ step = 2 => "irqfd" \notin held'
    BY <2>1, <2>2
  <2> QED
    BY <1>a, <2>1, <2>2, <2>3, ShutdownStep
<1>2. CASE DropFails
  <2>1. PICK r \in {"ioeventfd", "irqfd"} :
          /\ Shutdown(DeassignOf[r]) /\ run_result' = 1
          /\ UNCHANGED <<held, stop, exit_code, kick_count>>
    BY <1>2 DEF DropFails
  <2>2. DeassignOf[r] # "verdict" /\ step \in 1 .. 2
    BY <1>b, <2>1, ShutdownNames
  <2> QED
    BY <1>a, <2>1, <2>2, ShutdownStep
<1>3. CASE StoreStop
  <2>1. /\ Shutdown("stop") /\ stop' = (stop \/ Started)
        /\ UNCHANGED <<held, run_result, exit_code, kick_count>>
    BY <1>3 DEF StoreStop
  <2>2. step = 3
    BY <1>b, <2>1, ShutdownNames
  <2>3. Started \in BOOLEAN
    BY DEF Started
  <2>4. stop' \in BOOLEAN /\ (stop' = stop \/ (stop' /\ Started)) /\ (Started => stop')
    BY <1>a, <2>1, <2>3
  <2> QED
    BY <2>1, <2>2, <2>4, ShutdownStep
<1>4. CASE WakeWorker \/ WakeFails
  <2>1. /\ Shutdown("wake") /\ kick_count' \in {kick_count, IF Started THEN kick_count + 1 ELSE kick_count}
        /\ run_result' \in {1, run_result} /\ UNCHANGED <<held, stop, exit_code>>
    BY <1>4 DEF WakeWorker, WakeFails
  <2>2. step = 4
    BY <1>b, <2>1, ShutdownNames
  <2> QED
    BY <1>a, <2>1, <2>2, ShutdownStep
<1>5. CASE JoinWorker
  <2>1. /\ Shutdown("join") /\ held' = held \ {"worker"} /\ (Started => worker = "ended")
        /\ UNCHANGED <<run_result, stop, exit_code, kick_count>>
    BY <1>5 DEF JoinWorker
  <2>2. step = 5
    BY <1>b, <2>1, ShutdownNames
  <2> QED
    BY <1>a, <2>1, <2>2, ShutdownStep
<1>6. CASE CloseFds
  <2>1. /\ Shutdown("close") /\ held' = held \ {"kick_fd", "call_fd"}
        /\ UNCHANGED <<run_result, stop, exit_code, kick_count>>
    BY <1>6 DEF CloseFds
  <2>2. step = 6
    BY <1>b, <2>1, ShutdownNames
  <2> QED
    BY <1>a, <1>c, <2>1, <2>2, ShutdownStep
<1>7. CASE Verdict
  <2>1. Shutdown("verdict") /\ UNCHANGED <<held, run_result, stop, kick_count>>
    BY <1>7 DEF Verdict
  <2>2. phase = "shutdown" /\ step = 7 /\ phase' = "exited" /\ step' = 7
    <3>1. phase = "shutdown" /\ step \in 1 .. 7 /\ ShutdownPlan[step] = "verdict"
      BY <1>b, <2>1
    <3>2. step = 7
      BY <3>1, ShutdownNames
    <3> QED
      BY <1>b, <2>1, <3>1, <3>2
  <2>3. /\ ConsumerInv' /\ RingTypes' /\ DriverRings' /\ DeviceRings' /\ DeviceInv' /\ AnnounceInv'
        /\ VmmAside /\ UNCHANGED <<worker, count, guest_kicks, guest_calls, backend_result>>
    BY <2>1, ShutdownAside
  <2>4. exit_code' = 0 <=> run_result = 0 /\ backend_result = 0
    <3>1. exit_code' = (IF /\ run_result = 0 /\ backend_result = 0
                           /\ DeviceAsExpected /\ RingsAsExpected /\ CountersAsExpected
                        THEN 0 ELSE 1)
      BY <1>7 DEF Verdict
    <3> QED
      BY <2>2, <3>1, VerdictIsHonest
  <2>5. KickInv'
    BY <1>0, <2>1, <2>2, <2>3 DEF KickInv, VmmAside
  <2>6. ShutdownInv'
    BY <1>0, <2>1, <2>2, <2>3, <2>4 DEF ShutdownInv, VmmAside
  <2> QED
    BY <2>3, <2>5, <2>6 DEF RunInv
<1> QED
  BY <1>1, <1>2, <1>3, <1>4, <1>5, <1>6, <1>7

\* What a step of the worker leaves alone.
WorkerAside ==
  /\ UNCHANGED <<status, driver_features, queue_sel>>
  /\ UNCHANGED <<pc, isr, completion, queue_notify_exits>>
  /\ UNCHANGED <<phase, step, held, run_result, stop, exit_code>>

\* A worker at work is the only caller of process_queue(), and not yet joined.
LEMMA WorkerAtWork ==
  ASSUME RunInv, worker \notin {"none", "ended"}, WorkerAside,
         worker' \notin {"none"}, backend_result' = 0 \/ worker' = "ended"
  PROVE  /\ DeviceInv' /\ ShutdownInv'
         /\ pq["vmm"].pc = "idle" /\ phase # "setup" /\ pc > SecondRing
         /\ queue_notify_exits = 2 /\ "worker" \in held
<1>1. ConsumerInv /\ KickInv /\ ShutdownInv /\ DeviceInv
  BY DEF RunInv
<1>2. pq["vmm"].pc = "idle" /\ phase # "setup" /\ pc > SecondRing /\ queue_notify_exits = 2
  BY <1>1 DEF ConsumerInv, KickInv
<1>3. DeviceInv'
  BY <1>1 DEF DeviceInv, Negotiated, WorkerAside
<1>4. /\ {"kick_fd", "call_fd", "worker"} \subseteq held /\ phase # "exited"
      /\ phase = "shutdown" => step <= 5
  <2>1. {"kick_fd", "call_fd", "worker"} \subseteq held
    BY <1>1 DEF ShutdownInv
  <2>2. phase \in {"shutdown", "exited"} => step \in 1 .. 7 /\ ~(step > 5)
    BY <1>1 DEF ShutdownInv
  <2>3. phase = "exited" => step = 7
    BY <1>1 DEF ShutdownInv
  <2> QED
    BY <2>1, <2>2, <2>3
<1>5. ShutdownInv'
  BY <1>1, <1>4 DEF ShutdownInv, WorkerAside
<1> QED
  BY <1>2, <1>3, <1>4, <1>5

\* The steps of the worker outside process_queue() leave the rings alone.
LEMMA WorkerRings ==
  ASSUME RunInv, WorkerAside,
         UNCHANGED <<desc, avail_ring, avail_idx, used_ring, used_idx, last_avail_idx, filled, pq,
                     staged>>
  PROVE  RingTypes' /\ DriverRings' /\ DeviceRings'
BY RingsStay DEF WorkerAside

\* The kick: read, looked at, counted.
LEMMA WorkerKickGoesOn ==
  ASSUME RunInv, WorkerRead \/ WorkerReadFails \/ WorkerWoken
  PROVE  RunInv'
<1>0. ConsumerInv'
  BY WorkerKeeps DEF RunInv
<1>1. ConsumerInv /\ KickInv /\ AnnounceInv /\ ShutdownInv /\ RingTypes
  BY DEF RunInv
<1>2. /\ WorkerAside /\ UNCHANGED <<interrupt_status, irq, guest_calls>>
      /\ worker \in {"read", "woken"}
  BY DEF WorkerRead, WorkerReadFails, WorkerWoken, WorkerUnchanged, WorkerAside, reg_vars, dev_vars,
         vmm_vars, guest_vars
<1>3. /\ worker' \in {"woken", "ended", "queue"} /\ (backend_result' = 0 \/ worker' = "ended")
  BY <1>1 DEF WorkerRead, WorkerReadFails, WorkerWoken, WorkerFails, KickInv
<1>4. /\ DeviceInv' /\ ShutdownInv' /\ pq["vmm"].pc = "idle" /\ phase # "setup"
      /\ pc > SecondRing /\ queue_notify_exits = 2 /\ "worker" \in held
  BY <1>2, <1>3, WorkerAtWork
<1>5. UNCHANGED <<used_idx, last_avail_idx>>
  BY DEF WorkerRead, WorkerReadFails, WorkerWoken, reg_vars, queue_vars, PqCall
<1>6. guest_calls = 0 \/ worker' # "queue"
  <2>1. CASE WorkerWoken /\ ~stop /\ worker' = "queue"
    <3>1. count = 1 /\ worker = "woken"
      BY <2>1 DEF WorkerWoken, WorkerFails
    <3>2. kick_count + 1 + guest_kicks = Kicks(pc) /\ guest_kicks = guest_calls
      BY <1>1, <2>1, <3>1 DEF KickInv
    <3>3. kick_count \in Nat /\ guest_kicks \in Nat /\ Kicks(pc) \in {0, 1}
      BY <1>1 DEF KickInv, Kicks
    <3> QED
      BY <3>2, <3>3
  <2> QED
    BY <1>1, <2>1 DEF WorkerRead, WorkerReadFails, WorkerWoken, WorkerFails
<1>7. AnnounceInv'
  BY <1>1, <1>2, <1>3, <1>5, <1>6 DEF AnnounceInv, Announced, WorkerAside
<1>8. RingTypes' /\ DriverRings' /\ DeviceRings' /\ (pq'["worker"].pc # "idle" <=> worker' = "queue")
  <2>1. pq["worker"].pc = "idle"
    BY <1>1, <1>2 DEF KickInv
  <2>2. CASE WorkerWoken /\ worker' = "queue"
    <3>1. PqCall("worker")
      BY <2>2 DEF WorkerWoken, WorkerFails
    <3>2. "worker" \in Callers /\ \A q \in Callers : q # "worker" => pq[q].pc = "idle"
      BY <1>4 DEF Callers
    <3>3. /\ RingTypes' /\ DriverRings' /\ DeviceRings' /\ pq'["worker"].pc = "enter"
      BY <1>2, <3>1, <3>2, QueueCalled DEF WorkerAside
    <3> QED
      BY <2>2, <3>3
  <2>3. CASE worker' # "queue"
    <3>1. UNCHANGED <<desc, avail_ring, avail_idx, used_ring, used_idx, last_avail_idx, filled, pq,
                      staged>>
      BY <2>3 DEF WorkerRead, WorkerReadFails, WorkerWoken, reg_vars, queue_vars
    <3> QED
      BY <1>2, <2>1, <2>3, <3>1, WorkerRings
  <2> QED
    BY <2>2, <2>3 DEF WorkerRead, WorkerReadFails, WorkerFails
<1>9. KickInv'
  <2>0. /\ Kicks(pc) \in {0, 1} /\ kick_count \in Nat /\ count \in Nat /\ guest_kicks \in Nat
        /\ guest_calls \in {0, 1} /\ guest_kicks = guest_calls /\ backend_result = 0
        /\ (Kicks(pc) = 1 <=> pc > ThirdRing) /\ stop \in BOOLEAN
        /\ (~stop => kick_count + (IF worker = "woken" THEN count ELSE 0) + guest_kicks = Kicks(pc))
        /\ (guest_calls = 1 => pc > ThirdRing)
        /\ (phase = "run" => ~stop) /\ phase # "setup"
    BY <1>1, <1>2, <1>4 DEF KickInv, Kicks
  <2>1. /\ UNCHANGED <<pc, phase, stop, held, queue_notify_exits, guest_calls>>
    BY <1>2 DEF WorkerAside
  <2>2. CASE WorkerRead
    <3>1. count' = kick_count /\ kick_count' = 0 /\ worker' = "woken" /\ worker = "read"
          /\ guest_kicks' = guest_kicks /\ backend_result' = backend_result
      BY <2>2 DEF WorkerRead
    <3> QED
      BY <1>4, <1>8, <2>0, <2>1, <3>1 DEF KickInv, Busy
  <2>3. CASE WorkerReadFails
    <3>1. /\ UNCHANGED <<kick_count, count, guest_kicks>> /\ worker' = "ended" /\ worker = "read"
          /\ backend_result' = 1
      BY <2>3 DEF WorkerReadFails, WorkerFails
    <3> QED
      BY <1>4, <1>8, <2>0, <2>1, <3>1 DEF KickInv, Busy
  <2>4. CASE WorkerWoken /\ stop
    <3>1. /\ UNCHANGED <<kick_count, count, guest_kicks, backend_result>> /\ worker' = "ended"
      BY <2>4 DEF WorkerWoken
    <3> QED
      BY <1>4, <1>8, <2>0, <2>1, <2>4, <3>1 DEF KickInv, Busy
  <2>5. CASE WorkerWoken /\ ~stop
    <3>1. /\ UNCHANGED <<kick_count, count>> /\ guest_kicks' = guest_kicks + count
          /\ worker = "woken"
          /\ \/ count = 1 /\ worker' = "queue" /\ backend_result' = backend_result
             \/ count # 1 /\ worker' = "ended" /\ backend_result' = 1
      BY <2>5 DEF WorkerWoken, WorkerFails
    <3>2. kick_count + count + guest_kicks = Kicks(pc)
      BY <2>0, <2>5, <3>1
    <3>3. kick_count + guest_kicks' = Kicks(pc) /\ guest_kicks' \in Nat
      BY <2>0, <3>1, <3>2
    <3>4. /\ count = 1 => guest_kicks' = 1 /\ guest_calls = 0 /\ pc > ThirdRing
          /\ guest_calls = 1 => guest_kicks' = 1
      BY <2>0, <3>1, <3>2
    <3> QED
      BY <1>4, <1>8, <2>0, <2>1, <2>5, <3>1, <3>3, <3>4 DEF KickInv, Busy
  <2> QED
    BY <2>2, <2>3, <2>4, <2>5
<1> QED
  BY <1>0, <1>4, <1>7, <1>8, <1>9 DEF RunInv

\* process_queue() in the worker's thread, and the check of the indices after it.
LEMMA WorkerServesGoesOn ==
  ASSUME RunInv, WorkerQueue \/ WorkerCheck
  PROVE  RunInv'
<1>0. ConsumerInv'
  BY WorkerKeeps DEF RunInv
<1>1. ConsumerInv /\ KickInv /\ AnnounceInv /\ ShutdownInv /\ RingTypes
  BY DEF RunInv
<1>2. /\ WorkerAside
      /\ UNCHANGED <<interrupt_status, irq, guest_calls, count, guest_kicks, kick_count>>
      /\ worker \in {"queue", "check"}
  BY DEF WorkerQueue, WorkerCheck, WorkerUnchanged, WorkerAside, reg_vars, dev_vars, vmm_vars,
         guest_vars
<1>3. /\ worker' \in {"queue", "check", "interrupt", "ended"}
      /\ \/ worker' = "ended" /\ backend_result' = 1
         \/ worker' # "ended" /\ backend_result' = 0
  BY <1>1, <1>2 DEF WorkerQueue, WorkerCheck, WorkerFails, KickInv, Busy
<1>4. /\ DeviceInv' /\ ShutdownInv' /\ pq["vmm"].pc = "idle" /\ phase # "setup"
      /\ pc > SecondRing /\ queue_notify_exits = 2 /\ "worker" \in held
  BY <1>2, <1>3, WorkerAtWork
<1>5. guest_kicks = 1 /\ guest_calls = 0 /\ pc > ThirdRing /\ ~Announced
  BY <1>1, <1>2 DEF KickInv, AnnounceInv, Busy
<1>6. worker' = "interrupt" => used_idx' = TotalCount /\ last_avail_idx' = TotalCount
  <2>1. worker' = "interrupt" => /\ WorkerCheck /\ {last_avail_idx, used_idx} = {TotalCount}
                                 /\ UNCHANGED <<used_idx, last_avail_idx>>
    BY DEF WorkerQueue, WorkerCheck, WorkerFails, reg_vars, queue_vars
  <2> QED
    BY <2>1
<1>7. AnnounceInv'
  BY <1>1, <1>2, <1>3, <1>5, <1>6 DEF AnnounceInv, Announced, WorkerAside
<1>8. RingTypes' /\ DriverRings' /\ DeviceRings' /\ (pq'["worker"].pc # "idle" <=> worker' = "queue")
  <2>1. "worker" \in Callers /\ \A q \in Callers : q # "worker" => pq[q].pc = "idle"
    BY <1>4 DEF Callers
  <2>2. CASE WorkerCheck
    <3>1. /\ UNCHANGED <<desc, avail_ring, avail_idx, used_ring, used_idx, last_avail_idx, filled,
                         pq, staged>>
          /\ worker = "check" /\ worker' # "queue"
      BY <2>2 DEF WorkerCheck, WorkerFails, reg_vars, queue_vars
    <3>2. pq["worker"].pc = "idle"
      BY <1>1, <3>1 DEF KickInv
    <3> QED
      BY <1>2, <3>1, <3>2, WorkerRings
  <2>3. CASE WorkerQueue /\ PqStep("worker")
    <3>1. /\ RingTypes' /\ DriverRings' /\ DeviceRings' /\ pq'["worker"].pc # "idle"
      BY <1>2, <2>1, <2>3, QueueServes DEF WorkerAside
    <3>2. pq["worker"].pc \notin {"done", "failed"}
      BY <2>3 DEF PqStep, PqEnter, PqFetch, PqFill, PqUsed, PqPublish, PqAdvance
    <3>3. worker' = "queue"
      BY <2>3, <3>2 DEF WorkerQueue, PqReturn
    <3> QED
      BY <3>1, <3>3
  <2>4. CASE WorkerQueue /\ ~PqStep("worker")
    <3>1. PqReturn("worker") /\ worker' # "queue"
      BY <2>4 DEF WorkerQueue, WorkerFails
    <3>2. ~PqCall("worker")
      BY <3>1 DEF PqReturn, PqCall
    <3>3. /\ RingTypes' /\ DriverRings' /\ DeviceRings' /\ pq'["worker"].pc = "idle"
      BY <1>2, <2>1, <3>1, <3>2, QueueCalled DEF WorkerAside
    <3> QED
      BY <3>1, <3>3
  <2> QED
    BY <2>2, <2>3, <2>4
<1>9. KickInv'
  <2>1. /\ UNCHANGED <<pc, phase, stop, held, queue_notify_exits, guest_calls>>
        /\ Kicks(pc') = Kicks(pc)
    BY <1>2 DEF WorkerAside
  <2>2. worker # "woken" /\ worker' \notin {"none", "read", "woken"}
    BY <1>2, <1>3
  <2> QED
    BY <1>1, <1>2, <1>3, <1>4, <1>5, <1>8, <2>1, <2>2 DEF KickInv, Busy
<1> QED
  BY <1>0, <1>4, <1>7, <1>8, <1>9 DEF RunInv

\* The interrupt: its cause, the call, the statistics.
LEMMA WorkerAnnounces ==
  ASSUME RunInv, WorkerInterrupt \/ WorkerCall \/ WorkerCallFails \/ WorkerCount
  PROVE  RunInv'
<1>0. ConsumerInv'
  BY WorkerKeeps DEF RunInv
<1>1. ConsumerInv /\ KickInv /\ AnnounceInv /\ ShutdownInv /\ RingTypes
  BY DEF RunInv
<1>2. /\ WorkerAside /\ UNCHANGED <<count, guest_kicks, kick_count>>
      /\ worker \in {"interrupt", "call", "count"}
      /\ UNCHANGED <<desc, avail_ring, avail_idx, used_ring, used_idx, last_avail_idx, filled, pq,
                     staged>>
  BY DEF WorkerInterrupt, WorkerCall, WorkerCallFails, WorkerCount, WorkerUnchanged, WorkerAside,
         reg_vars, dev_vars, queue_vars, vmm_vars, guest_vars
<1>3. /\ worker' \in {"call", "count", "read", "ended"}
      /\ \/ worker' = "ended" /\ backend_result' = 1
         \/ worker' # "ended" /\ backend_result' = 0
  BY <1>1, <1>2
     DEF WorkerInterrupt, WorkerCall, WorkerCallFails, WorkerCount, WorkerFails, KickInv, Busy
<1>4. /\ DeviceInv' /\ ShutdownInv' /\ pq["vmm"].pc = "idle" /\ phase # "setup"
      /\ pc > SecondRing /\ queue_notify_exits = 2 /\ "worker" \in held
  BY <1>2, <1>3, WorkerAtWork
<1>5. /\ guest_kicks = 1 /\ guest_calls = 0 /\ pc > ThirdRing
      /\ used_idx = TotalCount /\ last_avail_idx = TotalCount
      /\ pq["worker"].pc = "idle"
      /\ worker # "count" => ~Announced
      /\ irq \in BOOLEAN
  BY <1>1, <1>2 DEF KickInv, AnnounceInv, Busy
<1>6. RingTypes' /\ DriverRings' /\ DeviceRings'
  BY <1>2, WorkerRings
<1>7. \/ /\ worker = "interrupt" /\ worker' = "call" /\ interrupt_status' = 1
         /\ UNCHANGED <<irq, guest_calls>>
      \/ /\ worker = "call" /\ worker' = "count" /\ irq' = (irq \/ "irqfd" \in held)
         /\ UNCHANGED <<interrupt_status, guest_calls>>
      \/ worker = "call" /\ worker' = "ended" /\ UNCHANGED <<irq, interrupt_status, guest_calls>>
      \/ /\ worker = "count" /\ worker' = "read" /\ guest_calls' = guest_calls + 1
         /\ UNCHANGED <<irq, interrupt_status>>
  BY DEF WorkerInterrupt, WorkerCall, WorkerCallFails, WorkerCount, WorkerFails, reg_vars, dev_vars
<1>8. AnnounceInv'
  <2>1. /\ UNCHANGED <<pc, isr, completion, used_idx, last_avail_idx>>
    BY <1>2 DEF WorkerAside
  <2>2. CASE worker = "interrupt"
    BY <1>1, <1>5, <1>7, <2>1, <2>2 DEF AnnounceInv, Announced
  <2>3. CASE worker = "call" /\ worker' = "count"
    BY <1>1, <1>5, <1>7, <2>1, <2>3 DEF AnnounceInv, Announced
  <2>4. CASE worker = "call" /\ worker' = "ended"
    BY <1>1, <1>5, <1>7, <2>1, <2>4 DEF AnnounceInv, Announced
  <2>5. CASE worker = "count"
    BY <1>1, <1>5, <1>7, <2>1, <2>5 DEF AnnounceInv, Announced
  <2> QED
    BY <1>7, <2>2, <2>3, <2>4, <2>5
<1>9. KickInv'
  <2>1. /\ UNCHANGED <<pc, phase, stop, held, queue_notify_exits, pq>>
        /\ Kicks(pc') = Kicks(pc)
    BY <1>2 DEF WorkerAside
  <2>2. worker # "woken" /\ worker' \notin {"none", "woken", "queue"}
    BY <1>2, <1>3
  <2>3. IF worker' = "read" THEN guest_calls' = 1 ELSE guest_calls' = 0
    BY <1>5, <1>7
  <2> QED
    BY <1>1, <1>2, <1>3, <1>4, <1>5, <2>1, <2>2, <2>3 DEF KickInv, Busy
<1> QED
  BY <1>0, <1>4, <1>6, <1>8, <1>9 DEF RunInv

LEMMA RunInvAtStart ==
  ASSUME RngInit
  PROVE  RunInv
<1>0. ~stop /\ stop \in BOOLEAN /\ ~irq /\ irq \in BOOLEAN
  BY DEF RngInit
<1>1. /\ pc = 1 /\ isr = "none" /\ completion = 0 /\ phase = "run" /\ held = {}
      /\ queue_notify_exits = 0 /\ run_result = 1 /\ kick_count = 0 /\ worker = "none" /\ count = 0
      /\ guest_kicks = 0 /\ guest_calls = 0 /\ backend_result = 0
  BY DEF RngInit
<1>2. /\ desc = [h \in Table |-> FALSE] /\ avail_ring = [s \in Table |-> 0]
      /\ used_ring = [s \in Table |-> 0]
      /\ avail_idx = 0 /\ used_idx = 0 /\ last_avail_idx = 0 /\ staged = <<>>
      /\ pq = [p \in Callers |-> [pc |-> "idle", snap |-> 0, head |-> 0]]
      /\ status = {} /\ queue_sel = 0 /\ interrupt_status = 0
  BY DEF RngInit, TransportInit, QueueInit
<1>3. /\ pq["vmm"].pc = "idle" /\ pq["worker"].pc = "idle"
      /\ \A p \in Callers : pq[p].pc = "idle"
  BY <1>2 DEF Callers
<1>4. /\ pc <= SecondRing /\ pc <= ThirdRing /\ ~(pc > FirstRing) /\ ~(pc > ThirdRing)
      /\ ~(pc >= AwakePc)
  <2>1. Start \in Nat /\ Finish = Start + 2 * RequestCount + 15 /\ RequestCount \in Nat
    BY Layout, Spots
  <2> QED
    BY <1>1, <2>1, Spots
<1>5. Prepared(pc) = 0 /\ Published(pc) = 0 /\ Kicks(pc) = 0
  <2>1. Start \in Nat
    BY Spots
  <2> QED
    BY <1>1, <1>4, <2>1 DEF Prepared, Published, Kicks
<1>6. RingTypes
  <2>1. Len(staged) = 0 /\ staged \in Seq(Nat)
    BY <1>2
  <2>2. pq \in [Callers -> [pc : {"idle", "enter", "fetch", "fill", "used", "publish", "advance",
                                  "done", "failed"},
                            snap : Nat, head : Nat]]
    BY <1>2
  <2> QED
    BY <1>2, <2>1, <2>2 DEF RingTypes
<1>7. DriverRings /\ DeviceRings
  <2>1. Len(staged) = 0
    BY <1>2
  <2> QED
    BY <1>2, <1>3, <1>5, <2>1 DEF DriverRings, DeviceRings
<1>8. DeviceInv
  BY <1>2 DEF DeviceInv, RNG_QUEUE
<1>9. KickInv
  BY <1>0, <1>1, <1>3, <1>4, <1>5 DEF KickInv, Busy
<1>10. AnnounceInv
  BY <1>0, <1>1, <1>4 DEF AnnounceInv, Announced
<1>11. ShutdownInv
  BY <1>1 DEF ShutdownInv
<1> QED
  BY <1>6, <1>7, <1>8, <1>9, <1>10, <1>11, ConsumerInvAtStart DEF RunInv

LEMMA RunInvIsInductive ==
  ASSUME RunInv, [RngNext]_rng_vars
  PROVE  RunInv'
<1>0. ConsumerInv'
  BY ConsumerInvIsInductive DEF RunInv
<1>1. CASE GuestStep
  BY <1>1, ConfigurationGoesOn, ClearGoesOn, PrepareGoesOn, PublishGoesOn, LookGoesOn, NotifyGoesOn,
     InterruptGoesOn
     DEF GuestStep
<1>2. CASE VmmStep
  BY <1>2, ExitGoesOn, SetupGoesOn, ShutdownGoesOn DEF VmmStep
<1>3. CASE WorkerStep
  BY <1>3, WorkerKickGoesOn, WorkerServesGoesOn, WorkerAnnounces DEF WorkerStep
<1>4. CASE FaultStep
  BY <1>0, <1>4, KvmRunFailureGoesOn, SetupGoesOn, ShutdownGoesOn, WorkerKickGoesOn, WorkerAnnounces
     DEF FaultStep
<1>5. CASE UNCHANGED rng_vars
  <2>1. /\ VmmAside
        /\ UNCHANGED <<phase, step, held, run_result, stop, exit_code, kick_count>>
        /\ UNCHANGED <<worker, count, guest_kicks, guest_calls, backend_result>>
    BY <1>5 DEF rng_vars, reg_vars, dev_vars, queue_vars, vmm_vars, guest_vars, backend_vars, VmmAside
  <2>2. KickInv'
    BY <2>1 DEF RunInv, KickInv, VmmAside
  <2>3. AnnounceInv'
    BY <2>1 DEF RunInv, AnnounceInv, Announced, VmmAside
  <2>4. ShutdownInv'
    BY <2>1 DEF RunInv, ShutdownInv, VmmAside
  <2> QED
    BY <1>0, <2>1, <2>2, <2>3, <2>4, VmmGoesOn DEF RunInv
<1> QED
  BY <1>1, <1>2, <1>3, <1>4, <1>5 DEF RngNext, Exited

(* IRQ5 is never ahead of what it announces: whichever way guest, VMM and worker interleave and
   whichever call fails, a pending or handled interrupt finds InterruptStatus raised and all the
   requests in the used ring with their buffers filled, and the handler never reports a spurious
   one; for any number of requests that fits the queue. *)
THEOREM InterruptsAreTrue == RngSpec => []InterruptMeansCompletion
<1>1. RngInit => RunInv
  BY RunInvAtStart
<1>2. RunInv /\ [RngNext]_rng_vars => RunInv'
  BY RunInvIsInductive
<1>3. RunInv => InterruptMeansCompletion
  <2> SUFFICES ASSUME RunInv PROVE InterruptMeansCompletion
    OBVIOUS
  <2>1. KickInv /\ AnnounceInv /\ DeviceRings
    BY DEF RunInv
  <2>2. Announced => used_idx = TotalCount
    BY <2>1 DEF AnnounceInv
  <2>3. used_idx = TotalCount => used_ring[RequestCount] = RequestCount /\ RequestCount \in filled
    <3>1. RequestCount \in Nat /\ TotalCount = RequestCount + 1
      BY RngAssumption DEF TotalCount
    <3> QED
      BY <2>1, <3>1 DEF DeviceRings
  <2> QED
    BY <2>1, <2>2, <2>3 DEF AnnounceInv, Announced, InterruptMeansCompletion
<1> QED
  BY <1>1, <1>2, <1>3, PTL DEF RngSpec

(* The shutdown of main() undoes exactly what was set up, from every moment the run loop can end
   at: no descriptor is closed under a worker that still runs, nothing but a registration KVM
   refused to drop is left, and the exit code is the guest's and the backend's verdict, although
   the counters it reads are written by the worker after the guest may have reported success. *)
THEOREM ShutdownAlwaysExact == RngSpec => []ShutdownExact
<1>1. RngInit => RunInv
  BY RunInvAtStart
<1>2. RunInv /\ [RngNext]_rng_vars => RunInv'
  BY RunInvIsInductive
<1>3. RunInv => ShutdownExact
  <2> SUFFICES ASSUME RunInv PROVE ShutdownExact
    OBVIOUS
  <2>1. ShutdownInv
    BY DEF RunInv
  <2>2. phase = "exited" => held \subseteq {"ioeventfd", "irqfd"} /\ (held # {} => run_result = 1)
    <3>1. phase = "exited" => step = 7
      BY <2>1 DEF ShutdownInv
    <3>2. phase = "exited" /\ step = 7 =>
            /\ held \subseteq {"kick_fd", "call_fd", "ioeventfd", "irqfd", "worker"}
            /\ "worker" \notin held /\ "kick_fd" \notin held /\ "call_fd" \notin held
            /\ "ioeventfd" \in held \/ "irqfd" \in held => run_result = 1
      BY <2>1 DEF ShutdownInv
    <3> QED
      BY <3>1, <3>2
  <2> QED
    BY <2>1, <2>2 DEF ShutdownInv, ShutdownExact
<1> QED
  BY <1>1, <1>2, <1>3, PTL DEF RngSpec

-----------------------------------------------------------------------------
(***************************************************************************)
(* The trace of the run.                                                   *)
(*                                                                         *)
(* What the seven maps of virtio.bpf.c hold for a thread is a function of  *)
(* the calls that thread is in (Sees), and a hook keeps it so wherever the *)
(* thread may fire it: at a call of a function it is not in, or at the     *)
(* return of the innermost one (Legal).                                    *)
(***************************************************************************)

Observed == {"vmm", "worker", "stray"}

Fns == {"ioctl", "do_mmio", "process_queue", "process_ioeventfd_kick", "signal_irqfd_completion"}

ActiveMap ==
  [ioctl |-> "active_ioctl", do_mmio |-> "active_mmio", process_queue |-> "active_process",
   process_ioeventfd_kick |-> "active_ioeventfd", signal_irqfd_completion |-> "active_irqfd"]

CountMap(fn) == IF fn = "ioctl" THEN "ioctl_counters" ELSE "operation_counters"

Frame(fn, n, a) == [fn |-> fn, n |-> n, args |-> a]

\* The arguments of an access and of process_queue() are not saved.
Saved(f) == [id |-> f.n, args |-> IF f.fn \in {"do_mmio", "process_queue"} THEN <<>> ELSE f.args]

\* Map m counts n calls of thread t.
Tally(b, m, t, n) == Here(b, m, t) = {n} \/ (n = 0 /\ Here(b, m, t) = {})

\* Thread t is in the calls F and has made ni ioctls and no other calls.
Sees(b, t, F, ni, no) ==
  /\ \A fn \in Fns : Here(b, ActiveMap[fn], t) = {Saved(f) : f \in {g \in F : g.fn = fn}}
  /\ Tally(b, "ioctl_counters", t, ni) /\ Tally(b, "operation_counters", t, no)

IsVirtio(b) == DOMAIN b = VirtioMaps \cup {"out", "full", "lost"} /\ b.lost \in BOOLEAN

\* What a hook of thread t leaves alone.
Spares(b, u, t) == \A m \in VirtioMaps : \A j : j # t => Here(u, m, j) = Here(b, m, j)

LEMMA MapNames ==
  /\ ActiveMap.ioctl = "active_ioctl" /\ ActiveMap.do_mmio = "active_mmio"
  /\ ActiveMap.process_queue = "active_process"
  /\ ActiveMap.process_ioeventfd_kick = "active_ioeventfd"
  /\ ActiveMap.signal_irqfd_completion = "active_irqfd"
  /\ \A fn \in Fns : /\ ActiveMap[fn] \in VirtioMaps /\ CountMap(fn) \in VirtioMaps
                     /\ ActiveMap[fn] \notin {"out", "full", "lost"}
                     /\ ActiveMap[fn] \notin {"ioctl_counters", "operation_counters"}
  /\ \A fn, gn \in Fns : ActiveMap[fn] = ActiveMap[gn] => fn = gn
  /\ \A m \in VirtioMaps : m \notin {"out", "full", "lost"}
BY DEF ActiveMap, Fns, VirtioMaps, CountMap

LEMMA TallyIs ==
  ASSUME NEW b, NEW m, NEW t, NEW n, Tally(b, m, t, n)
  PROVE  Bump(b, m, t) = n + 1
<1>1. CASE Here(b, m, t) = {n}
  <2>1. Get(b, m, t, 0) = n
    BY <1>1, HereIsGet
  <2> QED
    BY <2>1 DEF Bump
<1>2. CASE n = 0 /\ Here(b, m, t) = {}
  <2>1. Get(b, m, t, 0) = 0
    BY <1>2, HereIsGet
  <2> QED
    BY <1>2, <2>1 DEF Bump
<1> QED
  BY <1>1, <1>2 DEF Tally

\* The calls a thread is in, with one more and with one less.
LEMMA OneMore ==
  ASSUME NEW F, NEW c, c.fn \in Fns, \A g \in F : g.fn # c.fn, NEW fn
  PROVE  {Saved(f) : f \in {g \in F \cup {c} : g.fn = fn}} =
           IF fn = c.fn THEN {Saved(c)} ELSE {Saved(f) : f \in {g \in F : g.fn = fn}}
OBVIOUS

LEMMA OneLess ==
  ASSUME NEW F, NEW c, \A g \in F : g.fn # c.fn, NEW fn
  PROVE  {Saved(f) : f \in {g \in F : g.fn = fn}} =
           IF fn = c.fn THEN {} ELSE {Saved(f) : f \in {g \in F \cup {c} : g.fn = fn}}
OBVIOUS

\* What every program at an entry does with its maps, and what it tells.
Entering(b, t, fn, id, saved, r) ==
  lab_output(lab_map_update(lab_map_update(b, CountMap(fn), t, id),
                            ActiveMap[fn], t, [id |-> id, args |-> saved]), r)

Entered(b, u, t, fn, id, saved, r) ==
  /\ IsVirtio(u)
  /\ ~u.lost => /\ ~b.lost /\ Spares(b, u, t) /\ u.out = Append(b.out, r)
                /\ Here(u, CountMap(fn), t) = {id}
                /\ Here(u, ActiveMap[fn], t) = {[id |-> id, args |-> saved]}
                /\ \A m \in VirtioMaps : m \notin {CountMap(fn), ActiveMap[fn]} =>
                     Here(u, m, t) = Here(b, m, t)

LEMMA EnteringMaps ==
  ASSUME NEW b, IsVirtio(b), NEW t, NEW fn \in Fns, NEW id, NEW saved, NEW r,
         NEW u, u = Entering(b, t, fn, id, saved, r)
  PROVE  Entered(b, u, t, fn, id, saved, r)
<1> DEFINE c == CountMap(fn)
           a == ActiveMap[fn]
           v == [id |-> id, args |-> saved]
           b1 == lab_map_update(b, c, t, id)
           b2 == lab_map_update(b1, a, t, v)
<1>0. /\ c \in VirtioMaps /\ a \in VirtioMaps /\ c # a /\ c \notin {"out", "full", "lost"}
      /\ a \notin {"out", "full", "lost"} /\ u = lab_output(b2, r)
      /\ \A m \in VirtioMaps : m \notin {"out", "full", "lost"}
  BY MapNames DEF CountMap, Entering
<1>1. b1 = lab_map_update(b, c, t, id) /\ b2 = lab_map_update(b1, a, t, v)
  OBVIOUS
<1> HIDE DEF c, a, v, b1, b2
<1>2. /\ IsVirtio(b1) /\ (~b1.lost => ~b.lost)
      /\ \A f \in DOMAIN b : f # c /\ f # "lost" => b1[f] = b[f]
      /\ ~b1.lost => Here(b1, c, t) = {id} /\ \A j : j # t => Here(b1, c, j) = Here(b, c, j)
  BY <1>0, <1>1, Updated DEF IsVirtio
<1>3. /\ IsVirtio(b2) /\ (~b2.lost => ~b1.lost)
      /\ \A f \in DOMAIN b1 : f # a /\ f # "lost" => b2[f] = b1[f]
      /\ ~b2.lost => Here(b2, a, t) = {v} /\ \A j : j # t => Here(b2, a, j) = Here(b1, a, j)
  BY <1>0, <1>1, <1>2, Updated DEF IsVirtio
<1>4. /\ IsVirtio(u) /\ (~u.lost => ~b2.lost) /\ (~u.lost => u.out = Append(b2.out, r))
      /\ \A f \in DOMAIN b2 : f # "out" /\ f # "lost" => u[f] = b2[f]
  BY <1>0, <1>3, Told DEF IsVirtio
<1>5. b2.out = b.out
  BY <1>0, <1>2, <1>3 DEF IsVirtio
<1>6. \A m \in VirtioMaps : \A k : Here(u, m, k) = Here(b2, m, k)
  BY <1>0, <1>3, <1>4 DEF IsVirtio, Here
<1>7. \A m \in VirtioMaps : m # a => \A k : Here(b2, m, k) = Here(b1, m, k)
  BY <1>0, <1>2, <1>3 DEF IsVirtio, Here
<1>8. \A m \in VirtioMaps : m # c => \A k : Here(b1, m, k) = Here(b, m, k)
  BY <1>0, <1>2 DEF IsVirtio, Here
<1>9. ~u.lost => Here(u, c, t) = {id} /\ Here(u, a, t) = {v}
  BY <1>0, <1>2, <1>3, <1>4, <1>6, <1>7
<1>10. ~u.lost => \A m \in VirtioMaps : m \notin {c, a} => Here(u, m, t) = Here(b, m, t)
  BY <1>6, <1>7, <1>8
<1>11. ~u.lost => Spares(b, u, t)
  BY <1>0, <1>2, <1>3, <1>4, <1>6, <1>7, <1>8 DEF Spares
<1> QED
  BY <1>2, <1>3, <1>4, <1>5, <1>9, <1>10, <1>11 DEF Entered, c, a, v

\* And at a return.
Leaving(b, t, fn, r) == bpf_map_delete_elem(lab_output(b, r), ActiveMap[fn], t)

Left(b, u, t, fn, r) ==
  /\ IsVirtio(u)
  /\ ~u.lost => /\ ~b.lost /\ Spares(b, u, t) /\ u.out = Append(b.out, r)
                /\ Here(u, ActiveMap[fn], t) = {}
                /\ \A m \in VirtioMaps : m # ActiveMap[fn] => Here(u, m, t) = Here(b, m, t)

LEMMA LeavingMaps ==
  ASSUME NEW b, IsVirtio(b), NEW t, NEW fn \in Fns, NEW r, NEW u, u = Leaving(b, t, fn, r)
  PROVE  Left(b, u, t, fn, r)
<1> DEFINE a == ActiveMap[fn]
           b1 == lab_output(b, r)
<1>0. /\ a \in VirtioMaps /\ a \notin {"out", "full", "lost"}
      /\ u = bpf_map_delete_elem(b1, a, t) /\ b1 = lab_output(b, r)
      /\ \A m \in VirtioMaps : m \notin {"out", "full", "lost"}
  BY MapNames DEF Leaving
<1> HIDE DEF a, b1
<1>1. /\ IsVirtio(b1) /\ (~b1.lost => ~b.lost) /\ (~b1.lost => b1.out = Append(b.out, r))
      /\ \A f \in DOMAIN b : f # "out" /\ f # "lost" => b1[f] = b[f]
  BY <1>0, Told DEF IsVirtio
<1>2. /\ DOMAIN u = DOMAIN b1 /\ \A f \in DOMAIN b1 : f # a => u[f] = b1[f]
      /\ Here(u, a, t) = {} /\ \A j : j # t => Here(u, a, j) = Here(b1, a, j)
  BY <1>0, <1>1, Deleted DEF IsVirtio
<1>3. IsVirtio(u) /\ u.lost = b1.lost /\ u.out = b1.out
  BY <1>0, <1>1, <1>2 DEF IsVirtio
<1>4. \A m \in VirtioMaps : \A k : Here(b1, m, k) = Here(b, m, k)
  BY <1>0, <1>1 DEF IsVirtio, Here
<1>5. \A m \in VirtioMaps : m # a => \A k : Here(u, m, k) = Here(b1, m, k)
  BY <1>0, <1>1, <1>2 DEF IsVirtio, Here
<1>6. Spares(b, u, t) /\ \A m \in VirtioMaps : m # a => Here(u, m, t) = Here(b, m, t)
  BY <1>2, <1>4, <1>5 DEF Spares
<1> QED
  BY <1>1, <1>2, <1>3, <1>6 DEF Left, a

-----------------------------------------------------------------------------
\* The events a thread can cause, and the program each of them starts.
GoodCall(fn, a, v, u) ==
  /\ fn \in Fns
  /\ IF fn = "do_mmio" THEN a[2] \in {"read", "write"} ELSE v = None
  /\ fn = "process_queue" => a = <<>>
  /\ fn # "ioctl" => u.fixed \in BOOLEAN

GoodReturn(fn, a, v, u, f) ==
  /\ fn \in Fns /\ f.fn = fn
  /\ IF fn = "do_mmio" THEN f.args = a ELSE v = None
  /\ fn = "process_queue" => f.args = <<>>
  /\ fn # "ioctl" => u.fixed \in BOOLEAN

LEMMA EventFields ==
  ASSUME NEW t, NEW fn, NEW a, NEW v, NEW r, NEW u
  PROVE  /\ Call(t, fn, a, v, u).t = t /\ Call(t, fn, a, v, u).fn = fn
         /\ Call(t, fn, a, v, u).kind = "call" /\ Call(t, fn, a, v, u).args = a
         /\ Call(t, fn, a, v, u).value = v /\ Call(t, fn, a, v, u).u = u
         /\ Call(t, fn, a, v, u).result = None
         /\ Ret(t, fn, a, v, r, u).t = t /\ Ret(t, fn, a, v, r, u).fn = fn
         /\ Ret(t, fn, a, v, r, u).kind = "return" /\ Ret(t, fn, a, v, r, u).args = a
         /\ Ret(t, fn, a, v, r, u).value = v /\ Ret(t, fn, a, v, r, u).u = u
         /\ Ret(t, fn, a, v, r, u).result = r
BY DEF Call, Ret

\* The record the programs make of an event, by its fields.
Rec(ev, t, id, a, v, r, d, q, p) ==
  [event |-> ev, t |-> t, id |-> id, args |-> a, value |-> v, result |-> r, device |-> d,
   queue |-> q, preview |-> p]

LEMMA RecordOf ==
  ASSUME NEW e, NEW f
  PROVE  Record(e, f) =
           Rec(<<e.fn, e.kind>>, e.t, f.n, f.args,
               IF e.kind = "call" /\ e.fn = "do_mmio" /\ e.args[2] = "read" THEN None ELSE e.value,
               e.result,
               IF e.fn = "ioctl" THEN None ELSE e.u.device,
               IF e.fn = "ioctl" \/ ~e.u.fixed THEN None ELSE e.u.rings,
               IF e.kind = "return" /\ e.fn = "process_queue" /\ e.result = 0 THEN e.u.preview ELSE None)
BY DEF Record, Rec

LEMMA EventIs == \A t, ev : new_event(t, ev) = Rec(ev, t, 0, <<>>, None, None, None, None, None)
BY DEF new_event, Rec

\* A record with one field set.
SetId(z, x) == [z EXCEPT !.id = x]
SetArgs(z, x) == [z EXCEPT !.args = x]
SetValue(z, x) == [z EXCEPT !.value = x]
SetResult(z, x) == [z EXCEPT !.result = x]
SetDevice(z, x) == [z EXCEPT !.device = x]
SetQueue(z, x) == [z EXCEPT !.queue = x]
SetPreview(z, x) == [z EXCEPT !.preview = x]

LEMMA OneFieldSet ==
  ASSUME NEW ev, NEW t, NEW id, NEW a, NEW v, NEW r, NEW d, NEW q, NEW p, NEW x
  PROVE  /\ SetId(Rec(ev, t, id, a, v, r, d, q, p), x) = Rec(ev, t, x, a, v, r, d, q, p)
         /\ SetArgs(Rec(ev, t, id, a, v, r, d, q, p), x) = Rec(ev, t, id, x, v, r, d, q, p)
         /\ SetValue(Rec(ev, t, id, a, v, r, d, q, p), x) = Rec(ev, t, id, a, x, r, d, q, p)
         /\ SetResult(Rec(ev, t, id, a, v, r, d, q, p), x) = Rec(ev, t, id, a, v, x, d, q, p)
         /\ SetDevice(Rec(ev, t, id, a, v, r, d, q, p), x) = Rec(ev, t, id, a, v, r, x, q, p)
         /\ SetQueue(Rec(ev, t, id, a, v, r, d, q, p), x) = Rec(ev, t, id, a, v, r, d, x, p)
         /\ SetPreview(Rec(ev, t, id, a, v, r, d, q, p), x) = Rec(ev, t, id, a, v, r, d, q, x)
<1>1. SetId(Rec(ev, t, id, a, v, r, d, q, p), x) = Rec(ev, t, x, a, v, r, d, q, p)
  BY DEF Rec, SetId
<1>2. SetArgs(Rec(ev, t, id, a, v, r, d, q, p), x) = Rec(ev, t, id, x, v, r, d, q, p)
  BY DEF Rec, SetArgs
<1>3. SetValue(Rec(ev, t, id, a, v, r, d, q, p), x) = Rec(ev, t, id, a, x, r, d, q, p)
  BY DEF Rec, SetValue
<1>4. SetResult(Rec(ev, t, id, a, v, r, d, q, p), x) = Rec(ev, t, id, a, v, x, d, q, p)
  BY DEF Rec, SetResult
<1>5. SetDevice(Rec(ev, t, id, a, v, r, d, q, p), x) = Rec(ev, t, id, a, v, r, x, q, p)
  BY DEF Rec, SetDevice
<1>6. SetQueue(Rec(ev, t, id, a, v, r, d, q, p), x) = Rec(ev, t, id, a, v, r, d, x, p)
  BY DEF Rec, SetQueue
<1>7. SetPreview(Rec(ev, t, id, a, v, r, d, q, p), x) = Rec(ev, t, id, a, v, r, d, q, x)
  BY DEF Rec, SetPreview
<1> QED
  BY <1>1, <1>2, <1>3, <1>4, <1>5, <1>6, <1>7

\* A record of the programs: filled in, sampled and numbered.
Numbered(y, u, id) == [Sampled(y, u) EXCEPT !.id = id]
Previewed(y, u, id, p) == [Sampled(y, u) EXCEPT !.id = id, !.preview = p]

LEMMA Filled ==
  ASSUME NEW ev, NEW t, NEW id, NEW a, NEW v, NEW r, NEW p, NEW u, u.fixed \in BOOLEAN,
         NEW y, y = Rec(ev, t, 0, a, v, r, None, None, None)
  PROVE  /\ Numbered(y, u, id) =
              Rec(ev, t, id, a, v, r, u.device, IF ~u.fixed THEN None ELSE u.rings, None)
         /\ Previewed(y, u, id, p) =
              Rec(ev, t, id, a, v, r, u.device, IF ~u.fixed THEN None ELSE u.rings, p)
<1> DEFINE q == IF ~u.fixed THEN None ELSE u.rings
           d == u.device
<1>1. sample_queue_memory(u) = q
  BY DEF sample_queue_memory
<1> HIDE DEF q, d
<1>2. Sampled(y, u) = SetQueue(SetDevice(y, d), q)
  BY <1>1 DEF Sampled, SetQueue, SetDevice, d
<1>3. Sampled(y, u) = Rec(ev, t, 0, a, v, r, d, q, None)
  BY <1>2, OneFieldSet
<1>4. Numbered(y, u, id) = SetId(Sampled(y, u), id)
  BY DEF Numbered, SetId
<1>5. Previewed(y, u, id, p) = SetPreview(SetId(Sampled(y, u), id), p)
  BY DEF Previewed, SetId, SetPreview
<1> QED
  BY <1>3, <1>4, <1>5, OneFieldSet DEF q, d

\* The records the programs start from.
Blank(t, ev) == new_event(t, ev)
WithArgs(t, ev, a) == [new_event(t, ev) EXCEPT !.args = a]
WithValue(t, ev, a, v) == [new_event(t, ev) EXCEPT !.args = a, !.value = v]
WithResult(t, ev, r) == [new_event(t, ev) EXCEPT !.result = r]
WithBoth(t, ev, a, r) == [new_event(t, ev) EXCEPT !.args = a, !.result = r]
WithId(t, ev, id, a) == [new_event(t, ev) EXCEPT !.id = id, !.args = a]
WithIdResult(t, ev, id, a, r) == [new_event(t, ev) EXCEPT !.id = id, !.args = a, !.result = r]
WithAll(t, ev, a, v, r) == [new_event(t, ev) EXCEPT !.args = a, !.value = v, !.result = r]

LEMMA FirstRecords ==
  /\ \A t, ev : Blank(t, ev) = Rec(ev, t, 0, <<>>, None, None, None, None, None)
  /\ \A t, ev, a : WithArgs(t, ev, a) = Rec(ev, t, 0, a, None, None, None, None, None)
  /\ \A t, ev, a, v : WithValue(t, ev, a, v) = Rec(ev, t, 0, a, v, None, None, None, None)
  /\ \A t, ev, r : WithResult(t, ev, r) = Rec(ev, t, 0, <<>>, None, r, None, None, None)
  /\ \A t, ev, a, r : WithBoth(t, ev, a, r) = Rec(ev, t, 0, a, None, r, None, None, None)
  /\ \A t, ev, a, v, r : WithAll(t, ev, a, v, r) = Rec(ev, t, 0, a, v, r, None, None, None)
  /\ \A t, ev, id, a : WithId(t, ev, id, a) = Rec(ev, t, id, a, None, None, None, None, None)
  /\ \A t, ev, id, a, r : WithIdResult(t, ev, id, a, r) = Rec(ev, t, id, a, None, r, None, None, None)
<1>1. \A t, ev : Blank(t, ev) = new_event(t, ev)
  BY DEF Blank
<1>2. \A t, ev, a : WithArgs(t, ev, a) = SetArgs(new_event(t, ev), a)
  BY DEF WithArgs, SetArgs
<1>3. \A t, ev, a, v : WithValue(t, ev, a, v) = SetValue(SetArgs(new_event(t, ev), a), v)
  BY DEF WithValue, SetArgs, SetValue
<1>4. \A t, ev, r : WithResult(t, ev, r) = SetResult(new_event(t, ev), r)
  BY DEF WithResult, SetResult
<1>5. \A t, ev, a, r : WithBoth(t, ev, a, r) = SetResult(SetArgs(new_event(t, ev), a), r)
  BY DEF WithBoth, SetArgs, SetResult
<1>6. \A t, ev, a, v, r : WithAll(t, ev, a, v, r) = SetResult(SetValue(SetArgs(new_event(t, ev), a), v), r)
  BY DEF WithAll, SetArgs, SetValue, SetResult
<1>7. \A t, ev, id, a : WithId(t, ev, id, a) = SetArgs(SetId(new_event(t, ev), id), a)
  BY DEF WithId, SetId, SetArgs
<1>8. \A t, ev, id, a, r : WithIdResult(t, ev, id, a, r) = SetResult(SetArgs(SetId(new_event(t, ev), id), a), r)
  BY DEF WithIdResult, SetId, SetArgs, SetResult
<1>9. \A t, ev : new_event(t, ev) = Rec(ev, t, 0, <<>>, None, None, None, None, None)
  BY EventIs
<1> QED
  BY <1>1, <1>2, <1>3, <1>4, <1>5, <1>6, <1>7, <1>8, <1>9, OneFieldSet

\* The programs, as what they tell and which map they keep the call in.
LEMMA ProgramsAre ==
  /\ \A b, t, a, v, u : observe_do_mmio(b, t, a, v, u) =
       Enter(b, t, "active_mmio", <<>>,
             WithValue(t, <<"do_mmio", "call">>, a, IF a[2] = "write" THEN v ELSE None), u)
  /\ \A b, t, u : observe_process_queue_begin(b, t, u) =
       Enter(b, t, "active_process", <<>>, Blank(t, <<"process_queue", "call">>), u)
  /\ \A b, t, a, u : observe_ioeventfd_kick(b, t, a, u) =
       Enter(b, t, "active_ioeventfd", a, WithArgs(t, <<"process_ioeventfd_kick", "call">>, a), u)
  /\ \A b, t, a, u : observe_irqfd_signal(b, t, a, u) =
       Enter(b, t, "active_irqfd", a, WithArgs(t, <<"signal_irqfd_completion", "call">>, a), u)
  /\ \A b, t, a, v, r, u : observe_do_mmio_end(b, t, a, v, r, u) =
       Leave(b, t, "active_mmio", WithAll(t, <<"do_mmio", "return">>, a, v, r), u)
  /\ \A b, t, r, u : observe_ioeventfd_kick_end(b, t, r, u) =
       Leave(b, t, "active_ioeventfd",
             WithBoth(t, <<"process_ioeventfd_kick", "return">>, SavedCount(b, "active_ioeventfd", t), r), u)
  /\ \A b, t, r, u : observe_irqfd_signal_end(b, t, r, u) =
       Leave(b, t, "active_irqfd",
             WithBoth(t, <<"signal_irqfd_completion", "return">>, SavedCount(b, "active_irqfd", t), r), u)
<1>1. \A b, t, a, v, u : observe_do_mmio(b, t, a, v, u) =
       Enter(b, t, "active_mmio", <<>>,
             WithValue(t, <<"do_mmio", "call">>, a, IF a[2] = "write" THEN v ELSE None), u)
  BY DEF observe_do_mmio, WithValue
<1>2. \A b, t, u : observe_process_queue_begin(b, t, u) =
       Enter(b, t, "active_process", <<>>, Blank(t, <<"process_queue", "call">>), u)
  BY DEF observe_process_queue_begin, Blank
<1>3. \A b, t, a, u : observe_ioeventfd_kick(b, t, a, u) =
       Enter(b, t, "active_ioeventfd", a, WithArgs(t, <<"process_ioeventfd_kick", "call">>, a), u)
  BY DEF observe_ioeventfd_kick, WithArgs
<1>4. \A b, t, a, u : observe_irqfd_signal(b, t, a, u) =
       Enter(b, t, "active_irqfd", a, WithArgs(t, <<"signal_irqfd_completion", "call">>, a), u)
  BY DEF observe_irqfd_signal, WithArgs
<1>5. \A b, t, a, v, r, u : observe_do_mmio_end(b, t, a, v, r, u) =
       Leave(b, t, "active_mmio", WithAll(t, <<"do_mmio", "return">>, a, v, r), u)
  BY DEF observe_do_mmio_end, WithAll
<1>6. \A b, t, r, u : observe_ioeventfd_kick_end(b, t, r, u) =
       Leave(b, t, "active_ioeventfd",
             WithBoth(t, <<"process_ioeventfd_kick", "return">>, SavedCount(b, "active_ioeventfd", t), r), u)
  BY DEF observe_ioeventfd_kick_end, WithBoth
<1>7. \A b, t, r, u : observe_irqfd_signal_end(b, t, r, u) =
       Leave(b, t, "active_irqfd",
             WithBoth(t, <<"signal_irqfd_completion", "return">>, SavedCount(b, "active_irqfd", t), r), u)
  BY DEF observe_irqfd_signal_end, WithBoth
<1> QED
  BY <1>1, <1>2, <1>3, <1>4, <1>5, <1>6, <1>7

LEMMA HookAtCall ==
  ASSUME NEW b, NEW t, NEW fn \in Fns, NEW a, NEW v, NEW u
  PROVE  Hook(b, Call(t, fn, a, v, u)) =
           CASE fn = "ioctl" -> observe_ioctl_enter(b, t, a)
             [] fn = "do_mmio" -> observe_do_mmio(b, t, a, v, u)
             [] fn = "process_queue" -> observe_process_queue_begin(b, t, u)
             [] fn = "process_ioeventfd_kick" -> observe_ioeventfd_kick(b, t, a, u)
             [] fn = "signal_irqfd_completion" -> observe_irqfd_signal(b, t, a, u)
<1> DEFINE e == Call(t, fn, a, v, u)
<1>1. e.fn = fn /\ e.kind = "call" /\ e.t = t /\ e.args = a /\ e.value = v /\ e.u = u
  BY EventFields
<1> HIDE DEF e
<1>2. Hook(b, e) =
           CASE fn = "ioctl" -> observe_ioctl_enter(b, t, a)
             [] fn = "do_mmio" -> observe_do_mmio(b, t, a, v, u)
             [] fn = "process_queue" -> observe_process_queue_begin(b, t, u)
             [] fn = "process_ioeventfd_kick" -> observe_ioeventfd_kick(b, t, a, u)
             [] fn = "signal_irqfd_completion" -> observe_irqfd_signal(b, t, a, u)
  BY <1>1 DEF Hook, Fns
<1> QED
  BY <1>2 DEF e

LEMMA HookAtReturn ==
  ASSUME NEW b, NEW t, NEW fn \in Fns, NEW a, NEW v, NEW r, NEW u
  PROVE  Hook(b, Ret(t, fn, a, v, r, u)) =
           CASE fn = "ioctl" -> observe_ioctl_exit(b, t, r)
             [] fn = "do_mmio" -> observe_do_mmio_end(b, t, a, v, r, u)
             [] fn = "process_queue" -> observe_process_queue_end(b, t, r, u)
             [] fn = "process_ioeventfd_kick" -> observe_ioeventfd_kick_end(b, t, r, u)
             [] fn = "signal_irqfd_completion" -> observe_irqfd_signal_end(b, t, r, u)
<1> DEFINE e == Ret(t, fn, a, v, r, u)
<1>1. e.fn = fn /\ e.kind = "return" /\ e.t = t /\ e.args = a /\ e.value = v /\ e.u = u /\ e.result = r
  BY EventFields
<1> HIDE DEF e
<1>2. Hook(b, e) =
           CASE fn = "ioctl" -> observe_ioctl_exit(b, t, r)
             [] fn = "do_mmio" -> observe_do_mmio_end(b, t, a, v, r, u)
             [] fn = "process_queue" -> observe_process_queue_end(b, t, r, u)
             [] fn = "process_ioeventfd_kick" -> observe_ioeventfd_kick_end(b, t, r, u)
             [] fn = "signal_irqfd_completion" -> observe_irqfd_signal_end(b, t, r, u)
  BY <1>1 DEF Hook, Fns
<1> QED
  BY <1>2 DEF e

\* A program at an entry tells the call under its number and its own arguments.
LEMMA HookCalls ==
  ASSUME NEW b, NEW t \in Observed, NEW fn, NEW a, NEW v, NEW u, GoodCall(fn, a, v, u),
         NEW e, e = Call(t, fn, a, v, u), NEW id, id = Bump(b, CountMap(fn), t)
  PROVE  Hook(b, e) = Entering(b, t, fn, id, Saved(Frame(fn, id, a)).args, Record(e, Frame(fn, id, a)))
<1> DEFINE f == Frame(fn, id, a)
           s == IF fn \in {"do_mmio", "process_queue"} THEN <<>> ELSE a
           w == IF fn = "do_mmio" /\ a[2] = "read" THEN None ELSE v
           q == IF ~u.fixed THEN None ELSE u.rings
           d == IF fn = "ioctl" THEN None ELSE u.device
           x == IF fn = "ioctl" THEN None ELSE q
<1>0. fn \in Fns
  BY DEF GoodCall
<1>1. Saved(f).args = s /\ f.n = id /\ f.args = a
  BY DEF Saved, Frame
<1>2. Record(e, f) = Rec(<<fn, "call">>, t, id, a, w, None, d, x, None)
  <2>1. /\ e.fn = fn /\ e.kind = "call" /\ e.t = t /\ e.args = a /\ e.value = v /\ e.u = u
        /\ e.result = None
    BY EventFields
  <2> HIDE DEF f
  <2> QED
    BY <1>1, <2>1, RecordOf
<1> HIDE DEF f
<1>3. CASE fn = "ioctl"
  <2> DEFINE y == WithId(t, <<"ioctl", "call">>, id, a)
  <2>1. Hook(b, e) = observe_ioctl_enter(b, t, a)
    BY <1>0, <1>3, HookAtCall
  <2>2. y = Rec(<<"ioctl", "call">>, t, id, a, None, None, None, None, None)
    BY FirstRecords
  <2>3. id = Bump(b, "ioctl_counters", t) /\ is_vmm_comm(t)
    BY <1>3 DEF is_vmm_comm, Observed, CountMap
  <2>4. observe_ioctl_enter(b, t, a) =
          lab_output(lab_map_update(lab_map_update(b, "ioctl_counters", t, id), "active_ioctl", t,
                                    [id |-> id, args |-> a]), y)
    BY <2>3 DEF observe_ioctl_enter, WithId
  <2> HIDE DEF y
  <2>5. ActiveMap[fn] = "active_ioctl" /\ CountMap(fn) = "ioctl_counters"
    BY <1>3, MapNames DEF CountMap
  <2>6. Record(e, f) = Rec(<<"ioctl", "call">>, t, id, a, None, None, None, None, None) /\ s = a
    BY <1>2, <1>3 DEF GoodCall
  <2>7. Hook(b, e) = Entering(b, t, fn, id, s, Record(e, f))
    BY <2>1, <2>2, <2>4, <2>5, <2>6 DEF Entering
  <2> QED
    BY <1>1, <2>7 DEF f
<1>4. CASE fn # "ioctl"
  <2>0. CountMap(fn) = "operation_counters" /\ id = next_operation_id(b, t) /\ u.fixed \in BOOLEAN
    BY <1>4 DEF CountMap, next_operation_id, GoodCall
  <2> DEFINE r == Rec(<<fn, "call">>, t, 0, a, w, None, None, None, None)
  <2>1. Enter(b, t, ActiveMap[fn], s, r, u) = Entering(b, t, fn, id, s, Record(e, f))
    <3>1. Enter(b, t, ActiveMap[fn], s, r, u) = Entering(b, t, fn, id, s, Numbered(r, u, id))
      BY <2>0 DEF Enter, Entering, Numbered
    <3> HIDE DEF w
    <3>2. Numbered(r, u, id) = Rec(<<fn, "call">>, t, id, a, w, None, u.device, q, None)
      BY <2>0, Filled
    <3>3. Record(e, f) = Rec(<<fn, "call">>, t, id, a, w, None, u.device, q, None)
      BY <1>2, <1>4
    <3> QED
      BY <3>1, <3>2, <3>3
  <2>2. Hook(b, e) = Enter(b, t, ActiveMap[fn], s, r, u)
    <3>1. CASE fn = "do_mmio"
      <4>1. Hook(b, e) = observe_do_mmio(b, t, a, v, u)
        BY <1>0, <3>1, HookAtCall
      <4>2. (IF a[2] = "write" THEN v ELSE None) = w
        BY <3>1 DEF GoodCall
      <4>3. observe_do_mmio(b, t, a, v, u)
              = Enter(b, t, "active_mmio", <<>>, WithValue(t, <<"do_mmio", "call">>, a, w), u)
        BY <4>2, ProgramsAre
      <4>4. ActiveMap[fn] = "active_mmio" /\ s = <<>>
        BY <3>1, MapNames
      <4> HIDE DEF w, s
      <4> QED
        BY <3>1, <4>1, <4>3, <4>4, FirstRecords
    <3>2. CASE fn = "process_queue"
      <4>1. Hook(b, e) = observe_process_queue_begin(b, t, u)
        BY <1>0, <3>2, HookAtCall
      <4>2. a = <<>> /\ w = None /\ s = <<>> /\ ActiveMap[fn] = "active_process"
        BY <3>2, MapNames DEF GoodCall
      <4> HIDE DEF w, s
      <4> QED
        BY <3>2, <4>1, <4>2, ProgramsAre, FirstRecords
    <3>3. CASE fn = "process_ioeventfd_kick"
      <4>1. Hook(b, e) = observe_ioeventfd_kick(b, t, a, u)
        BY <1>0, <3>3, HookAtCall
      <4>2. w = None /\ s = a /\ ActiveMap[fn] = "active_ioeventfd"
        BY <3>3, MapNames DEF GoodCall
      <4> HIDE DEF w, s
      <4> QED
        BY <3>3, <4>1, <4>2, ProgramsAre, FirstRecords
    <3>4. CASE fn = "signal_irqfd_completion"
      <4>1. Hook(b, e) = observe_irqfd_signal(b, t, a, u)
        BY <1>0, <3>4, HookAtCall
      <4>2. w = None /\ s = a /\ ActiveMap[fn] = "active_irqfd"
        BY <3>4, MapNames DEF GoodCall
      <4> HIDE DEF w, s
      <4> QED
        BY <3>4, <4>1, <4>2, ProgramsAre, FirstRecords
    <3> QED
      BY <1>0, <1>4, <3>1, <3>2, <3>3, <3>4 DEF Fns
  <2> HIDE DEF r, s
  <2>3. Hook(b, e) = Entering(b, t, fn, id, Saved(f).args, Record(e, f))
    BY <1>1, <2>1, <2>2
  <2> QED
    BY <2>3 DEF f
<1> QED
  BY <1>3, <1>4

\* A program at a return tells it with what was saved at the entry of the same call.
LEMMA HookReturns ==
  ASSUME NEW b, NEW t \in Observed, NEW fn, NEW a, NEW v, NEW r, NEW u, NEW f, GoodReturn(fn, a, v, u, f),
         NEW e, e = Ret(t, fn, a, v, r, u), Here(b, ActiveMap[fn], t) = {Saved(f)}
  PROVE  Hook(b, e) = Leaving(b, t, fn, Record(e, f))
<1> DEFINE m == ActiveMap[fn]
           s == IF fn \in {"do_mmio", "process_queue"} THEN <<>> ELSE f.args
           ev == <<fn, "return">>
           q == IF ~u.fixed THEN None ELSE u.rings
           d == IF fn = "ioctl" THEN None ELSE u.device
           x == IF fn = "ioctl" THEN None ELSE q
           p == IF fn = "process_queue" /\ r = 0 THEN u.preview ELSE None
<1>0. fn \in Fns /\ f.fn = fn
  BY DEF GoodReturn
<1>1. Has(b, m, t) /\ b[m][t] = Saved(f) /\ b[m][t].id = f.n /\ b[m][t].args = s
  <2>1. Has(b, m, t) /\ b[m][t] = Saved(f)
    BY HereIsGet
  <2>2. Saved(f).id = f.n /\ Saved(f).args = s
    BY <1>0 DEF Saved
  <2> QED
    BY <2>1, <2>2
<1>2. Record(e, f) = Rec(ev, t, f.n, f.args, v, r, d, x, p)
  <2>1. /\ e.fn = fn /\ e.kind = "return" /\ e.t = t /\ e.args = a /\ e.value = v /\ e.u = u
        /\ e.result = r
    BY EventFields
  <2> QED
    BY <2>1, RecordOf
<1> DEFINE id == f.n
           args == f.args
<1> HIDE DEF id, args
<1>3. CASE fn = "ioctl"
  <2> DEFINE y == WithIdResult(t, <<"ioctl", "return">>, id, args, r)
  <2>1. Hook(b, e) = observe_ioctl_exit(b, t, r)
    BY <1>0, <1>3, HookAtReturn
  <2>2. m = "active_ioctl" /\ s = args
    BY <1>3, MapNames DEF args
  <2>3. y = Rec(<<"ioctl", "return">>, t, id, args, None, r, None, None, None)
    BY FirstRecords
  <2>4. b.active_ioctl[t].id = id /\ b.active_ioctl[t].args = args /\ Has(b, "active_ioctl", t)
    BY <1>1, <2>2 DEF id
  <2>5. observe_ioctl_exit(b, t, r) = bpf_map_delete_elem(lab_output(b, y), "active_ioctl", t)
    BY <2>4 DEF observe_ioctl_exit, WithIdResult
  <2> HIDE DEF y
  <2>6. Record(e, f) = Rec(<<"ioctl", "return">>, t, id, args, None, r, None, None, None)
    BY <1>2, <1>3 DEF GoodReturn, id, args
  <2> QED
    BY <2>1, <2>2, <2>3, <2>5, <2>6 DEF Leaving
<1>4. CASE fn \notin {"ioctl", "process_queue"}
  <2>0. u.fixed \in BOOLEAN
    BY <1>4 DEF GoodReturn
  <2> DEFINE y == Rec(ev, t, 0, args, v, r, None, None, None)
  <2>1. Leave(b, t, m, y, u) = Leaving(b, t, fn, Record(e, f))
    <3>1. Numbered(y, u, id) = Rec(ev, t, id, args, v, r, u.device, q, None)
      BY <2>0, Filled
    <3>2. b[m][t].id = id /\ Has(b, m, t)
      BY <1>1 DEF id
    <3>3. Leave(b, t, m, y, u) = Leaving(b, t, fn, Numbered(y, u, id))
      BY <3>2 DEF Leave, Leaving, Numbered
    <3>4. Record(e, f) = Rec(ev, t, id, args, v, r, u.device, q, None)
      BY <1>2, <1>4 DEF id, args
    <3> QED
      BY <3>1, <3>3, <3>4
  <2>2. Hook(b, e) = Leave(b, t, m, y, u)
    <3>1. CASE fn = "do_mmio"
      <4>1. Hook(b, e) = observe_do_mmio_end(b, t, a, v, r, u)
        BY <1>0, <3>1, HookAtReturn
      <4>2. a = args /\ m = "active_mmio"
        BY <3>1, MapNames DEF GoodReturn, args
      <4> HIDE DEF m
      <4> QED
        BY <3>1, <4>1, <4>2, ProgramsAre, FirstRecords
    <3>2. CASE fn = "process_ioeventfd_kick"
      <4>1. Hook(b, e) = observe_ioeventfd_kick_end(b, t, r, u)
        BY <1>0, <3>2, HookAtReturn
      <4>2. m = "active_ioeventfd" /\ v = None
        BY <3>2, MapNames DEF GoodReturn
      <4>3. SavedCount(b, "active_ioeventfd", t) = args
        BY <1>1, <3>2, <4>2 DEF SavedCount, args
      <4> HIDE DEF m
      <4> QED
        BY <3>2, <4>1, <4>2, <4>3, ProgramsAre, FirstRecords
    <3>3. CASE fn = "signal_irqfd_completion"
      <4>1. Hook(b, e) = observe_irqfd_signal_end(b, t, r, u)
        BY <1>0, <3>3, HookAtReturn
      <4>2. m = "active_irqfd" /\ v = None
        BY <3>3, MapNames DEF GoodReturn
      <4>3. SavedCount(b, "active_irqfd", t) = args
        BY <1>1, <3>3, <4>2 DEF SavedCount, args
      <4> HIDE DEF m
      <4> QED
        BY <3>3, <4>1, <4>2, <4>3, ProgramsAre, FirstRecords
    <3> QED
      BY <1>0, <1>4, <3>1, <3>2, <3>3 DEF Fns
  <2> HIDE DEF y, m
  <2> QED
    BY <2>1, <2>2
<1>5. CASE fn = "process_queue"
  <2> DEFINE y == WithResult(t, <<"process_queue", "return">>, r)
  <2>0. u.fixed \in BOOLEAN /\ v = None /\ args = <<>> /\ m = "active_process"
    BY <1>5, MapNames DEF GoodReturn, args
  <2>1. Hook(b, e) = observe_process_queue_end(b, t, r, u)
    BY <1>0, <1>5, HookAtReturn
  <2>2. Has(b, "active_process", t) /\ b.active_process[t].id = id
    BY <1>1, <2>0 DEF id
  <2>3. observe_process_queue_end(b, t, r, u) =
          bpf_map_delete_elem(lab_output(b, Previewed(y, u, id, IF r = 0 THEN u.preview ELSE None)),
                              "active_process", t)
    BY <2>2 DEF observe_process_queue_end, Previewed, WithResult
  <2>4. y = Rec(ev, t, 0, args, v, r, None, None, None)
    BY <1>5, <2>0, FirstRecords
  <2> HIDE DEF y
  <2>5. p = IF r = 0 THEN u.preview ELSE None
    BY <1>5
  <2>6. Record(e, f) = Rec(ev, t, id, args, v, r, u.device, q, p)
    BY <1>2, <1>5 DEF id, args
  <2> HIDE DEF p
  <2>7. Previewed(y, u, id, p) = Rec(ev, t, id, args, v, r, u.device, q, p)
    BY <2>0, <2>4, Filled
  <2>8. Hook(b, e) = bpf_map_delete_elem(lab_output(b, Previewed(y, u, id, p)), "active_process", t)
    BY <2>1, <2>3, <2>5
  <2> QED
    BY <2>0, <2>6, <2>7, <2>8 DEF Leaving
<1> QED
  BY <1>0, <1>3, <1>4, <1>5

-----------------------------------------------------------------------------
\* The maps and the truth: for each thread, the calls it is in and how many it has made.
IsCalls(s) ==
  /\ DOMAIN s = {"stack", "numbers", "told"}
  /\ DOMAIN s.stack = Threads
  /\ s.numbers \in [Threads -> [ioctl : Nat, operation : Nat]]

Frames(st) == {st[i] : i \in DOMAIN st}

SeesAll(b, s) ==
  /\ Here(b, "active_ioctl", "other") = {}
  /\ \A t \in Observed : Sees(b, t, Frames(s.stack[t]), s.numbers[t].ioctl, s.numbers[t].operation)

Agrees(b, s) ==
  /\ IsVirtio(b) /\ IsCalls(s)
  /\ ~b.lost => b.out = s.told /\ SeesAll(b, s)

\* Only thread t has moved; it is in st now.
Moved(s, s1, t, st) ==
  /\ s1.stack[t] = st
  /\ \A j \in Threads : j # t => s1.stack[j] = s.stack[j] /\ s1.numbers[j] = s.numbers[j]

LEMMA Stacks ==
  ASSUME NEW c, NEW d
  PROVE  /\ Frames(<<>>) = {} /\ Frames(<<c>>) = {c} /\ Frames(<<c, d>>) = {c, d}
         /\ Append(<<>>, c) = <<c>> /\ Append(<<c>>, d) = <<c, d>>
         /\ Last(<<c>>) = c /\ Last(<<c, d>>) = d
         /\ Front(<<c>>) = <<>> /\ Front(<<c, d>>) = <<c>>
<1>1. Frames(<<>>) = {} /\ Frames(<<c>>) = {c}
  BY DEF Frames
<1>2. Frames(<<c, d>>) = {c, d}
  <2> DEFINE st == <<c, d>>
  <2>1. DOMAIN st = {1, 2} /\ st[1] = c /\ st[2] = d
    OBVIOUS
  <2> HIDE DEF st
  <2>2. Frames(st) = {c, d}
    BY <2>1 DEF Frames
  <2> QED
    BY <2>2 DEF st
<1>3. Append(<<>>, c) = <<c>> /\ Append(<<c>>, d) = <<c, d>>
  <2>1. Append(<<>>, c) = <<c>>
    OBVIOUS
  <2> DEFINE p == Append(<<c>>, d)
             q == <<c, d>>
  <2>2. p \in Seq({c, d}) /\ Len(p) = 2 /\ p[1] = c /\ p[2] = d
    OBVIOUS
  <2>3. q \in Seq({c, d}) /\ Len(q) = 2 /\ q[1] = c /\ q[2] = d
    OBVIOUS
  <2> HIDE DEF p, q
  <2>4. \A i \in 1 .. 2 : p[i] = q[i]
    BY <2>2, <2>3
  <2>5. p = q
    BY <2>2, <2>3, <2>4, SeqEqual
  <2> QED
    BY <2>1, <2>5 DEF p, q
<1>4. Last(<<c>>) = c /\ Last(<<c, d>>) = d
  BY DEF Last
<1>5. Front(<<c>>) = <<>>
  BY DEF Front
<1>6. Front(<<c, d>>) = <<c>>
  <2> DEFINE s == <<c, d>>
             p == Front(s)
             q == <<c>>
  <2>1. s \in Seq({c, d}) /\ Len(s) = 2 /\ s[1] = c
    OBVIOUS
  <2> HIDE DEF s
  <2>2. p \in Seq({c, d}) /\ Len(p) = 1 /\ p[1] = c
    BY <2>1 DEF Front
  <2>3. q \in Seq({c, d}) /\ Len(q) = 1 /\ q[1] = c
    OBVIOUS
  <2> HIDE DEF p, q
  <2>4. \A i \in 1 .. 1 : p[i] = q[i]
    BY <2>2, <2>3
  <2>5. p = q
    BY <2>2, <2>3, <2>4, SeqEqual
  <2> QED
    BY <2>5 DEF p, q, s
<1> QED
  BY <1>1, <1>2, <1>3, <1>4, <1>5, <1>6

LEMMA FrameIs == \A fn, n, a : Frame(fn, n, a).fn = fn /\ Frame(fn, n, a).n = n /\ Frame(fn, n, a).args = a
BY DEF Frame

\* What the truth makes of a call and of a return.
LEMMA ReallyCalls ==
  ASSUME NEW s, IsCalls(s), NEW t \in Observed, NEW fn \in Fns, NEW a, NEW v, NEW u, NEW e,
         e = Call(t, fn, a, v, u), NEW n, n = s.numbers[t][Class(fn)] + 1, NEW s1, s1 = Really(s, e)
  PROVE  /\ IsCalls(s1) /\ n \in Nat
         /\ Moved(s, s1, t, Append(s.stack[t], Frame(fn, n, a)))
         /\ s1.told = Append(s.told, Record(e, Frame(fn, n, a)))
         /\ s1.numbers[t].ioctl = IF fn = "ioctl" THEN n ELSE s.numbers[t].ioctl
         /\ s1.numbers[t].operation = IF fn = "ioctl" THEN s.numbers[t].operation ELSE n
<1>1. e.t = t /\ e.fn = fn /\ e.kind = "call" /\ e.args = a /\ t # "other" /\ t \in Threads
  BY EventFields DEF Observed, Threads
<1>2. /\ s.numbers[t] \in [ioctl : Nat, operation : Nat] /\ Class(fn) \in {"ioctl", "operation"}
      /\ fn = "ioctl" <=> Class(fn) = "ioctl"
  BY <1>1 DEF IsCalls, Class
<1>3. n \in Nat
  BY <1>2
<1> DEFINE c == Frame(fn, n, a)
           st == Append(s.stack[t], c)
           k == Class(fn)
<1>4. /\ s1.stack = [s.stack EXCEPT ![t] = Append(@, c)]
      /\ s1.numbers = [s.numbers EXCEPT ![t][k] = n]
      /\ s1.told = Append(s.told, Record(e, c)) /\ DOMAIN s1 = {"stack", "numbers", "told"}
  BY <1>1 DEF Really, Frame
<1> HIDE DEF c, k
<1>5. /\ DOMAIN s1.stack = Threads /\ s1.stack[t] = Append(s.stack[t], c)
      /\ \A j \in Threads : j # t => s1.stack[j] = s.stack[j]
  BY <1>1, <1>4 DEF IsCalls
<1>6. k \in {"ioctl", "operation"} /\ (fn = "ioctl" <=> k = "ioctl")
  BY <1>2 DEF k
<1> DEFINE w == [s.numbers[t] EXCEPT ![k] = n]
<1>7. w \in [ioctl : Nat, operation : Nat]
  BY <1>2, <1>3, <1>6
<1>8. /\ w.ioctl = IF k = "ioctl" THEN n ELSE s.numbers[t].ioctl
      /\ w.operation = IF k = "ioctl" THEN s.numbers[t].operation ELSE n
  BY <1>2, <1>6
<1>9. s1.numbers = [s.numbers EXCEPT ![t] = w]
  BY <1>4
<1> HIDE DEF w
<1>10. /\ s1.numbers \in [Threads -> [ioctl : Nat, operation : Nat]] /\ s1.numbers[t] = w
       /\ \A j \in Threads : j # t => s1.numbers[j] = s.numbers[j]
  BY <1>1, <1>7, <1>9 DEF IsCalls
<1> QED
  BY <1>3, <1>4, <1>5, <1>6, <1>8, <1>10 DEF IsCalls, Moved, c

LEMMA ReallyReturns ==
  ASSUME NEW s, IsCalls(s), NEW t \in Observed, NEW fn, NEW a, NEW v, NEW r, NEW u, NEW e,
         e = Ret(t, fn, a, v, r, u), NEW s1, s1 = Really(s, e)
  PROVE  /\ IsCalls(s1)
         /\ Moved(s, s1, t, Front(s.stack[t]))
         /\ s1.told = Append(s.told, Record(e, Last(s.stack[t])))
         /\ s1.numbers = s.numbers
<1>1. e.t = t /\ e.fn = fn /\ e.kind = "return" /\ t # "other" /\ t \in Threads
  BY EventFields DEF Observed, Threads
<1>2. /\ s1.stack = [s.stack EXCEPT ![t] = Front(@)]
      /\ s1.numbers = s.numbers
      /\ s1.told = Append(s.told, Record(e, Last(s.stack[t]))) /\ DOMAIN s1 = {"stack", "numbers", "told"}
  BY <1>1 DEF Really
<1>3. /\ DOMAIN s1.stack = Threads /\ s1.stack[t] = Front(s.stack[t])
      /\ \A j \in Threads : j # t => s1.stack[j] = s.stack[j]
  BY <1>1, <1>2 DEF IsCalls
<1> QED
  BY <1>2, <1>3 DEF IsCalls, Moved

\* The other threads are seen as before.
LEMMA OthersSeen ==
  ASSUME NEW b, NEW u, NEW s, NEW s1, NEW t \in Observed, NEW st, SeesAll(b, s), Spares(b, u, t),
         Moved(s, s1, t, st),
         Sees(u, t, Frames(st), s1.numbers[t].ioctl, s1.numbers[t].operation)
  PROVE  SeesAll(u, s1)
<1>1. Here(u, "active_ioctl", "other") = {}
  BY DEF SeesAll, Spares, VirtioMaps, Observed
<1>2. ASSUME NEW j \in Observed
      PROVE  Sees(u, j, Frames(s1.stack[j]), s1.numbers[j].ioctl, s1.numbers[j].operation)
  <2>1. CASE j = t
    BY <2>1 DEF Moved
  <2>2. CASE j # t
    <3>1. j \in Threads
      BY DEF Observed, Threads
    <3>2. s1.stack[j] = s.stack[j] /\ s1.numbers[j] = s.numbers[j]
      BY <2>2, <3>1 DEF Moved
    <3> DEFINE F == Frames(s.stack[j])
               ni == s.numbers[j].ioctl
               no == s.numbers[j].operation
    <3>3. Sees(b, j, F, ni, no)
      BY DEF SeesAll
    <3>4. \A m \in VirtioMaps : Here(u, m, j) = Here(b, m, j)
      BY <2>2 DEF Spares
    <3> HIDE DEF F, ni, no
    <3>5. Sees(u, j, F, ni, no)
      <4>1. "ioctl_counters" \in VirtioMaps /\ "operation_counters" \in VirtioMaps
        BY DEF VirtioMaps
      <4>2. \A fn \in Fns : Here(u, ActiveMap[fn], j) = Here(b, ActiveMap[fn], j)
        BY <3>4, MapNames
      <4>3. \A fn \in Fns : Here(u, ActiveMap[fn], j) = {Saved(f) : f \in {g \in F : g.fn = fn}}
        BY <3>3, <4>2 DEF Sees
      <4> QED
        BY <3>3, <3>4, <4>1, <4>3 DEF Sees, Tally
    <3> QED
      BY <3>2, <3>5 DEF F, ni, no
  <2> QED
    BY <2>1, <2>2
<1> QED
  BY <1>1, <1>2 DEF SeesAll

\* A call of a function the thread is not in.
LEMMA CallAgrees ==
  ASSUME NEW b, NEW s, Agrees(b, s), NEW t \in Observed, NEW fn, NEW a, NEW v, NEW u, GoodCall(fn, a, v, u),
         NEW e, e = Call(t, fn, a, v, u), NEW st, s.stack[t] = st, \A g \in Frames(st) : g.fn # fn,
         \A c : Frames(Append(st, c)) = Frames(st) \cup {c}
  PROVE  /\ Agrees(Hook(b, e), Really(s, e))
         /\ \E n : Moved(s, Really(s, e), t, Append(st, Frame(fn, n, a)))
<1> DEFINE n == s.numbers[t][Class(fn)] + 1
           id == Bump(b, CountMap(fn), t)
           y == Hook(b, e)
           s1 == Really(s, e)
           c == Frame(fn, n, a)
           ni == s.numbers[t].ioctl
           no == s.numbers[t].operation
<1>0. IsVirtio(b) /\ IsCalls(s) /\ fn \in Fns
  BY DEF Agrees, GoodCall
<1>1. /\ IsCalls(s1) /\ n \in Nat
      /\ Moved(s, s1, t, Append(st, c))
      /\ s1.told = Append(s.told, Record(e, c))
      /\ s1.numbers[t].ioctl = IF fn = "ioctl" THEN n ELSE ni
      /\ s1.numbers[t].operation = IF fn = "ioctl" THEN no ELSE n
  BY <1>0, ReallyCalls
<1>2. y = Entering(b, t, fn, id, Saved(Frame(fn, id, a)).args, Record(e, Frame(fn, id, a)))
  BY HookCalls
<1>3. Entered(b, y, t, fn, id, Saved(Frame(fn, id, a)).args, Record(e, Frame(fn, id, a)))
  BY <1>0, <1>2, EnteringMaps
<1>4. n = (IF fn = "ioctl" THEN ni ELSE no) + 1
  BY DEF Class
<1> HIDE DEF y, s1, n, id
<1>5. ASSUME ~y.lost PROVE y.out = s1.told /\ SeesAll(y, s1)
  <2>1. ~b.lost /\ Spares(b, y, t) /\ SeesAll(b, s) /\ b.out = s.told
    BY <1>3, <1>5 DEF Entered, Agrees
  <2>2. Sees(b, t, Frames(st), ni, no)
    BY <2>1 DEF SeesAll
  <2> HIDE DEF ni, no
  <2>3. id = n
    <3>1. Tally(b, CountMap(fn), t, IF fn = "ioctl" THEN ni ELSE no)
      BY <2>2 DEF Sees, CountMap
    <3> QED
      BY <1>4, <3>1, TallyIs DEF id
  <2>4. /\ Here(y, CountMap(fn), t) = {n}
        /\ Here(y, ActiveMap[fn], t) = {[id |-> n, args |-> Saved(c).args]}
        /\ \A m \in VirtioMaps : m \notin {CountMap(fn), ActiveMap[fn]} => Here(y, m, t) = Here(b, m, t)
        /\ y.out = Append(b.out, Record(e, c))
    BY <1>3, <1>5, <2>3 DEF Entered
  <2>5. [id |-> n, args |-> Saved(c).args] = Saved(c) /\ c.fn = fn
    BY DEF Saved, Frame
  <2> HIDE DEF c
  <2>6. ASSUME NEW gn \in Fns
        PROVE  Here(y, ActiveMap[gn], t) = {Saved(f) : f \in {g \in Frames(st) \cup {c} : g.fn = gn}}
    <3>1. {Saved(f) : f \in {g \in Frames(st) \cup {c} : g.fn = gn}} =
            IF gn = c.fn THEN {Saved(c)} ELSE {Saved(f) : f \in {g \in Frames(st) : g.fn = gn}}
      BY <1>0, <2>5, OneMore
    <3>2. CASE gn = fn
      BY <2>4, <2>5, <3>1, <3>2
    <3>3. CASE gn # fn
      <4>1. ActiveMap[gn] \in VirtioMaps /\ ActiveMap[gn] \notin {CountMap(fn), ActiveMap[fn]}
        BY <1>0, <3>3, MapNames DEF CountMap
      <4>2. Here(y, ActiveMap[gn], t) = Here(b, ActiveMap[gn], t)
        BY <2>4, <4>1
      <4>3. Here(b, ActiveMap[gn], t) = {Saved(f) : f \in {g \in Frames(st) : g.fn = gn}}
        BY <2>2 DEF Sees
      <4> QED
        BY <2>5, <3>1, <3>3, <4>2, <4>3
    <3> QED
      BY <3>2, <3>3
  <2>7. /\ Tally(y, "ioctl_counters", t, s1.numbers[t].ioctl)
        /\ Tally(y, "operation_counters", t, s1.numbers[t].operation)
    <3>1. /\ "ioctl_counters" \in VirtioMaps /\ "operation_counters" \in VirtioMaps
          /\ ActiveMap[fn] \notin {"ioctl_counters", "operation_counters"}
      BY <1>0, MapNames DEF VirtioMaps
    <3>2. CASE fn = "ioctl"
      <4>1. CountMap(fn) = "ioctl_counters"
        BY <3>2 DEF CountMap
      <4>2. Here(y, "operation_counters", t) = Here(b, "operation_counters", t)
        BY <2>4, <3>1, <4>1
      <4> QED
        BY <1>1, <2>2, <2>4, <3>2, <4>1, <4>2 DEF Sees, Tally
    <3>3. CASE fn # "ioctl"
      <4>1. CountMap(fn) = "operation_counters"
        BY <3>3 DEF CountMap
      <4>2. Here(y, "ioctl_counters", t) = Here(b, "ioctl_counters", t)
        BY <2>4, <3>1, <4>1
      <4> QED
        BY <1>1, <2>2, <2>4, <3>3, <4>1, <4>2 DEF Sees, Tally
    <3> QED
      BY <3>2, <3>3
  <2>8. Frames(Append(st, c)) = Frames(st) \cup {c}
    OBVIOUS
  <2>9. Sees(y, t, Frames(Append(st, c)), s1.numbers[t].ioctl, s1.numbers[t].operation)
    BY <2>6, <2>7, <2>8 DEF Sees
  <2>10. SeesAll(y, s1)
    BY <1>1, <2>1, <2>9, OthersSeen
  <2> QED
    BY <1>1, <2>1, <2>4, <2>10
<1>6. IsVirtio(y)
  BY <1>3 DEF Entered
<1>7. Agrees(y, s1)
  BY <1>1, <1>5, <1>6 DEF Agrees
<1> QED
  BY <1>1, <1>7 DEF y, s1

\* The program at a return does nothing or tells something and drops the entry.
LEMMA ReturnShape ==
  ASSUME NEW b, NEW t, NEW fn \in Fns, NEW a, NEW v, NEW r, NEW u, NEW e, e = Ret(t, fn, a, v, r, u)
  PROVE  Hook(b, e) = b \/ \E y : Hook(b, e) = Leaving(b, t, fn, y)
<1>1. \A m, y, w : \/ Leave(b, t, m, y, w) = b
                   \/ Leave(b, t, m, y, w)
                        = bpf_map_delete_elem(lab_output(b, Numbered(y, w, b[m][t].id)), m, t)
  BY DEF Leave, Numbered
<1>2. CASE fn = "ioctl"
  <2>1. Hook(b, e) = observe_ioctl_exit(b, t, r)
    BY <1>2, HookAtReturn
  <2>2. \/ observe_ioctl_exit(b, t, r) = b
        \/ observe_ioctl_exit(b, t, r) =
             bpf_map_delete_elem(lab_output(b, WithIdResult(t, <<"ioctl", "return">>, b.active_ioctl[t].id,
                                                            b.active_ioctl[t].args, r)), "active_ioctl", t)
    BY DEF observe_ioctl_exit, WithIdResult
  <2> QED
    BY <1>2, <2>1, <2>2, MapNames DEF Leaving
<1>3. CASE fn = "do_mmio"
  <2>1. Hook(b, e) = observe_do_mmio_end(b, t, a, v, r, u)
    BY <1>3, HookAtReturn
  <2> QED
    BY <1>1, <1>3, <2>1, MapNames, ProgramsAre DEF Leaving
<1>4. CASE fn = "process_ioeventfd_kick"
  <2>1. Hook(b, e) = observe_ioeventfd_kick_end(b, t, r, u)
    BY <1>4, HookAtReturn
  <2> QED
    BY <1>1, <1>4, <2>1, MapNames, ProgramsAre DEF Leaving
<1>5. CASE fn = "signal_irqfd_completion"
  <2>1. Hook(b, e) = observe_irqfd_signal_end(b, t, r, u)
    BY <1>5, HookAtReturn
  <2> QED
    BY <1>1, <1>5, <2>1, MapNames, ProgramsAre DEF Leaving
<1>6. CASE fn = "process_queue"
  <2>1. Hook(b, e) = observe_process_queue_end(b, t, r, u)
    BY <1>6, HookAtReturn
  <2>2. \E y : observe_process_queue_end(b, t, r, u) = bpf_map_delete_elem(lab_output(b, y), "active_process", t)
    BY DEF observe_process_queue_end
  <2> QED
    BY <1>6, <2>1, <2>2, MapNames DEF Leaving
<1> QED
  BY <1>2, <1>3, <1>4, <1>5, <1>6 DEF Fns

LEMMA ReturnKeepsLoss ==
  ASSUME NEW b, IsVirtio(b), NEW t, NEW fn \in Fns, NEW a, NEW v, NEW r, NEW u, NEW e,
         e = Ret(t, fn, a, v, r, u)
  PROVE  IsVirtio(Hook(b, e)) /\ (~Hook(b, e).lost => ~b.lost)
<1>1. CASE Hook(b, e) = b
  BY <1>1
<1>2. CASE \E y : Hook(b, e) = Leaving(b, t, fn, y)
  <2>1. PICK y : Hook(b, e) = Leaving(b, t, fn, y)
    BY <1>2
  <2>2. Left(b, Hook(b, e), t, fn, y)
    BY <2>1, LeavingMaps
  <2> QED
    BY <2>2 DEF Left
<1> QED
  BY <1>1, <1>2, ReturnShape

\* The return of the innermost call.
LEMMA ReturnAgrees ==
  ASSUME NEW b, NEW s, Agrees(b, s), NEW t \in Observed, NEW fn, NEW a, NEW v, NEW r, NEW u, NEW f,
         GoodReturn(fn, a, v, u, f), NEW e, e = Ret(t, fn, a, v, r, u),
         NEW st, Last(s.stack[t]) = f, Front(s.stack[t]) = st, \A g \in Frames(st) : g.fn # fn,
         Frames(s.stack[t]) = Frames(st) \cup {f}
  PROVE  /\ Agrees(Hook(b, e), Really(s, e))
         /\ Moved(s, Really(s, e), t, st)
<1> DEFINE y == Hook(b, e)
           s1 == Really(s, e)
           ni == s.numbers[t].ioctl
           no == s.numbers[t].operation
<1>0. IsVirtio(b) /\ IsCalls(s) /\ fn \in Fns /\ f.fn = fn
  BY DEF Agrees, GoodReturn
<1>1. IsCalls(s1) /\ Moved(s, s1, t, st) /\ s1.told = Append(s.told, Record(e, f)) /\ s1.numbers = s.numbers
  BY <1>0, ReallyReturns
<1>2. IsVirtio(y) /\ (~y.lost => ~b.lost)
  BY <1>0, ReturnKeepsLoss
<1>3. ASSUME ~y.lost PROVE y.out = s1.told /\ SeesAll(y, s1)
  <2>1. ~b.lost /\ SeesAll(b, s) /\ b.out = s.told
    BY <1>2, <1>3 DEF Agrees
  <2>2. Sees(b, t, Frames(st) \cup {f}, ni, no)
    BY <2>1 DEF SeesAll
  <2> HIDE DEF ni, no
  <2>3. Here(b, ActiveMap[fn], t) = {Saved(f)}
    <3>1. {Saved(h) : h \in {g \in Frames(st) \cup {f} : g.fn = fn}} = {Saved(f)}
      BY <1>0
    <3> QED
      BY <1>0, <2>2, <3>1 DEF Sees
  <2>4. y = Leaving(b, t, fn, Record(e, f))
    BY <2>3, HookReturns
  <2>5. Left(b, y, t, fn, Record(e, f))
    BY <1>0, <2>4, LeavingMaps
  <2> HIDE DEF y, s1
  <2>6. /\ Spares(b, y, t) /\ y.out = Append(b.out, Record(e, f))
        /\ Here(y, ActiveMap[fn], t) = {}
        /\ \A m \in VirtioMaps : m # ActiveMap[fn] => Here(y, m, t) = Here(b, m, t)
    BY <1>3, <2>5 DEF Left
  <2>7. ASSUME NEW gn \in Fns
        PROVE  Here(y, ActiveMap[gn], t) = {Saved(h) : h \in {g \in Frames(st) : g.fn = gn}}
    <3>1. {Saved(h) : h \in {g \in Frames(st) : g.fn = gn}} =
            IF gn = f.fn THEN {} ELSE {Saved(h) : h \in {g \in Frames(st) \cup {f} : g.fn = gn}}
      BY <1>0, OneLess
    <3>2. CASE gn = fn
      BY <1>0, <2>6, <3>1, <3>2
    <3>3. CASE gn # fn
      <4>1. ActiveMap[gn] \in VirtioMaps /\ ActiveMap[gn] # ActiveMap[fn]
        BY <1>0, <3>3, MapNames
      <4>2. Here(y, ActiveMap[gn], t) = Here(b, ActiveMap[gn], t)
        BY <2>6, <4>1
      <4>3. Here(b, ActiveMap[gn], t) = {Saved(h) : h \in {g \in Frames(st) \cup {f} : g.fn = gn}}
        BY <2>2 DEF Sees
      <4> QED
        BY <1>0, <3>1, <3>3, <4>2, <4>3
    <3> QED
      BY <3>2, <3>3
  <2>8. Tally(y, "ioctl_counters", t, ni) /\ Tally(y, "operation_counters", t, no)
    <3>1. /\ "ioctl_counters" \in VirtioMaps /\ "operation_counters" \in VirtioMaps
          /\ ActiveMap[fn] \notin {"ioctl_counters", "operation_counters"}
      BY <1>0, MapNames DEF VirtioMaps
    <3> QED
      BY <2>2, <2>6, <3>1 DEF Sees, Tally
  <2>9. Sees(y, t, Frames(st), s1.numbers[t].ioctl, s1.numbers[t].operation)
    BY <1>1, <2>7, <2>8 DEF Sees, ni, no
  <2>10. SeesAll(y, s1)
    BY <1>1, <2>1, <2>6, <2>9, OthersSeen
  <2> QED
    BY <1>1, <2>1, <2>6, <2>10
<1> QED
  BY <1>1, <1>2, <1>3 DEF Agrees

-----------------------------------------------------------------------------
\* Where a thread is, without the numbers: the functions it is in and their arguments.
InCalls(st, o) ==
  \/ o = <<>> /\ st = <<>>
  \/ \E x, n : o = <<x>> /\ st = <<Frame(x[1], n, x[2])>>
  \/ \E x, y, n, m : o = <<x, y>> /\ st = <<Frame(x[1], n, x[2]), Frame(y[1], m, y[2])>>

\* Event e takes a thread from o to o1.
LegalCall(o, e, o1) ==
  \E fn, a, v, u :
    /\ e = Call(e.t, fn, a, v, u) /\ GoodCall(fn, a, v, u)
    /\ \/ o = <<>> /\ o1 = <<<<fn, a>>>>
       \/ \E x : o = <<x>> /\ o1 = <<x, <<fn, a>>>> /\ x[1] # fn

LegalReturn(o, e, o1) ==
  \E fn, a, v, r, u, c :
    /\ e = Ret(e.t, fn, a, v, r, u) /\ GoodReturn(fn, a, v, u, Frame(fn, 0, c))
    /\ \/ o1 = <<>> /\ o = <<<<fn, c>>>>
       \/ \E x : o1 = <<x>> /\ o = <<x, <<fn, c>>>> /\ x[1] # fn

Legal(o, e, o1) == LegalCall(o, e, o1) \/ LegalReturn(o, e, o1)

\* Only thread t has moved, to o.
Goes(s, s1, t, o) == \E st : InCalls(st, o) /\ Moved(s, s1, t, st)

LEMMA ShortTuples ==
  /\ \A x : <<x>> # <<>>
  /\ \A x, y : <<x, y>> # <<>>
  /\ \A x, y, z : <<x>> # <<y, z>>
  /\ \A x, y : <<x>> = <<y>> => x = y
  /\ \A x, y, z, w : <<x, y>> = <<z, w>> => x = z /\ y = w
<1>1. /\ \A x : Len(<<x>>) = 1 /\ <<x>>[1] = x
      /\ \A x, y : Len(<<x, y>>) = 2 /\ <<x, y>>[1] = x /\ <<x, y>>[2] = y
      /\ Len(<<>>) = 0
  OBVIOUS
<1>2. \A x : <<x>> # <<>>
  BY <1>1
<1>3. \A x, y : <<x, y>> # <<>>
  BY <1>1
<1>4. \A x, y, z : <<x>> # <<y, z>>
  BY <1>1
<1>5. \A x, y : <<x>> = <<y>> => x = y
  BY <1>1
<1>6. \A x, y, z, w : <<x, y>> = <<z, w>> => x = z /\ y = w
  BY <1>1
<1> QED
  BY <1>2, <1>3, <1>4, <1>5, <1>6

LEMMA PlaceOf ==
  ASSUME NEW st
  PROVE  /\ InCalls(st, <<>>) <=> st = <<>>
         /\ \A x : InCalls(st, <<x>>) <=> \E n : st = <<Frame(x[1], n, x[2])>>
         /\ \A x, y : InCalls(st, <<x, y>>) <=>
              \E n, m : st = <<Frame(x[1], n, x[2]), Frame(y[1], m, y[2])>>
<1>1. InCalls(st, <<>>) <=> st = <<>>
  BY ShortTuples, Zenon DEF InCalls
<1>2. ASSUME NEW x
      PROVE  InCalls(st, <<x>>) <=> \E n : st = <<Frame(x[1], n, x[2])>>
  BY ShortTuples, Zenon DEF InCalls
<1>3. ASSUME NEW x, NEW y
      PROVE  InCalls(st, <<x, y>>) <=> \E n, m : st = <<Frame(x[1], n, x[2]), Frame(y[1], m, y[2])>>
  BY ShortTuples, Zenon DEF InCalls
<1> QED
  BY <1>1, <1>2, <1>3

\* The same, with the innermost function by its name and arguments.
LEMMA PlaceOfOne ==
  ASSUME NEW st, NEW fn, NEW a
  PROVE  InCalls(st, <<<<fn, a>>>>) <=> \E n : st = <<Frame(fn, n, a)>>
<1> DEFINE x == <<fn, a>>
<1>1. x[1] = fn /\ x[2] = a
  OBVIOUS
<1> HIDE DEF x
<1>2. InCalls(st, <<x>>) <=> \E n : st = <<Frame(x[1], n, x[2])>>
  BY PlaceOf
<1>3. InCalls(st, <<x>>) <=> \E n : st = <<Frame(fn, n, a)>>
  BY <1>1, <1>2
<1> QED
  BY <1>3 DEF x

LEMMA PlaceOfTwo ==
  ASSUME NEW st, NEW x, NEW fn, NEW a
  PROVE  InCalls(st, <<x, <<fn, a>>>>) <=> \E n, m : st = <<Frame(x[1], n, x[2]), Frame(fn, m, a)>>
<1> DEFINE y == <<fn, a>>
<1>1. y[1] = fn /\ y[2] = a
  OBVIOUS
<1> HIDE DEF y
<1>2. InCalls(st, <<x, y>>) <=> \E n, m : st = <<Frame(x[1], n, x[2]), Frame(y[1], m, y[2])>>
  BY PlaceOf
<1>3. InCalls(st, <<x, y>>) <=> \E n, m : st = <<Frame(x[1], n, x[2]), Frame(fn, m, a)>>
  BY <1>1, <1>2
<1> QED
  BY <1>3 DEF y

\* A legal event of an observed thread keeps the maps and the truth together.
LEMMA EventAgrees ==
  ASSUME NEW b, NEW s, Agrees(b, s), NEW e, NEW t \in Observed, e.t = t, NEW o, NEW o1,
         InCalls(s.stack[t], o), Legal(o, e, o1)
  PROVE  Agrees(Hook(b, e), Really(s, e)) /\ Goes(s, Really(s, e), t, o1)
<1> DEFINE st == s.stack[t]
<1>1. CASE LegalCall(o, e, o1)
  <2>1. PICK fn, a, v, u :
          /\ e = Call(t, fn, a, v, u) /\ GoodCall(fn, a, v, u)
          /\ \/ o = <<>> /\ o1 = <<<<fn, a>>>>
             \/ \E x : o = <<x>> /\ o1 = <<x, <<fn, a>>>> /\ x[1] # fn
    BY <1>1 DEF LegalCall
  <2>2. ASSUME \A g \in Frames(st) : g.fn # fn, \A c : Frames(Append(st, c)) = Frames(st) \cup {c}
        PROVE  /\ Agrees(Hook(b, e), Really(s, e))
               /\ \E n : Moved(s, Really(s, e), t, Append(st, Frame(fn, n, a)))
    BY <2>1, <2>2, CallAgrees
  <2>3. CASE o = <<>> /\ o1 = <<<<fn, a>>>>
    <3>1. st = <<>>
      BY <2>3, PlaceOf
    <3> HIDE DEF st
    <3>2. /\ \A g \in Frames(st) : g.fn # fn
          /\ \A c : Frames(Append(st, c)) = Frames(st) \cup {c}
          /\ \A c : Append(st, c) = <<c>>
      <4>1. Frames(st) = {}
        BY <3>1, Stacks
      <4>2. \A c : Append(st, c) = <<c>>
        BY <3>1, Stacks
      <4>3. \A c : Frames(<<c>>) = {c}
        BY Stacks
      <4>4. \A g \in Frames(st) : g.fn # fn
        BY <4>1
      <4>5. \A c : Frames(Append(st, c)) = Frames(st) \cup {c}
        BY <4>1, <4>2, <4>3
      <4> QED
        BY <4>2, <4>4, <4>5
    <3>3. PICK n : Moved(s, Really(s, e), t, <<Frame(fn, n, a)>>)
      BY <2>2, <3>2
    <3>4. InCalls(<<Frame(fn, n, a)>>, o1)
      BY <2>3, PlaceOfOne
    <3> QED
      BY <2>2, <3>2, <3>3, <3>4 DEF Goes
  <2>4. CASE \E x : o = <<x>> /\ o1 = <<x, <<fn, a>>>> /\ x[1] # fn
    <3>1. PICK x : o = <<x>> /\ o1 = <<x, <<fn, a>>>> /\ x[1] # fn
      BY <2>4
    <3>2. PICK n : st = <<Frame(x[1], n, x[2])>>
      BY <3>1, PlaceOf
    <3> DEFINE c == Frame(x[1], n, x[2])
    <3>3. c.fn = x[1] /\ st = <<c>>
      BY <3>2, FrameIs
    <3> HIDE DEF c, st
    <3>4. /\ \A g \in Frames(st) : g.fn # fn
          /\ \A d : Frames(Append(st, d)) = Frames(st) \cup {d}
          /\ \A d : Append(st, d) = <<c, d>>
      <4>1. Frames(st) = {c}
        BY <3>3, Stacks
      <4>2. \A d : Append(st, d) = <<c, d>>
        BY <3>3, Stacks
      <4>3. \A d : Frames(<<c, d>>) = {c, d}
        BY Stacks
      <4>4. c.fn # fn
        BY <3>1, <3>3
      <4>5. \A g \in Frames(st) : g.fn # fn
        BY <4>1, <4>4
      <4>6. \A d : {c, d} = {c} \cup {d}
        OBVIOUS
      <4>7. \A d : Frames(Append(st, d)) = Frames(st) \cup {d}
        BY <4>1, <4>2, <4>3, <4>6
      <4> QED
        BY <4>2, <4>5, <4>7
    <3>5. PICK m : Moved(s, Really(s, e), t, <<c, Frame(fn, m, a)>>)
      BY <2>2, <3>4
    <3>6. InCalls(<<c, Frame(fn, m, a)>>, o1)
      BY <3>1, PlaceOfTwo DEF c
    <3> QED
      BY <2>2, <3>4, <3>5, <3>6 DEF Goes
  <2> QED
    BY <2>1, <2>3, <2>4
<1>2. CASE LegalReturn(o, e, o1)
  <2>1. PICK fn, a, v, r, u, k :
          /\ e = Ret(t, fn, a, v, r, u) /\ GoodReturn(fn, a, v, u, Frame(fn, 0, k))
          /\ \/ o1 = <<>> /\ o = <<<<fn, k>>>>
             \/ \E x : o1 = <<x>> /\ o = <<x, <<fn, k>>>> /\ x[1] # fn
    BY <1>2 DEF LegalReturn
  <2>2. \A n : GoodReturn(fn, a, v, u, Frame(fn, n, k)) /\ Frame(fn, n, k).fn = fn
    BY <2>1, FrameIs DEF GoodReturn
  <2>3. CASE o1 = <<>> /\ o = <<<<fn, k>>>>
    <3>0. InCalls(st, <<<<fn, k>>>>)
      BY <2>3
    <3>1. PICK n : st = <<Frame(fn, n, k)>>
      BY <3>0, PlaceOfOne
    <3> DEFINE f == Frame(fn, n, k)
    <3>2. GoodReturn(fn, a, v, u, f) /\ st = <<f>>
      BY <2>2, <3>1
    <3> HIDE DEF f
    <3>3. Last(st) = f /\ Front(st) = <<>> /\ Frames(<<>>) = {} /\ Frames(st) = Frames(<<>>) \cup {f}
      BY <3>2, Stacks
    <3>4. Agrees(Hook(b, e), Really(s, e)) /\ Moved(s, Really(s, e), t, <<>>)
      BY <2>1, <3>2, <3>3, ReturnAgrees
    <3>5. InCalls(<<>>, o1)
      BY <2>3, PlaceOf
    <3> QED
      BY <3>4, <3>5 DEF Goes
  <2>4. CASE \E x : o1 = <<x>> /\ o = <<x, <<fn, k>>>> /\ x[1] # fn
    <3>1. PICK x : o1 = <<x>> /\ o = <<x, <<fn, k>>>> /\ x[1] # fn
      BY <2>4
    <3>0. InCalls(st, <<x, <<fn, k>>>>)
      BY <3>1
    <3>2. PICK n, m : st = <<Frame(x[1], n, x[2]), Frame(fn, m, k)>>
      BY <3>0, PlaceOfTwo
    <3> DEFINE c == Frame(x[1], n, x[2])
               f == Frame(fn, m, k)
    <3>3. GoodReturn(fn, a, v, u, f) /\ st = <<c, f>> /\ c.fn = x[1]
      BY <2>2, <3>2, FrameIs
    <3> HIDE DEF c, f
    <3>4. /\ Last(st) = f /\ Front(st) = <<c>> /\ Frames(<<c>>) = {c} /\ Frames(st) = Frames(<<c>>) \cup {f}
          /\ \A g \in Frames(<<c>>) : g.fn # fn
      BY <3>1, <3>3, Stacks
    <3>5. Agrees(Hook(b, e), Really(s, e)) /\ Moved(s, Really(s, e), t, <<c>>)
      BY <2>1, <3>3, <3>4, ReturnAgrees
    <3>6. InCalls(<<c>>, o1)
      BY <3>1, PlaceOf DEF c
    <3> QED
      BY <3>5, <3>6 DEF Goes
  <2> QED
    BY <2>1, <2>3, <2>4
<1> QED
  BY <1>1, <1>2 DEF Legal

\* The ioctl(2) calls of other programs: nothing is told.
LEMMA OtherAgrees ==
  ASSUME NEW b, NEW s, Agrees(b, s), NEW e, e.t = "other",
         \/ \E a : e = Call("other", "ioctl", a, None, <<>>)
         \/ \E r : e = Ret("other", "ioctl", <<>>, None, r, <<>>)
  PROVE  /\ Agrees(Hook(b, e), Really(s, e))
         /\ \A j \in Observed : /\ Really(s, e).stack[j] = s.stack[j]
                                /\ Really(s, e).numbers[j] = s.numbers[j]
<1> DEFINE y == Hook(b, e)
           s1 == Really(s, e)
           O == "other"
<1>0. IsVirtio(b) /\ IsCalls(s) /\ "other" \in Threads /\ "other" \notin Observed /\ Observed \subseteq Threads
      /\ "ioctl" \in Fns /\ "active_ioctl" \in VirtioMaps
  BY DEF Agrees, Threads, Observed, Fns, VirtioMaps
<1>1. /\ IsCalls(s1) /\ s1.told = s.told
      /\ \A j \in Observed : s1.stack[j] = s.stack[j] /\ s1.numbers[j] = s.numbers[j]
  <2>1. CASE \E a : e = Call("other", "ioctl", a, None, <<>>)
    <3>1. e.fn = "ioctl" /\ e.kind = "call"
      BY <2>1, EventFields
    <3> DEFINE n == s.numbers["other"].ioctl + 1
               w == [s.numbers["other"] EXCEPT !.ioctl = n]
    <3>2. /\ DOMAIN s1 = {"stack", "numbers", "told"} /\ s1.told = s.told
          /\ \E z : s1.stack = [s.stack EXCEPT !["other"] = z]
          /\ s1.numbers = [s.numbers EXCEPT !["other"] = w]
      BY <3>1 DEF Really, Class
    <3>3. w \in [ioctl : Nat, operation : Nat]
      BY <1>0 DEF IsCalls
    <3> HIDE DEF w, s1
    <3>4. /\ s1.numbers \in [Threads -> [ioctl : Nat, operation : Nat]]
          /\ \A j \in Observed : s1.numbers[j] = s.numbers[j]
      BY <1>0, <3>2, <3>3 DEF IsCalls
    <3>5. DOMAIN s1.stack = Threads /\ \A j \in Observed : s1.stack[j] = s.stack[j]
      BY <1>0, <3>2 DEF IsCalls
    <3> QED
      BY <3>2, <3>4, <3>5 DEF IsCalls
  <2>2. CASE \E r : e = Ret("other", "ioctl", <<>>, None, r, <<>>)
    <3>1. e.fn = "ioctl" /\ e.kind = "return"
      BY <2>2, EventFields
    <3>2. /\ DOMAIN s1 = {"stack", "numbers", "told"} /\ s1.told = s.told
          /\ \E z : s1.stack = [s.stack EXCEPT !["other"] = z]
          /\ s1.numbers = s.numbers
      BY <3>1 DEF Really, Class
    <3> HIDE DEF s1
    <3>3. DOMAIN s1.stack = Threads /\ \A j \in Observed : s1.stack[j] = s.stack[j]
      BY <1>0, <3>2 DEF IsCalls
    <3> QED
      BY <1>0, <3>2, <3>3 DEF IsCalls
  <2> QED
    BY <2>1, <2>2
<1>2. IsVirtio(y) /\ (~y.lost => y = b)
  <2>1. CASE \E a : e = Call("other", "ioctl", a, None, <<>>)
    <3>1. PICK a : e = Call("other", "ioctl", a, None, <<>>)
      BY <2>1
    <3>2. y = observe_ioctl_enter(b, "other", a)
      BY <1>0, <3>1, HookAtCall
    <3>3. y = b
      BY <3>2 DEF observe_ioctl_enter, is_vmm_comm
    <3> QED
      BY <1>0, <3>3
  <2>2. CASE \E r : e = Ret("other", "ioctl", <<>>, None, r, <<>>)
    <3>1. PICK r : e = Ret("other", "ioctl", <<>>, None, r, <<>>)
      BY <2>2
    <3>2. IsVirtio(y) /\ (~y.lost => ~b.lost)
      BY <1>0, <3>1, ReturnKeepsLoss
    <3>3. y = observe_ioctl_exit(b, "other", r)
      BY <1>0, <3>1, HookAtReturn
    <3>4. ~b.lost => ~Has(b, "active_ioctl", "other")
      BY HereIsGet DEF Agrees, SeesAll
    <3>5. ~b.lost => y = b
      BY <3>3, <3>4 DEF observe_ioctl_exit
    <3> QED
      BY <3>2, <3>5
  <2> QED
    BY <2>1, <2>2
<1> HIDE DEF y, s1
<1>3. Agrees(y, s1)
  BY <1>1, <1>2 DEF Agrees, SeesAll
<1> QED
  BY <1>1, <1>3 DEF y, s1

-----------------------------------------------------------------------------
\* RunHooks() runs the hooks one after the other: s holds the states between them.
InOrder(s, b, es, L) == s[0] = b /\ \A n \in 1 .. L : s[n] = Hook(s[n - 1], es[n])

LEMMA HooksRun ==
  ASSUME NEW b, NEW es, NEW L \in 0 .. 5, Len(es) = L
  PROVE  \E s : InOrder(s, b, es, L) /\ RunHooks(Hook, b, es) = s[L]
<1> DEFINE C(y, e) == CHOOSE x \in {Hook(p, e) : p \in {y}} : TRUE
           F(f) == [n \in 0 .. Len(es) |-> IF n = 0 THEN b ELSE C(f[n - 1], es[n])]
           after == CHOOSE f : f = F(f)
           x1 == Hook(b, es[1])
           x2 == Hook(x1, es[2])
           x3 == Hook(x2, es[3])
           x4 == Hook(x3, es[4])
           x5 == Hook(x4, es[5])
           w == [n \in 0 .. L |-> IF n = 0 THEN b ELSE IF n = 1 THEN x1 ELSE IF n = 2 THEN x2
                                  ELSE IF n = 3 THEN x3 ELSE IF n = 4 THEN x4 ELSE x5]
<1>1. \A y, e : C(y, e) = Hook(y, e)
  OBVIOUS
<1>2. RunHooks(Hook, b, es) = after[L]
  BY DEF RunHooks
<1>3. x1 = Hook(b, es[1]) /\ x2 = Hook(x1, es[2]) /\ x3 = Hook(x2, es[3])
      /\ x4 = Hook(x3, es[4]) /\ x5 = Hook(x4, es[5])
  OBVIOUS
<1> HIDE DEF C, x1, x2, x3, x4, x5
<1>4. \A n \in 1 .. L : w[n] = C(w[n - 1], es[n])
  BY <1>1, <1>3
<1>5. w[0] = b /\ w = [n \in 0 .. L |-> w[n]]
  OBVIOUS
<1> HIDE DEF w
<1>51. \A n \in 0 .. L : w[n] = (IF n = 0 THEN b ELSE C(w[n - 1], es[n]))
  BY <1>4, <1>5
<1>52. F(w) = [n \in 0 .. L |-> IF n = 0 THEN b ELSE C(w[n - 1], es[n])]
  OBVIOUS
<1>53. [n \in 0 .. L |-> w[n]] = [n \in 0 .. L |-> IF n = 0 THEN b ELSE C(w[n - 1], es[n])]
  BY <1>51
<1>6. w = F(w)
  BY <1>5, <1>52, <1>53
<1>7. after = F(after)
  BY <1>6
<1> HIDE DEF after
<1>8. InOrder(after, b, es, L)
  BY <1>1, <1>7 DEF InOrder
<1> QED
  BY <1>2, <1>8

InTruth(s, b, es, L) == s[0] = b /\ \A n \in 1 .. L : s[n] = Really(s[n - 1], es[n])

LEMMA TruthRuns ==
  ASSUME NEW b, NEW es, NEW L \in 0 .. 5, Len(es) = L
  PROVE  \E s : InTruth(s, b, es, L) /\ RunHooks(Really, b, es) = s[L]
<1> DEFINE C(y, e) == CHOOSE x \in {Really(p, e) : p \in {y}} : TRUE
           F(f) == [n \in 0 .. Len(es) |-> IF n = 0 THEN b ELSE C(f[n - 1], es[n])]
           after == CHOOSE f : f = F(f)
           x1 == Really(b, es[1])
           x2 == Really(x1, es[2])
           x3 == Really(x2, es[3])
           x4 == Really(x3, es[4])
           x5 == Really(x4, es[5])
           w == [n \in 0 .. L |-> IF n = 0 THEN b ELSE IF n = 1 THEN x1 ELSE IF n = 2 THEN x2
                                  ELSE IF n = 3 THEN x3 ELSE IF n = 4 THEN x4 ELSE x5]
<1>1. \A y, e : C(y, e) = Really(y, e)
  OBVIOUS
<1>2. RunHooks(Really, b, es) = after[L]
  BY DEF RunHooks
<1>3. x1 = Really(b, es[1]) /\ x2 = Really(x1, es[2]) /\ x3 = Really(x2, es[3])
      /\ x4 = Really(x3, es[4]) /\ x5 = Really(x4, es[5])
  OBVIOUS
<1> HIDE DEF C, x1, x2, x3, x4, x5
<1>4. \A n \in 1 .. L : w[n] = C(w[n - 1], es[n])
  BY <1>1, <1>3
<1>5. w[0] = b /\ w = [n \in 0 .. L |-> w[n]]
  OBVIOUS
<1> HIDE DEF w
<1>51. \A n \in 0 .. L : w[n] = (IF n = 0 THEN b ELSE C(w[n - 1], es[n]))
  BY <1>4, <1>5
<1>52. F(w) = [n \in 0 .. L |-> IF n = 0 THEN b ELSE C(w[n - 1], es[n])]
  OBVIOUS
<1>53. [n \in 0 .. L |-> w[n]] = [n \in 0 .. L |-> IF n = 0 THEN b ELSE C(w[n - 1], es[n])]
  BY <1>51
<1>6. w = F(w)
  BY <1>5, <1>52, <1>53
<1>7. after = F(after)
  BY <1>6
<1> HIDE DEF after
<1>8. InTruth(after, b, es, L)
  BY <1>1, <1>7 DEF InTruth
<1> QED
  BY <1>2, <1>8

LEMMA SplicedTwo ==
  /\ \A e1, e2 : <<e1, e2>> \o <<>> = <<e1, e2>>
  /\ \A e1, e2, e3 : <<e1, e2>> \o <<e3>> = <<e1, e2, e3>>
<1>1. ASSUME NEW e1, NEW e2, NEW e3
      PROVE  <<e1, e2>> \o <<>> = <<e1, e2>> /\ <<e1, e2>> \o <<e3>> = <<e1, e2, e3>>
  <2> DEFINE S == {e1, e2, e3}
             s == <<e1, e2>>
             w == <<e1, e2, e3>>
  <2>1. s \in Seq(S) /\ e3 \in S /\ w = Append(s, e3)
    OBVIOUS
  <2> HIDE DEF S, s, w
  <2>2. s \o <<e3>> = w /\ s \o <<>> = s
    BY <2>1, AppendIsConcat, ConcatEmptySeq
  <2> QED
    BY <2>2 DEF s, w
<1>2. ASSUME NEW e1, NEW e2
      PROVE  <<e1, e2>> \o <<>> = <<e1, e2>>
  BY <1>1, Zenon
<1> QED
  BY <1>1, <1>2, Zenon

-----------------------------------------------------------------------------
\* Where thread t is after some of the events of a step that only it makes.
Walked(b, s, t, o) == Agrees(b, s) /\ Goes(calls, s, t, o)
Ends(t, o) == Agrees(virtio_bpf', calls') /\ Goes(calls, calls', t, o)
Does(t, o, e, o1) == e.t = t /\ Legal(o, e, o1)

Silenced(b) == [b EXCEPT !.out = <<>>]
Unsaid(s) == [s EXCEPT !.told = <<>>]

LEMMA StepBegins ==
  ASSUME Agrees(virtio_bpf, calls)
  PROVE  /\ Agrees(Silenced(virtio_bpf), Unsaid(calls))
         /\ Unsaid(calls).stack = calls.stack /\ Unsaid(calls).numbers = calls.numbers
<1> DEFINE b == Silenced(virtio_bpf)
           s == Unsaid(calls)
<1>1. IsVirtio(virtio_bpf) /\ IsCalls(calls)
  BY DEF Agrees
<1>2. /\ DOMAIN b = DOMAIN virtio_bpf /\ b.out = <<>>
      /\ \A f \in DOMAIN virtio_bpf : f # "out" => b[f] = virtio_bpf[f]
  BY <1>1 DEF IsVirtio, Silenced
<1>3. /\ DOMAIN s = DOMAIN calls /\ s.told = <<>> /\ s.stack = calls.stack
      /\ s.numbers = calls.numbers
  BY <1>1 DEF IsCalls, Unsaid
<1> HIDE DEF b, s
<1>4. IsVirtio(b) /\ b.lost = virtio_bpf.lost
  BY <1>1, <1>2 DEF IsVirtio
<1>5. \A m \in VirtioMaps : \A k : Here(b, m, k) = Here(virtio_bpf, m, k)
  BY <1>1, <1>2, MapNames DEF IsVirtio, Here
<1>6. IsCalls(s)
  BY <1>1, <1>3 DEF IsCalls
<1>7. SeesAll(virtio_bpf, calls) => SeesAll(b, s)
  <2>1. "active_ioctl" \in VirtioMaps /\ "ioctl_counters" \in VirtioMaps
        /\ "operation_counters" \in VirtioMaps /\ \A fn \in Fns : ActiveMap[fn] \in VirtioMaps
    BY MapNames DEF VirtioMaps
  <2> QED
    BY <1>3, <1>5, <2>1 DEF SeesAll, Sees, Tally
<1>8. Agrees(b, s)
  BY <1>2, <1>3, <1>4, <1>6, <1>7 DEF Agrees
<1> QED
  BY <1>3, <1>8 DEF b, s

LEMMA WalkBegins ==
  ASSUME Agrees(virtio_bpf, calls), NEW t, NEW o, InCalls(calls.stack[t], o)
  PROVE  Walked(Silenced(virtio_bpf), Unsaid(calls), t, o)
<1>1. Moved(calls, Unsaid(calls), t, calls.stack[t])
  BY StepBegins DEF Moved
<1> QED
  BY <1>1, StepBegins DEF Walked, Goes

LEMMA NextEvent ==
  ASSUME NEW b, NEW s, NEW t \in Observed, NEW o, NEW e, NEW o1, Walked(b, s, t, o), Does(t, o, e, o1)
  PROVE  Walked(Hook(b, e), Really(s, e), t, o1)
<1>1. PICK st : InCalls(st, o) /\ Moved(calls, s, t, st)
  BY DEF Walked, Goes
<1>2. s.stack[t] = st
  BY <1>1 DEF Moved
<1>3. Agrees(Hook(b, e), Really(s, e)) /\ Goes(s, Really(s, e), t, o1)
  BY <1>1, <1>2, EventAgrees DEF Walked, Does
<1>4. PICK su : InCalls(su, o1) /\ Moved(s, Really(s, e), t, su)
  BY <1>3 DEF Goes
<1>5. Moved(calls, Really(s, e), t, su)
  BY <1>1, <1>4 DEF Moved
<1> QED
  BY <1>3, <1>4, <1>5 DEF Walked, Goes

LEMMA FireIs ==
  ASSUME NEW es, Fire(es)
  PROVE  /\ virtio_bpf' = RunHooks(Hook, Silenced(virtio_bpf), es)
         /\ calls' = RunHooks(Really, Unsaid(calls), es)
BY DEF Fire, Silenced, Unsaid

LEMMA Fires0 ==
  ASSUME Agrees(virtio_bpf, calls), NEW t \in Observed, NEW o0, InCalls(calls.stack[t], o0),
         Fire(<<>>)
  PROVE  Ends(t, o0)
<1> DEFINE es == <<>>
           b0 == Silenced(virtio_bpf)
           s0 == Unsaid(calls)
<1>6. Len(es) = 0
  OBVIOUS
<1>7. virtio_bpf' = RunHooks(Hook, b0, es) /\ calls' = RunHooks(Really, s0, es)
  BY FireIs
<1>8. Walked(b0, s0, t, o0)
  BY WalkBegins
<1> HIDE DEF es, b0, s0
<1>9. PICK u : InOrder(u, b0, es, 0) /\ RunHooks(Hook, b0, es) = u[0]
  BY <1>6, HooksRun
<1>10. PICK w : InTruth(w, s0, es, 0) /\ RunHooks(Really, s0, es) = w[0]
  BY <1>6, TruthRuns
<1>11. u[0] = b0
  BY <1>6, <1>9 DEF InOrder
<1>12. w[0] = s0
  BY <1>6, <1>10 DEF InTruth
<1>0. Walked(u[0], w[0], t, o0)
  BY <1>8, <1>11, <1>12
<1> QED
  BY <1>0, <1>7, <1>9, <1>10 DEF Walked, Ends

LEMMA Fires1 ==
  ASSUME Agrees(virtio_bpf, calls), NEW t \in Observed, NEW o0, InCalls(calls.stack[t], o0),
         NEW e1, NEW o1, Does(t, o0, e1, o1),
         Fire(<<e1>>)
  PROVE  Ends(t, o1)
<1> DEFINE es == <<e1>>
           b0 == Silenced(virtio_bpf)
           s0 == Unsaid(calls)
<1>6. Len(es) = 1 /\ es[1] = e1
  OBVIOUS
<1>7. virtio_bpf' = RunHooks(Hook, b0, es) /\ calls' = RunHooks(Really, s0, es)
  BY FireIs
<1>8. Walked(b0, s0, t, o0)
  BY WalkBegins
<1> HIDE DEF es, b0, s0
<1>9. PICK u : InOrder(u, b0, es, 1) /\ RunHooks(Hook, b0, es) = u[1]
  BY <1>6, HooksRun
<1>10. PICK w : InTruth(w, s0, es, 1) /\ RunHooks(Really, s0, es) = w[1]
  BY <1>6, TruthRuns
<1>11. u[0] = b0 /\ u[1] = Hook(u[0], e1)
  BY <1>6, <1>9 DEF InOrder
<1>12. w[0] = s0 /\ w[1] = Really(w[0], e1)
  BY <1>6, <1>10 DEF InTruth
<1>0. Walked(u[0], w[0], t, o0)
  BY <1>8, <1>11, <1>12
<1>1. Walked(u[1], w[1], t, o1)
  BY <1>0, <1>11, <1>12, NextEvent
<1> QED
  BY <1>1, <1>7, <1>9, <1>10 DEF Walked, Ends

LEMMA Fires2 ==
  ASSUME Agrees(virtio_bpf, calls), NEW t \in Observed, NEW o0, InCalls(calls.stack[t], o0),
         NEW e1, NEW o1, Does(t, o0, e1, o1),
         NEW e2, NEW o2, Does(t, o1, e2, o2),
         Fire(<<e1, e2>>)
  PROVE  Ends(t, o2)
<1> DEFINE es == <<e1, e2>>
           b0 == Silenced(virtio_bpf)
           s0 == Unsaid(calls)
<1>6. Len(es) = 2 /\ es[1] = e1 /\ es[2] = e2
  OBVIOUS
<1>7. virtio_bpf' = RunHooks(Hook, b0, es) /\ calls' = RunHooks(Really, s0, es)
  BY FireIs
<1>8. Walked(b0, s0, t, o0)
  BY WalkBegins
<1> HIDE DEF es, b0, s0
<1>9. PICK u : InOrder(u, b0, es, 2) /\ RunHooks(Hook, b0, es) = u[2]
  BY <1>6, HooksRun
<1>10. PICK w : InTruth(w, s0, es, 2) /\ RunHooks(Really, s0, es) = w[2]
  BY <1>6, TruthRuns
<1>11. u[0] = b0 /\ u[1] = Hook(u[0], e1) /\ u[2] = Hook(u[1], e2)
  BY <1>6, <1>9 DEF InOrder
<1>12. w[0] = s0 /\ w[1] = Really(w[0], e1) /\ w[2] = Really(w[1], e2)
  BY <1>6, <1>10 DEF InTruth
<1>0. Walked(u[0], w[0], t, o0)
  BY <1>8, <1>11, <1>12
<1>1. Walked(u[1], w[1], t, o1)
  BY <1>0, <1>11, <1>12, NextEvent
<1>2. Walked(u[2], w[2], t, o2)
  BY <1>1, <1>11, <1>12, NextEvent
<1> QED
  BY <1>2, <1>7, <1>9, <1>10 DEF Walked, Ends

LEMMA Fires3 ==
  ASSUME Agrees(virtio_bpf, calls), NEW t \in Observed, NEW o0, InCalls(calls.stack[t], o0),
         NEW e1, NEW o1, Does(t, o0, e1, o1),
         NEW e2, NEW o2, Does(t, o1, e2, o2),
         NEW e3, NEW o3, Does(t, o2, e3, o3),
         Fire(<<e1, e2, e3>>)
  PROVE  Ends(t, o3)
<1> DEFINE es == <<e1, e2, e3>>
           b0 == Silenced(virtio_bpf)
           s0 == Unsaid(calls)
<1>6. Len(es) = 3 /\ es[1] = e1 /\ es[2] = e2 /\ es[3] = e3
  OBVIOUS
<1>7. virtio_bpf' = RunHooks(Hook, b0, es) /\ calls' = RunHooks(Really, s0, es)
  BY FireIs
<1>8. Walked(b0, s0, t, o0)
  BY WalkBegins
<1> HIDE DEF es, b0, s0
<1>9. PICK u : InOrder(u, b0, es, 3) /\ RunHooks(Hook, b0, es) = u[3]
  BY <1>6, HooksRun
<1>10. PICK w : InTruth(w, s0, es, 3) /\ RunHooks(Really, s0, es) = w[3]
  BY <1>6, TruthRuns
<1>11. u[0] = b0 /\ u[1] = Hook(u[0], e1) /\ u[2] = Hook(u[1], e2) /\ u[3] = Hook(u[2], e3)
  BY <1>6, <1>9 DEF InOrder
<1>12. w[0] = s0 /\ w[1] = Really(w[0], e1) /\ w[2] = Really(w[1], e2) /\ w[3] = Really(w[2], e3)
  BY <1>6, <1>10 DEF InTruth
<1>0. Walked(u[0], w[0], t, o0)
  BY <1>8, <1>11, <1>12
<1>1. Walked(u[1], w[1], t, o1)
  BY <1>0, <1>11, <1>12, NextEvent
<1>2. Walked(u[2], w[2], t, o2)
  BY <1>1, <1>11, <1>12, NextEvent
<1>3. Walked(u[3], w[3], t, o3)
  BY <1>2, <1>11, <1>12, NextEvent
<1> QED
  BY <1>3, <1>7, <1>9, <1>10 DEF Walked, Ends

LEMMA Fires4 ==
  ASSUME Agrees(virtio_bpf, calls), NEW t \in Observed, NEW o0, InCalls(calls.stack[t], o0),
         NEW e1, NEW o1, Does(t, o0, e1, o1),
         NEW e2, NEW o2, Does(t, o1, e2, o2),
         NEW e3, NEW o3, Does(t, o2, e3, o3),
         NEW e4, NEW o4, Does(t, o3, e4, o4),
         Fire(<<e1, e2, e3, e4>>)
  PROVE  Ends(t, o4)
<1> DEFINE es == <<e1, e2, e3, e4>>
           b0 == Silenced(virtio_bpf)
           s0 == Unsaid(calls)
<1>6. Len(es) = 4 /\ es[1] = e1 /\ es[2] = e2 /\ es[3] = e3 /\ es[4] = e4
  OBVIOUS
<1>7. virtio_bpf' = RunHooks(Hook, b0, es) /\ calls' = RunHooks(Really, s0, es)
  BY FireIs
<1>8. Walked(b0, s0, t, o0)
  BY WalkBegins
<1> HIDE DEF es, b0, s0
<1>9. PICK u : InOrder(u, b0, es, 4) /\ RunHooks(Hook, b0, es) = u[4]
  BY <1>6, HooksRun
<1>10. PICK w : InTruth(w, s0, es, 4) /\ RunHooks(Really, s0, es) = w[4]
  BY <1>6, TruthRuns
<1>11. u[0] = b0 /\ u[1] = Hook(u[0], e1) /\ u[2] = Hook(u[1], e2) /\ u[3] = Hook(u[2], e3) /\ u[4] = Hook(u[3], e4)
  BY <1>6, <1>9 DEF InOrder
<1>12. w[0] = s0 /\ w[1] = Really(w[0], e1) /\ w[2] = Really(w[1], e2) /\ w[3] = Really(w[2], e3) /\ w[4] = Really(w[3], e4)
  BY <1>6, <1>10 DEF InTruth
<1>0. Walked(u[0], w[0], t, o0)
  BY <1>8, <1>11, <1>12
<1>1. Walked(u[1], w[1], t, o1)
  BY <1>0, <1>11, <1>12, NextEvent
<1>2. Walked(u[2], w[2], t, o2)
  BY <1>1, <1>11, <1>12, NextEvent
<1>3. Walked(u[3], w[3], t, o3)
  BY <1>2, <1>11, <1>12, NextEvent
<1>4. Walked(u[4], w[4], t, o4)
  BY <1>3, <1>11, <1>12, NextEvent
<1> QED
  BY <1>4, <1>7, <1>9, <1>10 DEF Walked, Ends

LEMMA Fires5 ==
  ASSUME Agrees(virtio_bpf, calls), NEW t \in Observed, NEW o0, InCalls(calls.stack[t], o0),
         NEW e1, NEW o1, Does(t, o0, e1, o1),
         NEW e2, NEW o2, Does(t, o1, e2, o2),
         NEW e3, NEW o3, Does(t, o2, e3, o3),
         NEW e4, NEW o4, Does(t, o3, e4, o4),
         NEW e5, NEW o5, Does(t, o4, e5, o5),
         Fire(<<e1, e2, e3, e4, e5>>)
  PROVE  Ends(t, o5)
<1> DEFINE es == <<e1, e2, e3, e4, e5>>
           b0 == Silenced(virtio_bpf)
           s0 == Unsaid(calls)
<1>6. Len(es) = 5 /\ es[1] = e1 /\ es[2] = e2 /\ es[3] = e3 /\ es[4] = e4 /\ es[5] = e5
  OBVIOUS
<1>7. virtio_bpf' = RunHooks(Hook, b0, es) /\ calls' = RunHooks(Really, s0, es)
  BY FireIs
<1>8. Walked(b0, s0, t, o0)
  BY WalkBegins
<1> HIDE DEF es, b0, s0
<1>9. PICK u : InOrder(u, b0, es, 5) /\ RunHooks(Hook, b0, es) = u[5]
  BY <1>6, HooksRun
<1>10. PICK w : InTruth(w, s0, es, 5) /\ RunHooks(Really, s0, es) = w[5]
  BY <1>6, TruthRuns
<1>11. u[0] = b0 /\ u[1] = Hook(u[0], e1) /\ u[2] = Hook(u[1], e2) /\ u[3] = Hook(u[2], e3) /\ u[4] = Hook(u[3], e4) /\ u[5] = Hook(u[4], e5)
  BY <1>6, <1>9 DEF InOrder
<1>12. w[0] = s0 /\ w[1] = Really(w[0], e1) /\ w[2] = Really(w[1], e2) /\ w[3] = Really(w[2], e3) /\ w[4] = Really(w[3], e4) /\ w[5] = Really(w[4], e5)
  BY <1>6, <1>10 DEF InTruth
<1>0. Walked(u[0], w[0], t, o0)
  BY <1>8, <1>11, <1>12
<1>1. Walked(u[1], w[1], t, o1)
  BY <1>0, <1>11, <1>12, NextEvent
<1>2. Walked(u[2], w[2], t, o2)
  BY <1>1, <1>11, <1>12, NextEvent
<1>3. Walked(u[3], w[3], t, o3)
  BY <1>2, <1>11, <1>12, NextEvent
<1>4. Walked(u[4], w[4], t, o4)
  BY <1>3, <1>11, <1>12, NextEvent
<1>5. Walked(u[5], w[5], t, o5)
  BY <1>4, <1>11, <1>12, NextEvent
<1> QED
  BY <1>5, <1>7, <1>9, <1>10 DEF Walked, Ends

-----------------------------------------------------------------------------
\* The events of the run, from one place to the next.
LEMMA CallsDo ==
  ASSUME NEW t, NEW fn, NEW a, NEW v, NEW u, GoodCall(fn, a, v, u), NEW e, e = Call(t, fn, a, v, u)
  PROVE  /\ Does(t, <<>>, e, <<<<fn, a>>>>)
         /\ \A x : x[1] # fn => Does(t, <<x>>, e, <<x, <<fn, a>>>>)
<1>1. e.t = t
  BY EventFields
<1>2. LegalCall(<<>>, e, <<<<fn, a>>>>)
  BY <1>1, Zenon DEF LegalCall
<1>3. ASSUME NEW x, x[1] # fn
      PROVE  LegalCall(<<x>>, e, <<x, <<fn, a>>>>)
  BY <1>1, <1>3, Zenon DEF LegalCall
<1> QED
  BY <1>1, <1>2, <1>3, Zenon DEF Does, Legal

LEMMA ReturnsDo ==
  ASSUME NEW t, NEW fn, NEW a, NEW v, NEW r, NEW u, NEW c, GoodReturn(fn, a, v, u, Frame(fn, 0, c)),
         NEW e, e = Ret(t, fn, a, v, r, u)
  PROVE  /\ Does(t, <<<<fn, c>>>>, e, <<>>)
         /\ \A x : x[1] # fn => Does(t, <<x, <<fn, c>>>>, e, <<x>>)
<1>1. e.t = t
  BY EventFields
<1>2. LegalReturn(<<<<fn, c>>>>, e, <<>>)
  BY <1>1, Zenon DEF LegalReturn
<1>3. ASSUME NEW x, x[1] # fn
      PROVE  LegalReturn(<<x, <<fn, c>>>>, e, <<x>>)
  BY <1>1, <1>3, Zenon DEF LegalReturn
<1> QED
  BY <1>1, <1>2, <1>3, Zenon DEF Does, Legal

InIoctl(name) == <<<<"ioctl", <<name>>>>>>
InRun == InIoctl("KVM_RUN")
InMmio(a) == <<<<"do_mmio", a>>>>
InNotify == <<<<"do_mmio", NotifyArgs>>, <<"process_queue", <<>>>>>>
InKick == <<<<"process_ioeventfd_kick", <<count>>>>>>
InServe == <<<<"process_ioeventfd_kick", <<count>>>>, <<"process_queue", <<>>>>>>
InSignal == <<<<"process_ioeventfd_kick", <<count>>>>, <<"signal_irqfd_completion", <<1>>>>>>

LEMMA IoctlsDo ==
  ASSUME NEW t, NEW name, NEW r
  PROVE  /\ Does(t, <<>>, Call(t, "ioctl", <<name>>, None, <<>>), InIoctl(name))
         /\ Does(t, InIoctl(name), Ret(t, "ioctl", <<>>, None, r, <<>>), <<>>)
<1>1. GoodCall("ioctl", <<name>>, None, <<>>)
  BY DEF GoodCall, Fns
<1>2. GoodReturn("ioctl", <<>>, None, <<>>, Frame("ioctl", 0, <<name>>))
  BY FrameIs DEF GoodReturn, Fns
<1> QED
  BY <1>1, <1>2, CallsDo, ReturnsDo DEF InIoctl

LEMMA RunsDo ==
  /\ Does("vmm", <<>>, KvmRunCall, InRun)
  /\ \A r : Does("vmm", InRun, KvmRunRet(r), <<>>)
BY IoctlsDo DEF KvmRunCall, KvmRunRet, InRun

LEMMA MmiosDo ==
  ASSUME NEW t, NEW a, a[2] \in {"read", "write"}, NEW v, NEW r, NEW u, u.fixed \in BOOLEAN
  PROVE  /\ Does(t, <<>>, Call(t, "do_mmio", a, v, u), InMmio(a))
         /\ Does(t, InMmio(a), Ret(t, "do_mmio", a, v, r, u), <<>>)
<1>1. GoodCall("do_mmio", a, v, u)
  BY DEF GoodCall, Fns
<1>2. GoodReturn("do_mmio", a, v, u, Frame("do_mmio", 0, a))
  BY FrameIs DEF GoodReturn, Fns
<1> QED
  BY <1>1, <1>2, CallsDo, ReturnsDo DEF InMmio

LEMMA ServicesDo ==
  ASSUME NEW t, NEW x, x[1] # "process_queue", NEW u, u.fixed \in BOOLEAN
  PROVE  /\ Does(t, <<x>>, Call(t, "process_queue", <<>>, None, u), <<x, <<"process_queue", <<>>>>>>)
         /\ \A r : Does(t, <<x, <<"process_queue", <<>>>>>>,
                          Ret(t, "process_queue", <<>>, None, r, u), <<x>>)
<1>1. GoodCall("process_queue", <<>>, None, u)
  BY DEF GoodCall, Fns
<1>2. GoodReturn("process_queue", <<>>, None, u, Frame("process_queue", 0, <<>>))
  BY FrameIs DEF GoodReturn, Fns
<1> QED
  BY <1>1, <1>2, CallsDo, ReturnsDo

LEMMA KicksDo ==
  ASSUME NEW t, NEW u, u.fixed \in BOOLEAN
  PROVE  /\ Does(t, <<>>, Call(t, "process_ioeventfd_kick", <<count>>, None, u), InKick)
         /\ Does(t, InKick, Call(t, "process_queue", <<>>, None, u), InServe)
         /\ Does(t, InKick, Call(t, "signal_irqfd_completion", <<1>>, None, u), InSignal)
<1> DEFINE x == <<"process_ioeventfd_kick", <<count>>>>
<1>0. x[1] = "process_ioeventfd_kick"
  OBVIOUS
<1>1. GoodCall("process_ioeventfd_kick", <<count>>, None, u)
  BY DEF GoodCall, Fns
<1>2. GoodCall("signal_irqfd_completion", <<1>>, None, u)
  BY DEF GoodCall, Fns
<1>3. Does(t, <<>>, Call(t, "process_ioeventfd_kick", <<count>>, None, u), InKick)
  BY <1>1, CallsDo DEF InKick
<1> HIDE DEF x
<1>4. Does(t, <<x>>, Call(t, "process_queue", <<>>, None, u), <<x, <<"process_queue", <<>>>>>>)
  BY <1>0, ServicesDo
<1>5. Does(t, <<x>>, Call(t, "signal_irqfd_completion", <<1>>, None, u),
           <<x, <<"signal_irqfd_completion", <<1>>>>>>)
  BY <1>0, <1>2, CallsDo
<1> QED
  BY <1>3, <1>4, <1>5 DEF InKick, InServe, InSignal, x

LEMMA KicksReturn ==
  ASSUME NEW t, NEW r, NEW u, u.fixed \in BOOLEAN
  PROVE  /\ Does(t, InKick, Ret(t, "process_ioeventfd_kick", <<>>, None, r, u), <<>>)
         /\ Does(t, InServe, Ret(t, "process_queue", <<>>, None, r, u), InKick)
         /\ Does(t, InSignal, Ret(t, "signal_irqfd_completion", <<>>, None, r, u), InKick)
<1> DEFINE x == <<"process_ioeventfd_kick", <<count>>>>
<1>0. x[1] = "process_ioeventfd_kick"
  OBVIOUS
<1>1. GoodReturn("process_ioeventfd_kick", <<>>, None, u, Frame("process_ioeventfd_kick", 0, <<count>>))
  BY FrameIs DEF GoodReturn, Fns
<1>2. GoodReturn("signal_irqfd_completion", <<>>, None, u, Frame("signal_irqfd_completion", 0, <<1>>))
  BY FrameIs DEF GoodReturn, Fns
<1>3. Does(t, InKick, Ret(t, "process_ioeventfd_kick", <<>>, None, r, u), <<>>)
  BY <1>1, ReturnsDo DEF InKick
<1> HIDE DEF x
<1>4. Does(t, <<x, <<"process_queue", <<>>>>>>, Ret(t, "process_queue", <<>>, None, r, u), <<x>>)
  BY <1>0, ServicesDo
<1>5. Does(t, <<x, <<"signal_irqfd_completion", <<1>>>>>>,
           Ret(t, "signal_irqfd_completion", <<>>, None, r, u), <<x>>)
  BY <1>0, <1>2, ReturnsDo
<1> QED
  BY <1>3, <1>4, <1>5 DEF InKick, InServe, InSignal, x

LEMMA NotifyCallsDo ==
  ASSUME NEW u, u.fixed \in BOOLEAN
  PROVE  /\ Does("vmm", <<>>, Call("vmm", "do_mmio", NotifyArgs, RNG_QUEUE, u), InMmio(NotifyArgs))
         /\ Does("vmm", InMmio(NotifyArgs), Call("vmm", "process_queue", <<>>, None, u), InNotify)
<1> DEFINE x == <<"do_mmio", NotifyArgs>>
<1>0. x[1] = "do_mmio" /\ NotifyArgs[2] = "write"
  BY DEF NotifyArgs
<1>1. Does("vmm", <<>>, Call("vmm", "do_mmio", NotifyArgs, RNG_QUEUE, u), InMmio(NotifyArgs))
  <2>1. GoodCall("do_mmio", NotifyArgs, RNG_QUEUE, u)
    BY <1>0 DEF GoodCall, Fns
  <2> QED
    BY <2>1, CallsDo DEF InMmio
<1> HIDE DEF x
<1>2. Does("vmm", <<x>>, Call("vmm", "process_queue", <<>>, None, u), <<x, <<"process_queue", <<>>>>>>)
  BY <1>0, ServicesDo
<1> QED
  BY <1>1, <1>2 DEF InMmio, InNotify, x

LEMMA NotifyReturnsDo ==
  ASSUME NEW u, u.fixed \in BOOLEAN, NEW r
  PROVE  /\ Does("vmm", InNotify, Ret("vmm", "process_queue", <<>>, None, r, u), InMmio(NotifyArgs))
         /\ Does("vmm", InMmio(NotifyArgs), Ret("vmm", "do_mmio", NotifyArgs, RNG_QUEUE, r, u), <<>>)
<1> DEFINE x == <<"do_mmio", NotifyArgs>>
<1>0. x[1] = "do_mmio" /\ NotifyArgs[2] = "write"
  BY DEF NotifyArgs
<1>1. Does("vmm", InMmio(NotifyArgs), Ret("vmm", "do_mmio", NotifyArgs, RNG_QUEUE, r, u), <<>>)
  BY <1>0, MmiosDo
<1> HIDE DEF x
<1>2. Does("vmm", <<x, <<"process_queue", <<>>>>>>, Ret("vmm", "process_queue", <<>>, None, r, u), <<x>>)
  BY <1>0, ServicesDo
<1> QED
  BY <1>1, <1>2 DEF InMmio, InNotify, x

\* Where the two threads of the run are, whatever the run does.
VmmPlace ==
  IF phase # "run" THEN <<>> ELSE IF pq["vmm"].pc = "idle" THEN InRun ELSE InNotify

WorkerPlace ==
  CASE worker = "queue" -> InServe
    [] worker \in {"check", "interrupt"} -> InKick
    [] worker \in {"call", "count"} -> InSignal
    [] OTHER -> <<>>

StrayPlaced ==
  /\ calls.numbers["stray"].ioctl = 0 => calls.stack["stray"] = <<>>
  /\ \E o \in {<<>>, InMmio(<<"STATUS", "read">>)} : InCalls(calls.stack["stray"], o)

CallsInv ==
  /\ InCalls(calls.stack["vmm"], VmmPlace) /\ InCalls(calls.stack["worker"], WorkerPlace)
  /\ StrayPlaced

TraceInv == RunInv /\ Agrees(virtio_bpf, calls) /\ CallsInv

LEMMA MemoryReads == Memory.fixed \in BOOLEAN /\ Memory'.fixed \in BOOLEAN
BY DEF Memory

LEMMA WorkerReturnsDo ==
  ASSUME NEW ok
  PROVE  /\ Does("worker", InKick, KickRet(ok), <<>>)
         /\ Does("worker", InServe, Ret("worker", "process_queue", <<>>, None, Result(ok), Memory'), InKick)
         /\ Does("worker", InSignal, SignalRet(ok), InKick)
<1> DEFINE r == Result(ok)
           u == Memory'
<1>1. u.fixed \in BOOLEAN
  BY MemoryReads
<1> HIDE DEF r, u
<1>2. /\ Does("worker", InKick, Ret("worker", "process_ioeventfd_kick", <<>>, None, r, u), <<>>)
      /\ Does("worker", InServe, Ret("worker", "process_queue", <<>>, None, r, u), InKick)
      /\ Does("worker", InSignal, Ret("worker", "signal_irqfd_completion", <<>>, None, r, u), InKick)
  BY <1>1, KicksReturn
<1> QED
  BY <1>2 DEF r, u, KickRet, SignalRet

\* A step of one thread of the run.
LEMMA VmmMoves ==
  ASSUME TraceInv, RunInv', Ends("vmm", VmmPlace'), WorkerPlace' = WorkerPlace
  PROVE  TraceInv'
<1>1. PICK st : InCalls(st, VmmPlace') /\ Moved(calls, calls', "vmm", st)
  BY DEF Ends, Goes
<1>2. /\ calls'.stack["vmm"] = st /\ calls'.stack["worker"] = calls.stack["worker"]
      /\ calls'.stack["stray"] = calls.stack["stray"] /\ calls'.numbers["stray"] = calls.numbers["stray"]
  BY <1>1 DEF Moved, Threads
<1> HIDE DEF VmmPlace, WorkerPlace
<1>3. CallsInv'
  BY <1>1, <1>2 DEF TraceInv, CallsInv, StrayPlaced, InMmio
<1> QED
  BY <1>3 DEF TraceInv, Ends

LEMMA WorkerMoves ==
  ASSUME TraceInv, RunInv', Ends("worker", WorkerPlace'), VmmPlace' = VmmPlace
  PROVE  TraceInv'
<1>1. PICK st : InCalls(st, WorkerPlace') /\ Moved(calls, calls', "worker", st)
  BY DEF Ends, Goes
<1>2. /\ calls'.stack["worker"] = st /\ calls'.stack["vmm"] = calls.stack["vmm"]
      /\ calls'.stack["stray"] = calls.stack["stray"] /\ calls'.numbers["stray"] = calls.numbers["stray"]
  BY <1>1 DEF Moved, Threads
<1> HIDE DEF VmmPlace, WorkerPlace
<1>3. CallsInv'
  BY <1>1, <1>2 DEF TraceInv, CallsInv, StrayPlaced, InMmio
<1> QED
  BY <1>3 DEF TraceInv, Ends

\* Places the threads are in.
LEMMA VmmIsAt ==
  /\ phase # "run" => VmmPlace = <<>>
  /\ phase = "run" /\ pq["vmm"].pc = "idle" => VmmPlace = InRun
  /\ phase = "run" /\ pq["vmm"].pc # "idle" => VmmPlace = InNotify
BY DEF VmmPlace

LEMMA WorkerIsAt ==
  /\ worker = "queue" => WorkerPlace = InServe
  /\ worker \in {"check", "interrupt"} => WorkerPlace = InKick
  /\ worker \in {"call", "count"} => WorkerPlace = InSignal
  /\ worker \notin {"queue", "check", "interrupt", "call", "count"} => WorkerPlace = <<>>
BY DEF WorkerPlace

LEMMA WorkerStays ==
  ASSUME UNCHANGED <<worker, count>>
  PROVE  WorkerPlace' = WorkerPlace
BY DEF WorkerPlace, InServe, InKick, InSignal

LEMMA VmmStays ==
  ASSUME phase' = phase, pq'["vmm"].pc = pq["vmm"].pc
  PROVE  VmmPlace' = VmmPlace
BY DEF VmmPlace, InRun, InIoctl, InNotify, NotifyArgs

LEMMA PlacesAreFixed == InRun' = InRun /\ InNotify' = InNotify
BY DEF InRun, InIoctl, InNotify, NotifyArgs

LEMMA AccessEnds ==
  ASSUME TraceInv, VmmPlace = InRun, NEW a, a[2] \in {"read", "write"}, NEW v
  PROVE  /\ Fire(Access(a, v)) /\ alive' => Ends("vmm", InRun)
         /\ Fire(Access(a, v)) /\ ~alive' => Ends("vmm", <<>>)
         /\ Fire(Access(a, v) \o PortExit) /\ alive' /\ phase' = "run" => Ends("vmm", InRun)
         /\ Fire(Access(a, v) \o PortExit) /\ alive' /\ phase' # "run" => Ends("vmm", <<>>)
<1> DEFINE e1 == KvmRunRet(0)
           e2 == Call("vmm", "do_mmio", a, v, Memory)
           e3 == Ret("vmm", "do_mmio", a, v, Result(alive'), Memory')
           e4 == KvmRunCall
           e5 == KvmRunRet(0)
<1>0. Agrees(virtio_bpf, calls) /\ "vmm" \in Observed /\ InCalls(calls.stack["vmm"], InRun)
  BY DEF TraceInv, CallsInv, Observed
<1>1. /\ Does("vmm", InRun, e1, <<>>) /\ Does("vmm", <<>>, e4, InRun) /\ Does("vmm", InRun, e5, <<>>)
      /\ Does("vmm", <<>>, e2, InMmio(a)) /\ Does("vmm", InMmio(a), e3, <<>>)
  BY RunsDo, MmiosDo, MemoryReads
<1>2. /\ Access(a, v) = <<e1, e2, e3>> \o (IF alive' THEN <<e4>> ELSE <<>>)
      /\ PortExit = IF phase' = "run" THEN <<>> ELSE <<e5>>
  BY DEF Access, PortExit
<1> HIDE DEF e1, e2, e3, e4, e5
<1>3. /\ alive' => Access(a, v) = <<e1, e2, e3, e4>>
      /\ ~alive' => Access(a, v) = <<e1, e2, e3>>
      /\ alive' /\ phase' = "run" => Access(a, v) \o PortExit = <<e1, e2, e3, e4>>
      /\ alive' /\ phase' # "run" => Access(a, v) \o PortExit = <<e1, e2, e3, e4, e5>>
  <2> DEFINE S == {e1, e2, e3, e4, e5}
             q3 == <<e1, e2, e3>>
             q4 == <<e1, e2, e3, e4>>
             q5 == <<e1, e2, e3, e4, e5>>
             x4 == <<e4>>
             x5 == <<e5>>
             x0 == <<>>
  <2>0. q3 \in Seq(S) /\ q4 \in Seq(S) /\ e4 \in S /\ e5 \in S
    OBVIOUS
  <2>4. q4 = Append(q3, e4) /\ q5 = Append(q4, e5)
    OBVIOUS
  <2>1. q3 \o x0 = q3 /\ q3 \o x4 = q4 /\ q4 \o x0 = q4 /\ q4 \o x5 = q5
    <3> HIDE DEF S, q3, q4, q5
    <3> QED
      BY <2>0, <2>4, AppendIsConcat, ConcatEmptySeq
  <2>2. Access(a, v) = q3 \o (IF alive' THEN x4 ELSE x0) /\ PortExit = IF phase' = "run" THEN x0 ELSE x5
    BY <1>2
  <2> HIDE DEF S, q3, q4, q5, x4, x5, x0
  <2>3. /\ alive' => Access(a, v) = q4
        /\ ~alive' => Access(a, v) = q3
        /\ alive' /\ phase' = "run" => Access(a, v) \o PortExit = q4
        /\ alive' /\ phase' # "run" => Access(a, v) \o PortExit = q5
    BY <2>1, <2>2
  <2> QED
    BY <2>3 DEF q3, q4, q5
<1>4. Fire(<<e1, e2, e3>>) => Ends("vmm", <<>>)
  BY <1>0, <1>1, Fires3
<1>5. Fire(<<e1, e2, e3, e4>>) => Ends("vmm", InRun)
  BY <1>0, <1>1, Fires4
<1>6. Fire(<<e1, e2, e3, e4, e5>>) => Ends("vmm", <<>>)
  BY <1>0, <1>1, Fires5
<1> QED
  BY <1>3, <1>4, <1>5, <1>6

LEMMA AtThatPlace ==
  ASSUME TraceInv
  PROVE  /\ Agrees(virtio_bpf, calls) /\ InCalls(calls.stack["vmm"], VmmPlace)
         /\ InCalls(calls.stack["worker"], WorkerPlace) /\ "vmm" \in Observed /\ "worker" \in Observed
BY DEF TraceInv, CallsInv, Observed

\* The guest's accesses.
LEMMA AccessesSeen ==
  ASSUME TraceInv, RunInv', SeenWrite \/ SeenWriteAddr \/ SeenRead \/ SeenIsrStatus \/ SeenIsrAck
  PROVE  TraceInv'
<1>0. ConsumerInv /\ DeviceInv
  BY DEF TraceInv, RunInv
<1>1. CASE SeenWrite \/ SeenWriteAddr
  <2>1. /\ \E o : GuestRuns(o) /\ OrFail(alive')
        /\ \E r, v, h : MmioWrite(r, v) \/ WriteQueueAddr(r, h, v)
        /\ \E a, v : a[2] = "write" /\ Fire(Access(a, v))
    <3>1. CASE SeenWrite
      <4>1. <<Program[pc].reg, "write">>[2] = "write"
        OBVIOUS
      <4> QED
        BY <3>1, <4>1 DEF SeenWrite, GuestWrite
    <3>2. CASE SeenWriteAddr
      <4>1. <<Program[pc].reg \o Program[pc].op, "write">>[2] = "write"
        OBVIOUS
      <4>2. \E a, v : a[2] = "write" /\ Fire(Access(a, v))
        BY <3>2, <4>1 DEF SeenWriteAddr
      <4>3. /\ \E o : GuestRuns(o) /\ OrFail(alive')
            /\ \E r, v, h : MmioWrite(r, v) \/ WriteQueueAddr(r, h, v)
        BY <3>2 DEF SeenWriteAddr, GuestWriteAddr
      <4> QED
        BY <4>2, <4>3
    <3> QED
      BY <1>1, <3>1, <3>2
  <2>2. phase = "run" /\ pq["vmm"].pc = "idle" /\ UNCHANGED <<worker, count>>
    BY <2>1 DEF GuestRuns, OrFail, backend_vars
  <2>3. pq' = pq
    BY <1>0, <2>1, WriteLeaves
  <2>4. (alive' /\ phase' = "run") \/ (~alive' /\ phase' # "run")
    BY <2>1, <2>2 DEF OrFail, Break
  <2>5. VmmPlace = InRun
    BY <2>2, VmmIsAt
  <2>6. VmmPlace' = IF phase' = "run" THEN InRun ELSE <<>>
    BY <2>2, <2>3, <2>5, VmmStays DEF VmmPlace
  <2>7. Ends("vmm", VmmPlace')
    BY <2>1, <2>4, <2>5, <2>6, AccessEnds
  <2> QED
    BY <2>2, <2>7, VmmMoves, WorkerStays
<1>2. CASE SeenRead
  <2>1. /\ GuestRuns("read") /\ \E ok : OrFail(ok)
        /\ UNCHANGED reg_vars
        /\ \E a, v : a[2] = "read" /\ Fire(Access(a, v) \o PortExit)
    <3>1. <<Program[pc].reg, "read">>[2] = "read"
      OBVIOUS
    <3> QED
      BY <1>2, <3>1 DEF SeenRead, GuestRead
  <2>2. phase = "run" /\ pq["vmm"].pc = "idle" /\ UNCHANGED <<worker, count, pq, alive>>
    BY <2>1 DEF GuestRuns, OrFail, backend_vars, reg_vars, queue_vars
  <2>3. alive'
    BY <1>0, <2>2 DEF ConsumerInv
  <2>5. VmmPlace = InRun
    BY <2>2, VmmIsAt
  <2>6. VmmPlace' = IF phase' = "run" THEN InRun ELSE <<>>
    BY <2>2, <2>5, VmmStays DEF VmmPlace
  <2>7. Ends("vmm", VmmPlace')
    BY <2>1, <2>3, <2>5, <2>6, AccessEnds
  <2> QED
    BY <2>2, <2>7, VmmMoves, WorkerStays
<1>3. CASE SeenIsrStatus \/ SeenIsrAck
  <2>1. /\ phase = "run" /\ isr # "none" /\ phase' = phase /\ UNCHANGED <<pq, alive, worker, count>>
        /\ \E a, v : a[2] \in {"read", "write"} /\ Fire(Access(a, v))
    <3>1. CASE SeenIsrStatus
      <4>1. <<"INTERRUPT_STATUS", "read">>[2] = "read"
        OBVIOUS
      <4> QED
        BY <3>1, <4>1 DEF SeenIsrStatus, IsrStatus, reg_vars, queue_vars, vmm_vars, backend_vars
    <3>2. CASE SeenIsrAck
      <4>1. <<"INTERRUPT_ACK", "write">>[2] = "write"
        OBVIOUS
      <4>2. UNCHANGED <<pq, alive>>
        BY <3>2 DEF SeenIsrAck, IsrAck, WriteInterruptAck, Guarded, data_vars
      <4> QED
        BY <3>2, <4>1, <4>2 DEF SeenIsrAck, IsrAck, vmm_vars, backend_vars
    <3> QED
      BY <1>3, <3>1, <3>2
  <2>2. pq["vmm"].pc = "idle" /\ alive'
    BY <1>0, <2>1 DEF ConsumerInv
  <2>3. VmmPlace = InRun /\ VmmPlace' = InRun
    BY <2>1, <2>2, VmmIsAt, VmmStays
  <2>4. Ends("vmm", VmmPlace')
    BY <2>1, <2>2, <2>3, AccessEnds
  <2> QED
    BY <2>1, <2>4, VmmMoves, WorkerStays
<1> QED
  BY <1>1, <1>2, <1>3

\* What the guest does without an access.
LEMMA LocallySeen ==
  ASSUME TraceInv, RunInv', SeenLocally
  PROVE  TraceInv'
<1>0. ConsumerInv
  BY DEF TraceInv, RunInv
<1>1. /\ phase = "run" /\ (pq["vmm"].pc = "idle" \/ isr # "none") /\ UNCHANGED <<pq, worker, count>>
      /\ Fire(PortExit)
  <2>1. CASE GuestClear
    BY <2>1 DEF SeenLocally, GuestClear, GuestRuns, OrFail, backend_vars
  <2>2. CASE GuestPrepare
    BY <2>2 DEF SeenLocally, GuestPrepare, GuestRuns, OrFail, backend_vars, Prepare
  <2>3. CASE GuestPublish
    BY <2>3 DEF SeenLocally, GuestPublish, GuestRuns, OrFail, backend_vars, Publish, queue_vars
  <2>4. CASE GuestPoll
    BY <2>4 DEF SeenLocally, GuestPoll, GuestRuns, OrFail, backend_vars, reg_vars, queue_vars
  <2>5. CASE GuestReap
    BY <2>5 DEF SeenLocally, GuestReap, GuestRuns, OrFail, backend_vars, Reap, queue_vars
  <2>6. CASE GuestArmIrq \/ GuestWait \/ TakeIrq \/ GuestSuccess
    BY <2>6 DEF SeenLocally, GuestArmIrq, GuestWait, TakeIrq, GuestSuccess, GuestRuns, backend_vars,
                reg_vars, queue_vars
  <2>7. CASE IsrReturn
    BY <2>7 DEF SeenLocally, IsrReturn, backend_vars, reg_vars, queue_vars
  <2> QED
    BY <2>1, <2>2, <2>3, <2>4, <2>5, <2>6, <2>7 DEF SeenLocally
<1>2. pq["vmm"].pc = "idle"
  BY <1>0, <1>1 DEF ConsumerInv
<1>3. VmmPlace = InRun
  BY <1>1, <1>2, VmmIsAt
<1>4. VmmPlace' = IF phase' = "run" THEN InRun ELSE <<>>
  BY <1>1, <1>2, <1>3, VmmStays DEF VmmPlace
<1>5. Fire(<<>>) => Ends("vmm", InRun)
  BY <1>3, AtThatPlace, Fires0
<1>6. Fire(<<KvmRunRet(0)>>) => Ends("vmm", <<>>)
  BY <1>3, AtThatPlace, RunsDo, Fires1
<1>7. Ends("vmm", VmmPlace')
  BY <1>1, <1>4, <1>5, <1>6 DEF PortExit
<1> QED
  BY <1>1, <1>7, VmmMoves, WorkerStays

\* The doorbell.
LEMMA NotifySeen ==
  ASSUME TraceInv, RunInv', SeenNotify
  PROVE  TraceInv'
<1>0. ConsumerInv /\ RngTypes /\ "vmm" \in Callers
  BY DEF TraceInv, RunInv, ConsumerInv, Callers
<1>1. /\ phase = "run" /\ pq["vmm"].pc = "idle" /\ UNCHANGED <<worker, count>>
  BY DEF SeenNotify, GuestNotify, GuestRuns, backend_vars
<1>2. VmmPlace = InRun /\ Agrees(virtio_bpf, calls) /\ InCalls(calls.stack["vmm"], InRun) /\ "vmm" \in Observed
  BY <1>1, VmmIsAt, AtThatPlace
<1>3. CASE "ioeventfd" \in held
  <2>1. phase' = phase /\ pq' = pq /\ Fire(<<>>)
    BY <1>3 DEF SeenNotify, GuestNotify, reg_vars, queue_vars
  <2>2. VmmPlace' = InRun
    BY <1>2, <2>1, VmmStays
  <2>3. Ends("vmm", VmmPlace')
    BY <1>2, <2>1, <2>2, Fires0
  <2> QED
    BY <1>1, <2>3, VmmMoves, WorkerStays
<1>4. CASE "ioeventfd" \notin held /\ alive'
  <2> DEFINE e1 == KvmRunRet(0)
             e2 == Call("vmm", "do_mmio", NotifyArgs, RNG_QUEUE, Memory)
             e3 == Call("vmm", "process_queue", <<>>, None, Memory)
  <2>1. phase' = phase /\ PqCall("vmm")
    BY <1>4 DEF SeenNotify, GuestNotify, WriteQueueNotify, Reject
  <2>2. pq'["vmm"].pc = "enter"
    BY <1>0, <2>1 DEF PqCall, Goto, RngTypes
  <2>3. VmmPlace' = InNotify
    BY <1>1, <2>1, <2>2 DEF VmmPlace, InNotify, NotifyArgs
  <2>4. Fire(<<e1, e2, e3>>)
    BY <1>4 DEF SeenNotify
  <2>5. /\ Does("vmm", InRun, e1, <<>>) /\ Does("vmm", <<>>, e2, InMmio(NotifyArgs))
        /\ Does("vmm", InMmio(NotifyArgs), e3, InNotify)
    <3>1. Does("vmm", InRun, e1, <<>>)
      BY RunsDo
    <3> DEFINE u == Memory
    <3>2. u.fixed \in BOOLEAN
      BY MemoryReads
    <3> HIDE DEF u
    <3>3. /\ Does("vmm", <<>>, Call("vmm", "do_mmio", NotifyArgs, RNG_QUEUE, u), InMmio(NotifyArgs))
          /\ Does("vmm", InMmio(NotifyArgs), Call("vmm", "process_queue", <<>>, None, u), InNotify)
      BY <3>2, NotifyCallsDo
    <3> QED
      BY <3>1, <3>3 DEF u
  <2> HIDE DEF e1, e2, e3
  <2>6. Ends("vmm", VmmPlace')
    BY <1>2, <2>3, <2>4, <2>5, Fires3
  <2> QED
    BY <1>1, <2>6, VmmMoves, WorkerStays
<1>5. CASE "ioeventfd" \notin held /\ ~alive'
  <2>1. phase' = "shutdown"
    BY <1>5 DEF SeenNotify, GuestNotify, Break
  <2>2. Fire(Access(NotifyArgs, RNG_QUEUE)) /\ NotifyArgs[2] = "write"
    BY <1>5 DEF SeenNotify, NotifyArgs
  <2>3. VmmPlace' = <<>>
    BY <2>1 DEF VmmPlace
  <2>4. Ends("vmm", VmmPlace')
    BY <1>2, <1>5, <2>2, <2>3, AccessEnds
  <2> QED
    BY <1>1, <2>4, VmmMoves, WorkerStays
<1> QED
  BY <1>3, <1>4, <1>5

LEMMA ServiceGoesOn ==
  ASSUME RngTypes, NEW p \in Callers, PqStep(p)
  PROVE  pq[p].pc # "idle" /\ pq'[p].pc # "idle"
<1>1. pq[p].pc # "idle"
  BY CallIsLocal
<1>2. p \in DOMAIN pq /\ "pc" \in DOMAIN pq[p]
  BY DEF RngTypes
<1>3. CASE PqEnter(p)
  <2>1. pq'[p].pc \in {"failed", "done", "fetch"}
    BY <1>2, <1>3 DEF PqEnter
  <2> QED
    BY <1>1, <2>1
<1>4. CASE PqFetch(p)
  <2>1. pq'[p].pc \in {"failed", "done", "fill"}
    BY <1>2, <1>4 DEF PqFetch, Goto
  <2> QED
    BY <1>1, <2>1
<1>5. CASE PqFill(p)
  BY <1>1, <1>2, <1>5 DEF PqFill, Goto
<1>6. CASE PqUsed(p)
  BY <1>1, <1>2, <1>6 DEF PqUsed, Goto
<1>7. CASE PqPublish(p)
  BY <1>1, <1>2, <1>7 DEF PqPublish, Goto
<1>8. CASE PqAdvance(p)
  BY <1>1, <1>2, <1>8 DEF PqAdvance, Goto
<1> QED
  BY <1>3, <1>4, <1>5, <1>6, <1>7, <1>8 DEF PqStep

LEMMA ServiceSeen ==
  ASSUME TraceInv, RunInv', SeenNotifyWork \/ SeenNotifyExit
  PROVE  TraceInv'
<1>0. ConsumerInv /\ RngTypes /\ "vmm" \in Callers
  BY DEF TraceInv, RunInv, ConsumerInv, Callers
<1>1. phase = "run" /\ pq["vmm"].pc # "idle" /\ UNCHANGED <<worker, count>>
  <2>1. CASE SeenNotifyWork
    BY <1>0, <2>1, ServiceGoesOn DEF SeenNotifyWork, NotifyWork, backend_vars
  <2>2. CASE SeenNotifyExit
    BY <1>0, <2>2 DEF SeenNotifyExit, NotifyExit, NotifyReturns, PqReturn, backend_vars
  <2> QED
    BY <2>1, <2>2
<1>2. VmmPlace = InNotify /\ Agrees(virtio_bpf, calls) /\ InCalls(calls.stack["vmm"], InNotify)
      /\ "vmm" \in Observed
  BY <1>1, VmmIsAt, AtThatPlace
<1>3. CASE SeenNotifyWork
  <2>1. phase' = phase /\ pq'["vmm"].pc # "idle" /\ Fire(<<>>)
    BY <1>0, <1>3, ServiceGoesOn DEF SeenNotifyWork, NotifyWork, vmm_vars
  <2>2. VmmPlace' = InNotify
    BY <1>1, <2>1 DEF VmmPlace, InNotify, NotifyArgs
  <2>3. Ends("vmm", VmmPlace')
    BY <1>2, <2>1, <2>2, Fires0
  <2> QED
    BY <1>1, <2>3, VmmMoves, WorkerStays
<1>4. CASE SeenNotifyExit
  <2> DEFINE e1 == Ret("vmm", "process_queue", <<>>, None, Result(alive'), Memory')
             e2 == Ret("vmm", "do_mmio", NotifyArgs, RNG_QUEUE, Result(alive'), Memory')
             e3 == KvmRunCall
  <2>1. pq'["vmm"].pc = "idle"
    <3>1. PqReturn("vmm")
      BY <1>4 DEF SeenNotifyExit, NotifyExit, NotifyReturns
    <3> QED
      BY <1>0, <3>1 DEF PqReturn, Goto, RngTypes
  <2>2. Fire(<<e1, e2>> \o (IF phase' = "run" THEN <<e3>> ELSE <<>>))
    BY <1>4 DEF SeenNotifyExit
  <2>3. VmmPlace' = IF phase' = "run" THEN InRun ELSE <<>>
    BY <2>1 DEF VmmPlace, InRun, InIoctl
  <2>4. /\ Does("vmm", InNotify, e1, InMmio(NotifyArgs)) /\ Does("vmm", InMmio(NotifyArgs), e2, <<>>)
        /\ Does("vmm", <<>>, e3, InRun)
    <3>1. Does("vmm", <<>>, e3, InRun)
      BY RunsDo
    <3> DEFINE u == Memory'
               r == Result(alive')
    <3>2. u.fixed \in BOOLEAN
      BY MemoryReads
    <3> HIDE DEF u, r
    <3>3. /\ Does("vmm", InNotify, Ret("vmm", "process_queue", <<>>, None, r, u), InMmio(NotifyArgs))
          /\ Does("vmm", InMmio(NotifyArgs), Ret("vmm", "do_mmio", NotifyArgs, RNG_QUEUE, r, u), <<>>)
      BY <3>2, NotifyReturnsDo
    <3> QED
      BY <3>1, <3>3 DEF u, r
  <2> HIDE DEF e1, e2, e3
  <2>5. IF phase' = "run" THEN Fire(<<e1, e2, e3>>) ELSE Fire(<<e1, e2>>)
    BY <2>2, SplicedTwo
  <2>6. Fire(<<e1, e2, e3>>) => Ends("vmm", InRun)
    BY <1>2, <2>4, Fires3
  <2>7. Fire(<<e1, e2>>) => Ends("vmm", <<>>)
    BY <1>2, <2>4, Fires2
  <2>8. Ends("vmm", VmmPlace')
    BY <2>3, <2>5, <2>6, <2>7
  <2> QED
    BY <1>1, <2>8, VmmMoves, WorkerStays
<1> QED
  BY <1>3, <1>4

\* The calls the VMM makes outside KVM_RUN.
LEMMA IoctlEnds ==
  ASSUME TraceInv, VmmPlace = <<>>, NEW name, NEW r
  PROVE  /\ Fire(<<>>) => Ends("vmm", <<>>)
         /\ Fire(Ioctl(name, r)) => Ends("vmm", <<>>)
         /\ Fire(<<KvmRunCall>>) => Ends("vmm", InRun)
         /\ Fire(Ioctl(name, r) \o <<KvmRunCall>>) => Ends("vmm", InRun)
<1> DEFINE e1 == Call("vmm", "ioctl", <<name>>, None, <<>>)
           e2 == Ret("vmm", "ioctl", <<>>, None, r, <<>>)
           e3 == KvmRunCall
<1>0. Agrees(virtio_bpf, calls) /\ InCalls(calls.stack["vmm"], <<>>) /\ "vmm" \in Observed
  BY AtThatPlace
<1>1. /\ Does("vmm", <<>>, e1, InIoctl(name)) /\ Does("vmm", InIoctl(name), e2, <<>>)
      /\ Does("vmm", <<>>, e3, InRun)
  BY RunsDo, IoctlsDo
<1>2. Ioctl(name, r) = <<e1, e2>>
  BY DEF Ioctl
<1> HIDE DEF e1, e2
<1>3. Ioctl(name, r) \o <<e3>> = <<e1, e2, e3>>
  BY <1>2, SplicedTwo
<1> HIDE DEF e3
<1>4. Fire(<<>>) => Ends("vmm", <<>>)
  BY <1>0, Fires0
<1>5. Fire(<<e1, e2>>) => Ends("vmm", <<>>)
  BY <1>0, <1>1, Fires2
<1>6. Fire(<<e3>>) => Ends("vmm", InRun)
  BY <1>0, <1>1, Fires1
<1>7. Fire(<<e1, e2, e3>>) => Ends("vmm", InRun)
  BY <1>0, <1>1, Fires3
<1> QED
  BY <1>2, <1>3, <1>4, <1>5, <1>6, <1>7 DEF e3

LEMMA SetupSeen ==
  ASSUME TraceInv, RunInv', SeenSetup \/ SeenSetupFails
  PROVE  TraceInv'
<1>0. ConsumerInv
  BY DEF TraceInv, RunInv
<1>1. phase = "setup" /\ UNCHANGED <<pq, count>>
  BY DEF SeenSetup, SeenSetupFails, SetupStep, SetupFails, reg_vars, queue_vars, backend_vars
<1>2. VmmPlace = <<>> /\ pq["vmm"].pc = "idle" /\ worker = "none"
  BY <1>0, <1>1, VmmIsAt DEF ConsumerInv
<1>3. WorkerPlace' = WorkerPlace
  <2>1. worker' \in {"none", "read"}
    BY <1>2 DEF SeenSetup, SeenSetupFails, SetupStep, SetupFails, backend_vars
  <2>2. WorkerPlace' = <<>>
    BY <2>1 DEF WorkerPlace
  <2>3. WorkerPlace = <<>>
    BY <1>2, WorkerIsAt
  <2> QED
    BY <2>2, <2>3
<1>4. VmmPlace' = IF phase' = "run" THEN InRun ELSE <<>>
  BY <1>1, <1>2 DEF VmmPlace, InRun, InIoctl
<1>5. CASE SeenSetup
  <2> DEFINE s == SetupPlan[step]
             a == Ioctl(s, 0)
  <2>1. Fire((IF Registration(s) THEN a ELSE <<>>) \o (IF phase' = "run" THEN <<KvmRunCall>> ELSE <<>>))
    BY <1>5 DEF SeenSetup
  <2>2. a \o <<>> = a /\ <<>> \o <<>> = <<>> /\ <<>> \o <<KvmRunCall>> = <<KvmRunCall>>
    <3>1. a \o <<>> = a
      BY SplicedTwo DEF Ioctl
    <3>2. <<>> \o <<>> = <<>>
      OBVIOUS
    <3> DEFINE k == KvmRunCall
    <3> HIDE DEF k
    <3>3. <<>> \o <<k>> = <<k>>
      OBVIOUS
    <3> QED
      BY <3>1, <3>2, <3>3 DEF k
  <2> HIDE DEF s
  <2>3. /\ Fire(<<>>) => Ends("vmm", <<>>)
        /\ Fire(a) => Ends("vmm", <<>>)
        /\ Fire(<<KvmRunCall>>) => Ends("vmm", InRun)
        /\ Fire(a \o <<KvmRunCall>>) => Ends("vmm", InRun)
    BY <1>2, IoctlEnds
  <2> HIDE DEF a
  <2>4. Ends("vmm", VmmPlace')
    BY <1>4, <2>1, <2>2, <2>3
  <2> QED
    BY <1>3, <2>4, VmmMoves
<1>6. CASE SeenSetupFails
  <2> DEFINE s == SetupPlan[step]
  <2>1. Fire(IF Registration(s) THEN Ioctl(s, -1) ELSE <<>>) /\ phase' = "shutdown"
    BY <1>6 DEF SeenSetupFails, SetupFails, Break
  <2> HIDE DEF s
  <2>2. Ends("vmm", VmmPlace')
    BY <1>2, <1>4, <2>1, IoctlEnds
  <2> QED
    BY <1>3, <2>2, VmmMoves
<1> QED
  BY <1>5, <1>6

LEMMA ShutdownSeen ==
  ASSUME TraceInv, RunInv',
         \/ SeenDrop \/ SeenShutdown \/ SeenDropFails \/ (WakeFails /\ Fire(<<>>))
  PROVE  TraceInv'
<1>0. RunInv
  BY DEF TraceInv
<1>1. \E s : Shutdown(s)
  BY DEF SeenDrop, SeenShutdown, SeenDropFails, DropRegistration, DropFails, StoreStop, WakeWorker,
         WakeFails, JoinWorker, CloseFds, Verdict
<1>2. phase = "shutdown" /\ phase' # "run" /\ UNCHANGED <<worker, count>>
  BY <1>0, <1>1, ShutdownAside
<1>3. VmmPlace = <<>> /\ VmmPlace' = <<>>
  <2>1. VmmPlace = <<>>
    BY <1>2, VmmIsAt
  <2>2. VmmPlace' = <<>>
    BY <1>2 DEF VmmPlace
  <2> QED
    BY <2>1, <2>2
<1>4. Fire(<<>>) \/ \E r : Fire(Ioctl("drop", r))
  <2>1. CASE SeenDrop
    BY <2>1 DEF SeenDrop
  <2>2. CASE SeenDropFails
    BY <2>2 DEF SeenDropFails
  <2> QED
    BY <2>1, <2>2 DEF SeenShutdown
<1>5. Ends("vmm", VmmPlace')
  BY <1>3, <1>4, IoctlEnds
<1> QED
  BY <1>2, <1>5, VmmMoves, WorkerStays

LEMMA KvmRunFailureSeen ==
  ASSUME TraceInv, RunInv', SeenKvmRunFails
  PROVE  TraceInv'
<1>1. phase = "run" /\ pq["vmm"].pc = "idle" /\ phase' = "shutdown" /\ UNCHANGED <<worker, count>>
  BY DEF SeenKvmRunFails, KvmRunFails, Break, backend_vars
<1>2. VmmPlace = InRun
  BY <1>1, VmmIsAt
<1>3. VmmPlace' = <<>>
  BY <1>1 DEF VmmPlace
<1>4. Does("vmm", InRun, KvmRunRet(-1), <<>>) /\ Fire(<<KvmRunRet(-1)>>)
  BY RunsDo DEF SeenKvmRunFails
<1> DEFINE e == KvmRunRet(-1)
<1> HIDE DEF e
<1>5. Does("vmm", InRun, e, <<>>) /\ Fire(<<e>>)
  BY <1>4 DEF e
<1>6. Ends("vmm", VmmPlace')
  BY <1>2, <1>3, <1>5, AtThatPlace, Fires1
<1> QED
  BY <1>1, <1>6, VmmMoves, WorkerStays

\* The worker.
LEMMA WorkerSeen ==
  ASSUME TraceInv, RunInv',
         \/ SeenWorkerWoken \/ SeenWorkerQueue \/ SeenWorkerCheck \/ SeenWorkerInterrupt
         \/ SeenWorkerCount \/ SeenWorkerCallFails
         \/ ((WorkerRead \/ WorkerCall \/ WorkerReadFails) /\ Fire(<<>>))
  PROVE  TraceInv'
<1>0. ConsumerInv /\ RngTypes /\ KickInv /\ "vmm" \in Callers /\ "worker" \in Callers
  BY DEF TraceInv, RunInv, ConsumerInv, Callers
<1>1. phase' = phase
  BY DEF SeenWorkerWoken, SeenWorkerQueue, SeenWorkerCheck, SeenWorkerInterrupt, SeenWorkerCount,
         SeenWorkerCallFails, WorkerRead, WorkerReadFails, WorkerWoken, WorkerQueue, WorkerCheck,
         WorkerInterrupt, WorkerCall, WorkerCallFails, WorkerCount, WorkerUnchanged, vmm_vars
<1>2. pq'["vmm"] = pq["vmm"]
  <2>1. CASE UNCHANGED queue_vars
    BY <2>1 DEF queue_vars
  <2>2. CASE PqStep("worker") \/ PqCall("worker") \/ PqReturn("worker")
    BY <1>0, <2>2, CallIsLocal
  <2> QED
    BY <2>1, <2>2
       DEF SeenWorkerWoken, SeenWorkerQueue, SeenWorkerCheck, SeenWorkerInterrupt, SeenWorkerCount,
           SeenWorkerCallFails, WorkerRead, WorkerReadFails, WorkerWoken, WorkerQueue, WorkerCheck,
           WorkerInterrupt, WorkerCall, WorkerCallFails, WorkerCount, reg_vars
<1>3. VmmPlace' = VmmPlace
  BY <1>1, <1>2, VmmStays
<1>4. SUFFICES Ends("worker", WorkerPlace')
  BY <1>3, WorkerMoves
<1>5. Agrees(virtio_bpf, calls) /\ InCalls(calls.stack["worker"], WorkerPlace) /\ "worker" \in Observed
  BY AtThatPlace
<1>6. ASSUME count' = count
      PROVE  InKick' = InKick /\ InServe' = InServe /\ InSignal' = InSignal
  BY <1>6 DEF InKick, InServe, InSignal
<1>7. CASE SeenWorkerWoken
  <2> DEFINE kick == Call("worker", "process_ioeventfd_kick", <<count>>, None, Memory)
             serve == Call("worker", "process_queue", <<>>, None, Memory)
             fails == KickRet(FALSE)
  <2>1. worker = "woken" /\ count' = count /\ stop \in BOOLEAN
    BY <1>0, <1>7 DEF SeenWorkerWoken, WorkerWoken, KickInv
  <2>2. WorkerPlace = <<>>
    BY <2>1, WorkerIsAt
  <2>3. Does("worker", <<>>, kick, InKick)
    BY KicksDo, MemoryReads
  <2>31. Does("worker", InKick, serve, InServe)
    BY KicksDo, MemoryReads
  <2>32. Does("worker", InKick, fails, <<>>)
    BY WorkerReturnsDo
  <2>4. /\ stop => Fire(<<>>) /\ worker' = "ended"
        /\ ~stop /\ count = 1 => Fire(<<kick, serve>>) /\ worker' = "queue"
        /\ ~stop /\ count # 1 => Fire(<<kick, fails>>) /\ worker' = "ended"
    BY <1>7, <2>1 DEF SeenWorkerWoken, WorkerWoken, WorkerFails
  <2> HIDE DEF kick, serve, fails
  <2>5. CASE stop
    <3>1. WorkerPlace' = <<>>
      BY <2>4, <2>5 DEF WorkerPlace
    <3> QED
      BY <1>5, <2>2, <2>4, <2>5, <3>1, Fires0
  <2>6. CASE ~stop /\ count = 1
    <3>1. WorkerPlace' = InServe
      BY <1>6, <2>1, <2>4, <2>6 DEF WorkerPlace
    <3>2. Ends("worker", InServe)
      BY <1>5, <2>2, <2>3, <2>31, <2>4, <2>6, Fires2
    <3> QED
      BY <3>1, <3>2
  <2>7. CASE ~stop /\ count # 1
    <3>1. WorkerPlace' = <<>>
      BY <2>4, <2>7 DEF WorkerPlace
    <3>2. Ends("worker", <<>>)
      BY <1>5, <2>2, <2>3, <2>32, <2>4, <2>7, Fires2
    <3> QED
      BY <3>1, <3>2
  <2> QED
    BY <2>1, <2>5, <2>6, <2>7
<1>8. CASE SeenWorkerQueue
  <2> DEFINE ok == pq["worker"].pc = "done"
             returns == Ret("worker", "process_queue", <<>>, None, Result(ok), Memory')
             fails == KickRet(FALSE)
  <2>1. worker = "queue" /\ count' = count
    BY <1>8 DEF SeenWorkerQueue, WorkerQueue
  <2>2. WorkerPlace = InServe
    BY <2>1, WorkerIsAt
  <2>3. Does("worker", InServe, returns, InKick)
    BY WorkerReturnsDo
  <2>31. Does("worker", InKick, fails, <<>>)
    BY WorkerReturnsDo
  <2>4. \/ pq'["worker"].pc # "idle" /\ worker' = "queue"
        \/ pq'["worker"].pc = "idle" /\ ok /\ worker' = "check"
        \/ pq'["worker"].pc = "idle" /\ ~ok /\ worker' = "ended"
    <3>1. CASE PqStep("worker") /\ UNCHANGED worker
      BY <1>0, <2>1, <3>1, ServiceGoesOn
    <3>2. CASE PqReturn("worker") /\ ((ok /\ worker' = "check") \/ (pq["worker"].pc = "failed" /\ WorkerFails))
      <4>1. pq'["worker"].pc = "idle"
        BY <1>0, <3>2 DEF PqReturn, Goto, RngTypes
      <4> QED
        BY <3>2, <4>1 DEF WorkerFails
    <3> QED
      BY <1>8, <3>1, <3>2 DEF SeenWorkerQueue, WorkerQueue
  <2>5. /\ pq'["worker"].pc # "idle" => Fire(<<>>)
        /\ pq'["worker"].pc = "idle" /\ ok => Fire(<<returns>>)
        /\ pq'["worker"].pc = "idle" /\ ~ok => Fire(<<returns, fails>>)
    BY <1>8 DEF SeenWorkerQueue
  <2> HIDE DEF ok, returns, fails
  <2>6. CASE pq'["worker"].pc # "idle" /\ worker' = "queue"
    <3>1. WorkerPlace' = InServe
      BY <1>6, <2>1, <2>6 DEF WorkerPlace
    <3>2. Ends("worker", InServe)
      BY <1>5, <2>2, <2>5, <2>6, Fires0
    <3> QED
      BY <3>1, <3>2
  <2>7. CASE pq'["worker"].pc = "idle" /\ ok /\ worker' = "check"
    <3>1. WorkerPlace' = InKick
      BY <1>6, <2>1, <2>7 DEF WorkerPlace
    <3>2. Ends("worker", InKick)
      BY <1>5, <2>2, <2>3, <2>5, <2>7, Fires1
    <3> QED
      BY <3>1, <3>2
  <2>8. CASE pq'["worker"].pc = "idle" /\ ~ok /\ worker' = "ended"
    <3>1. WorkerPlace' = <<>>
      BY <2>8 DEF WorkerPlace
    <3>2. Ends("worker", <<>>)
      BY <1>5, <2>2, <2>3, <2>31, <2>5, <2>8, Fires2
    <3> QED
      BY <3>1, <3>2
  <2> QED
    BY <2>4, <2>6, <2>7, <2>8
<1>9. CASE SeenWorkerCheck
  <2> DEFINE fails == KickRet(FALSE)
  <2>1. worker = "check" /\ count' = count /\ worker' \in {"interrupt", "ended"}
    BY <1>9 DEF SeenWorkerCheck, WorkerCheck, WorkerFails
  <2>2. WorkerPlace = InKick
    BY <2>1, WorkerIsAt
  <2>3. Does("worker", InKick, fails, <<>>)
    BY WorkerReturnsDo
  <2>4. IF worker' = "ended" THEN Fire(<<fails>>) ELSE Fire(<<>>)
    BY <1>9 DEF SeenWorkerCheck
  <2> HIDE DEF fails
  <2>5. CASE worker' = "interrupt"
    <3>1. WorkerPlace' = InKick
      BY <1>6, <2>1, <2>5 DEF WorkerPlace
    <3>2. Ends("worker", InKick)
      BY <1>5, <2>2, <2>4, <2>5, Fires0
    <3> QED
      BY <3>1, <3>2
  <2>6. CASE worker' = "ended"
    <3>1. WorkerPlace' = <<>>
      BY <2>6 DEF WorkerPlace
    <3>2. Ends("worker", <<>>)
      BY <1>5, <2>2, <2>3, <2>4, <2>6, Fires1
    <3> QED
      BY <3>1, <3>2
  <2> QED
    BY <2>1, <2>5, <2>6
<1>10. CASE SeenWorkerInterrupt
  <2> DEFINE signals == Call("worker", "signal_irqfd_completion", <<1>>, None, Memory')
  <2>1. worker = "interrupt" /\ count' = count /\ worker' = "call" /\ Fire(<<signals>>)
    BY <1>10 DEF SeenWorkerInterrupt, WorkerInterrupt
  <2>2. WorkerPlace = InKick
    BY <2>1, WorkerIsAt
  <2>3. Does("worker", InKick, signals, InSignal)
    BY KicksDo, MemoryReads
  <2> HIDE DEF signals
  <2>4. WorkerPlace' = InSignal
    BY <1>6, <2>1 DEF WorkerPlace
  <2>5. Ends("worker", InSignal)
    BY <1>5, <2>1, <2>2, <2>3, Fires1
  <2> QED
    BY <2>4, <2>5
<1>11. CASE SeenWorkerCount \/ SeenWorkerCallFails
  <2>1. worker \in {"call", "count"} /\ worker' \in {"read", "ended"}
        /\ \E ok : Fire(<<SignalRet(ok), KickRet(ok)>>)
    BY <1>11 DEF SeenWorkerCount, SeenWorkerCallFails, WorkerCount, WorkerCallFails, WorkerFails
  <2>2. PICK ok : Fire(<<SignalRet(ok), KickRet(ok)>>)
    BY <2>1
  <2>3. WorkerPlace = InSignal
    BY <2>1, WorkerIsAt
  <2>4. Does("worker", InSignal, SignalRet(ok), InKick)
    BY WorkerReturnsDo
  <2>5. Does("worker", InKick, KickRet(ok), <<>>)
    BY WorkerReturnsDo
  <2>6. WorkerPlace' = <<>>
    BY <2>1 DEF WorkerPlace
  <2>7. Ends("worker", <<>>)
    BY <1>5, <2>2, <2>3, <2>4, <2>5, Fires2
  <2> QED
    BY <2>6, <2>7
<1>12. CASE (WorkerRead \/ WorkerReadFails) /\ Fire(<<>>)
  <2>1. worker = "read" /\ worker' \in {"woken", "ended"}
    BY <1>12 DEF WorkerRead, WorkerReadFails, WorkerFails
  <2>2. WorkerPlace = <<>>
    BY <2>1, WorkerIsAt
  <2>3. WorkerPlace' = <<>>
    BY <2>1 DEF WorkerPlace
  <2> QED
    BY <1>5, <1>12, <2>2, <2>3, Fires0
<1>13. CASE WorkerCall /\ Fire(<<>>)
  <2>1. worker = "call" /\ worker' = "count" /\ count' = count
    BY <1>13 DEF WorkerCall
  <2>2. WorkerPlace = InSignal
    BY <2>1, WorkerIsAt
  <2>3. WorkerPlace' = InSignal
    BY <1>6, <2>1 DEF WorkerPlace
  <2> QED
    BY <1>5, <1>13, <2>2, <2>3, Fires0
<1> QED
  BY <1>7, <1>8, <1>9, <1>10, <1>11, <1>12, <1>13

\* The rest of the machine.
LEMMA MachineKeeps ==
  ASSUME TraceInv, RunInv', UNCHANGED rng_vars, Agrees(virtio_bpf', calls'), StrayPlaced',
         calls'.stack["vmm"] = calls.stack["vmm"], calls'.stack["worker"] = calls.stack["worker"]
  PROVE  TraceInv'
<1>1. UNCHANGED <<worker, count, phase, pq>>
  BY DEF rng_vars, reg_vars, queue_vars, vmm_vars, backend_vars
<1>2. VmmPlace' = VmmPlace /\ WorkerPlace' = WorkerPlace
  BY <1>1, VmmStays, WorkerStays
<1> HIDE DEF VmmPlace, WorkerPlace
<1>3. CallsInv'
  BY <1>2 DEF TraceInv, CallsInv
<1> QED
  BY <1>3 DEF TraceInv

StrayArgs == <<"STATUS", "read">>

LEMMA StrayCallsSeen ==
  ASSUME TraceInv, RunInv', StrayCalls
  PROVE  TraceInv'
<1> DEFINE e1 == Call("stray", "ioctl", <<"KVM_RUN">>, None, <<>>)
           e2 == Ret("stray", "ioctl", <<>>, None, 0, <<>>)
           e3 == Call("stray", "do_mmio", StrayArgs, 0, Memory)
           s0 == Unsaid(calls)
           es == <<e1, e2, e3>>
<1>1. calls.stack["stray"] = <<>> /\ Agrees(virtio_bpf, calls) /\ "stray" \in Observed
  BY DEF StrayCalls, TraceInv, CallsInv, StrayPlaced, Observed
<1>2. Fire(<<e1, e2, e3>>) /\ UNCHANGED rng_vars
  BY DEF StrayCalls, StrayArgs
<1>3. InCalls(calls.stack["stray"], <<>>)
  BY <1>1, PlaceOf
<1>4. Does("stray", <<>>, e1, InRun) /\ Does("stray", InRun, e2, <<>>)
  BY IoctlsDo DEF InRun
<1>5. Does("stray", <<>>, e3, InMmio(StrayArgs))
  <2>1. GoodCall("do_mmio", StrayArgs, 0, Memory)
    BY MemoryReads DEF GoodCall, Fns, StrayArgs
  <2> QED
    BY <2>1, CallsDo DEF InMmio
<1>6. /\ \E a, v, u : e1 = Call("stray", "ioctl", a, v, u)
      /\ \E a, v, r, u : e2 = Ret("stray", "ioctl", a, v, r, u)
      /\ \E a, v, u : e3 = Call("stray", "do_mmio", a, v, u)
  BY Zenon
<1>7. Len(es) = 3 /\ es[1] = e1 /\ es[2] = e2 /\ es[3] = e3
  OBVIOUS
<1>8. Fire(es)
  BY <1>2
<1> HIDE DEF e1, e2, e3, s0, es
<1>9. Ends("stray", InMmio(StrayArgs))
  BY <1>1, <1>2, <1>3, <1>4, <1>5, Fires3
<1>10. calls'.numbers["stray"].ioctl # 0
  <2>1. calls' = RunHooks(Really, s0, es)
    BY <1>8, FireIs DEF s0
  <2>2. PICK w : InTruth(w, s0, es, 3) /\ RunHooks(Really, s0, es) = w[3]
    BY <1>7, TruthRuns
  <2>3. w[0] = s0 /\ w[1] = Really(w[0], e1) /\ w[2] = Really(w[1], e2) /\ w[3] = Really(w[2], e3)
    BY <1>7, <2>2 DEF InTruth
  <2>4. IsCalls(s0)
    BY <1>1, StepBegins DEF Agrees, s0
  <2>5. IsCalls(w[1]) /\ w[1].numbers["stray"].ioctl # 0
    <3> DEFINE n == s0.numbers["stray"][Class("ioctl")] + 1
    <3>1. n \in Nat /\ n # 0
      BY <1>1, <2>4 DEF IsCalls, Class, Observed, Threads
    <3> HIDE DEF n
    <3>2. IsCalls(w[1]) /\ w[1].numbers["stray"].ioctl = n
      BY <1>1, <1>6, <2>3, <2>4, ReallyCalls DEF n, Fns
    <3> QED
      BY <3>1, <3>2
  <2>6. IsCalls(w[2]) /\ w[2].numbers = w[1].numbers
    BY <1>1, <1>6, <2>3, <2>5, ReallyReturns
  <2>7. w[3].numbers["stray"].ioctl = w[2].numbers["stray"].ioctl
    <3> DEFINE n == w[2].numbers["stray"][Class("do_mmio")] + 1
    <3>1. n = w[2].numbers["stray"][Class("do_mmio")] + 1 /\ "do_mmio" \in Fns /\ "do_mmio" # "ioctl"
      BY DEF Fns
    <3> HIDE DEF n
    <3> QED
      BY <1>1, <1>6, <2>3, <2>6, <3>1, ReallyCalls
  <2> QED
    BY <2>1, <2>2, <2>5, <2>6, <2>7
<1>11. PICK st : InCalls(st, InMmio(StrayArgs)) /\ Moved(calls, calls', "stray", st)
  BY <1>9 DEF Ends, Goes
<1>12. /\ calls'.stack["stray"] = st /\ calls'.stack["worker"] = calls.stack["worker"]
       /\ calls'.stack["vmm"] = calls.stack["vmm"]
  BY <1>11 DEF Moved, Threads
<1>13. StrayPlaced'
  BY <1>10, <1>11, <1>12 DEF StrayPlaced, InMmio, StrayArgs
<1> QED
  BY <1>2, <1>9, <1>12, <1>13, MachineKeeps DEF Ends

LEMMA StrayReturnsSeen ==
  ASSUME TraceInv, RunInv', StrayReturns
  PROVE  TraceInv'
<1> DEFINE e == Ret("stray", "do_mmio", StrayArgs, 0, 0, Memory)
<1>1. InCalls(calls.stack["stray"], InMmio(StrayArgs)) /\ Agrees(virtio_bpf, calls) /\ "stray" \in Observed
  BY PlaceOf DEF StrayReturns, TraceInv, CallsInv, StrayPlaced, Observed, StrayArgs
<1>2. Fire(<<e>>) /\ UNCHANGED rng_vars
  BY DEF StrayReturns, StrayArgs
<1>3. Does("stray", InMmio(StrayArgs), e, <<>>)
  <2>1. GoodReturn("do_mmio", StrayArgs, 0, Memory, Frame("do_mmio", 0, StrayArgs))
    BY MemoryReads, FrameIs DEF GoodReturn, Fns
  <2> QED
    BY <2>1, ReturnsDo DEF InMmio
<1> HIDE DEF e
<1>4. Ends("stray", <<>>)
  BY <1>1, <1>2, <1>3, Fires1
<1>5. PICK st : InCalls(st, <<>>) /\ Moved(calls, calls', "stray", st)
  BY <1>4 DEF Ends, Goes
<1>6. /\ calls'.stack["stray"] = <<>> /\ calls'.stack["worker"] = calls.stack["worker"]
      /\ calls'.stack["vmm"] = calls.stack["vmm"] /\ InCalls(calls'.stack["stray"], <<>>)
  BY <1>5, PlaceOf DEF Moved, Threads
<1>7. StrayPlaced'
  BY <1>6 DEF StrayPlaced
<1> QED
  BY <1>2, <1>4, <1>6, <1>7, MachineKeeps DEF Ends

LEMMA OtherIoctlSeen ==
  ASSUME TraceInv, RunInv', OtherIoctl
  PROVE  TraceInv'
<1> DEFINE e1 == Call("other", "ioctl", <<"TIOCGWINSZ">>, None, <<>>)
           e2 == Ret("other", "ioctl", <<>>, None, 0, <<>>)
           b0 == Silenced(virtio_bpf)
           s0 == Unsaid(calls)
           es == <<e1, e2>>
<1>1. Fire(es) /\ UNCHANGED rng_vars /\ Len(es) = 2 /\ es[1] = e1 /\ es[2] = e2
  BY DEF OtherIoctl
<1>2. Agrees(b0, s0) /\ s0.stack = calls.stack /\ s0.numbers = calls.numbers
  BY StepBegins DEF TraceInv
<1>3. /\ \E a : e1 = Call("other", "ioctl", a, None, <<>>)
      /\ \E r : e2 = Ret("other", "ioctl", <<>>, None, r, <<>>)
      /\ e1.t = "other" /\ e2.t = "other"
  BY EventFields
<1>4. virtio_bpf' = RunHooks(Hook, b0, es) /\ calls' = RunHooks(Really, s0, es)
  BY <1>1, FireIs
<1> HIDE DEF e1, e2, b0, s0, es
<1>5. PICK u : InOrder(u, b0, es, 2) /\ RunHooks(Hook, b0, es) = u[2]
  BY <1>1, HooksRun
<1>6. PICK w : InTruth(w, s0, es, 2) /\ RunHooks(Really, s0, es) = w[2]
  BY <1>1, TruthRuns
<1>7. u[0] = b0 /\ u[1] = Hook(u[0], e1) /\ u[2] = Hook(u[1], e2)
  BY <1>1, <1>5 DEF InOrder
<1>8. w[0] = s0 /\ w[1] = Really(w[0], e1) /\ w[2] = Really(w[1], e2)
  BY <1>1, <1>6 DEF InTruth
<1>9. /\ Agrees(u[1], w[1])
      /\ \A j \in Observed : w[1].stack[j] = s0.stack[j] /\ w[1].numbers[j] = s0.numbers[j]
  BY <1>2, <1>3, <1>7, <1>8, OtherAgrees
<1>10. /\ Agrees(u[2], w[2])
       /\ \A j \in Observed : w[2].stack[j] = w[1].stack[j] /\ w[2].numbers[j] = w[1].numbers[j]
  BY <1>3, <1>7, <1>8, <1>9, OtherAgrees
<1>11. /\ Agrees(virtio_bpf', calls')
       /\ calls'.stack["vmm"] = calls.stack["vmm"] /\ calls'.stack["worker"] = calls.stack["worker"]
       /\ calls'.stack["stray"] = calls.stack["stray"] /\ calls'.numbers["stray"] = calls.numbers["stray"]
  BY <1>2, <1>4, <1>5, <1>6, <1>9, <1>10 DEF Observed
<1>12. StrayPlaced'
  BY <1>11 DEF TraceInv, CallsInv, StrayPlaced, InMmio
<1> QED
  BY <1>1, <1>11, <1>12, MachineKeeps

LEMMA RingTurnsSeen ==
  ASSUME TraceInv, RunInv', RingTurns
  PROVE  TraceInv'
<1> DEFINE b == virtio_bpf'
<1>0. IsVirtio(virtio_bpf) /\ IsCalls(calls) /\ Agrees(virtio_bpf, calls)
  BY DEF TraceInv, Agrees
<1>1. /\ DOMAIN b = DOMAIN virtio_bpf /\ b.out = <<>>
      /\ \A f \in DOMAIN virtio_bpf : f \notin {"full", "out"} => b[f] = virtio_bpf[f]
  BY <1>0 DEF RingTurns, IsVirtio
<1>2. /\ DOMAIN calls' = DOMAIN calls /\ calls'.told = <<>> /\ calls'.stack = calls.stack
      /\ calls'.numbers = calls.numbers
  BY <1>0 DEF RingTurns, IsCalls
<1>3. UNCHANGED rng_vars
  BY DEF RingTurns
<1> HIDE DEF b
<1>4. IsVirtio(b) /\ b.lost = virtio_bpf.lost
  BY <1>0, <1>1 DEF IsVirtio
<1>5. \A m \in VirtioMaps : \A k : Here(b, m, k) = Here(virtio_bpf, m, k)
  BY <1>0, <1>1, MapNames DEF IsVirtio, Here
<1>6. IsCalls(calls')
  BY <1>0, <1>2 DEF IsCalls
<1>7. SeesAll(virtio_bpf, calls) => SeesAll(b, calls')
  <2>1. "active_ioctl" \in VirtioMaps /\ "ioctl_counters" \in VirtioMaps
        /\ "operation_counters" \in VirtioMaps /\ \A fn \in Fns : ActiveMap[fn] \in VirtioMaps
    BY MapNames DEF VirtioMaps
  <2> QED
    BY <1>2, <1>5, <2>1 DEF SeesAll, Sees, Tally
<1>8. Agrees(b, calls')
  BY <1>0, <1>1, <1>2, <1>4, <1>6, <1>7 DEF Agrees
<1>9. StrayPlaced'
  BY <1>2 DEF TraceInv, CallsInv, StrayPlaced, InMmio
<1> QED
  BY <1>2, <1>3, <1>8, <1>9, MachineKeeps DEF b

LEMMA LoadedVirtio ==
  /\ IsVirtio(Loaded(VirtioMaps)) /\ Loaded(VirtioMaps).lost = FALSE /\ Loaded(VirtioMaps).out = <<>>
  /\ \A m \in VirtioMaps : \A k : Here(Loaded(VirtioMaps), m, k) = {}
<1> DEFINE g == Loaded(VirtioMaps)
<1>1. /\ DOMAIN g = VirtioMaps \cup {"out", "full", "lost"}
      /\ \A n \in VirtioMaps : g[n] = Empty
      /\ g["out"] = <<>> /\ g["lost"] = FALSE
  BY DEF Loaded, VirtioMaps
<1> HIDE DEF g
<1>2. \A m \in VirtioMaps : \A k : Here(g, m, k) = {}
  BY <1>1, FreshMap
<1>3. IsVirtio(g)
  BY <1>1 DEF IsVirtio
<1> QED
  BY <1>1, <1>2, <1>3 DEF g

LEMMA TraceInvAtStart ==
  ASSUME TraceInit
  PROVE  TraceInv
<1> DEFINE b == Loaded(VirtioMaps)
           s == [stack |-> [t \in Threads |-> <<>>],
                 numbers |-> [t \in Threads |-> [ioctl |-> 0, operation |-> 0]],
                 told |-> <<>>]
<1>1. RunInv
  BY RunInvAtStart DEF TraceInit
<1>2. virtio_bpf = Hook(b, KvmRunCall) /\ calls = Really(s, KvmRunCall)
  BY DEF TraceInit
<1>3. IsCalls(s) /\ s.told = <<>>
  BY DEF IsCalls
<1>4. \A t \in Threads : s.stack[t] = <<>> /\ s.numbers[t].ioctl = 0 /\ s.numbers[t].operation = 0
  OBVIOUS
<1>5. Observed \subseteq Threads /\ {"vmm", "worker", "stray"} \subseteq Threads /\ "vmm" \in Observed
  BY DEF Observed, Threads
<1> HIDE DEF b, s
<1>6. IsVirtio(b) /\ b.lost = FALSE /\ b.out = <<>> /\ \A m \in VirtioMaps : \A k : Here(b, m, k) = {}
  BY LoadedVirtio DEF b
<1>7. SeesAll(b, s)
  <2>1. "active_ioctl" \in VirtioMaps /\ "ioctl_counters" \in VirtioMaps
        /\ "operation_counters" \in VirtioMaps /\ \A fn \in Fns : ActiveMap[fn] \in VirtioMaps
    BY MapNames DEF VirtioMaps
  <2>2. Frames(<<>>) = {}
    BY Stacks
  <2>3. ASSUME NEW t \in Observed
        PROVE  Sees(b, t, Frames(s.stack[t]), s.numbers[t].ioctl, s.numbers[t].operation)
    <3>1. Frames(s.stack[t]) = {} /\ s.numbers[t].ioctl = 0 /\ s.numbers[t].operation = 0
      BY <1>4, <1>5, <2>2
    <3> QED
      BY <1>6, <2>1, <3>1 DEF Sees, Tally
  <2> QED
    BY <1>6, <2>1, <2>3 DEF SeesAll
<1>8. Agrees(b, s)
  BY <1>3, <1>6, <1>7 DEF Agrees
<1>9. InCalls(s.stack["vmm"], <<>>)
  BY <1>4, <1>5, PlaceOf
<1>10. Agrees(virtio_bpf, calls) /\ Goes(s, calls, "vmm", InRun)
  <2>1. KvmRunCall.t = "vmm" /\ Legal(<<>>, KvmRunCall, InRun)
    BY RunsDo DEF Does
  <2> QED
    BY <1>2, <1>5, <1>8, <1>9, <2>1, EventAgrees
<1>11. PICK st : InCalls(st, InRun) /\ Moved(s, calls, "vmm", st)
  BY <1>10 DEF Goes
<1>12. /\ calls.stack["vmm"] = st /\ calls.stack["worker"] = <<>> /\ calls.stack["stray"] = <<>>
  BY <1>4, <1>5, <1>11 DEF Moved
<1>13. VmmPlace = InRun /\ WorkerPlace = <<>>
  <2>1. phase = "run" /\ worker = "none" /\ pq["vmm"].pc = "idle"
    BY DEF TraceInit, RngInit, TransportInit, QueueInit, Callers
  <2> QED
    BY <2>1, VmmIsAt, WorkerIsAt
<1>14. InCalls(calls.stack["worker"], <<>>) /\ InCalls(calls.stack["stray"], <<>>)
  BY <1>12, PlaceOf
<1>15. CallsInv
  BY <1>11, <1>12, <1>13, <1>14 DEF CallsInv, StrayPlaced
<1> QED
  BY <1>1, <1>10, <1>15 DEF TraceInv

LEMMA TraceInvIsInductive ==
  ASSUME TraceInv, [TraceNext]_trace_vars
  PROVE  TraceInv'
<1>1. RunInv'
  <2>1. [RngNext]_rng_vars
    <3>1. CASE SeenGuest
      BY <3>1 DEF SeenGuest, SeenWrite, SeenWriteAddr, SeenRead, SeenIsrStatus, SeenIsrAck,
                  SeenLocally, SeenNotify, GuestStep, RngNext
    <3>2. CASE SeenVmm
      BY <3>2 DEF SeenVmm, SeenNotifyWork, SeenNotifyExit, SeenSetup, SeenDrop, SeenShutdown,
                  VmmStep, RngNext
    <3>3. CASE SeenWorker
      BY <3>3 DEF SeenWorker, SeenWorkerWoken, SeenWorkerQueue, SeenWorkerCheck,
                  SeenWorkerInterrupt, SeenWorkerCount, WorkerStep, RngNext
    <3>4. CASE SeenFaults
      BY <3>4 DEF SeenFaults, SeenSetupFails, SeenDropFails, SeenKvmRunFails, SeenWorkerCallFails,
                  FaultStep, RngNext
    <3>5. CASE Machine
      BY <3>5 DEF Machine, StrayCalls, StrayReturns, OtherIoctl, RingTurns
    <3>6. CASE UNCHANGED trace_vars
      BY <3>6 DEF trace_vars
    <3> QED
      BY <3>1, <3>2, <3>3, <3>4, <3>5, <3>6 DEF TraceNext
  <2> QED
    BY <2>1, RunInvIsInductive DEF TraceInv
<1>2. CASE SeenGuest
  BY <1>1, <1>2, AccessesSeen, LocallySeen, NotifySeen DEF SeenGuest
<1>3. CASE SeenVmm
  BY <1>1, <1>3, ServiceSeen, SetupSeen, ShutdownSeen DEF SeenVmm
<1>4. CASE SeenWorker
  BY <1>1, <1>4, WorkerSeen DEF SeenWorker
<1>5. CASE SeenFaults
  BY <1>1, <1>5, SetupSeen, ShutdownSeen, KvmRunFailureSeen, WorkerSeen DEF SeenFaults
<1>6. CASE Machine
  BY <1>1, <1>6, StrayCallsSeen, StrayReturnsSeen, OtherIoctlSeen, RingTurnsSeen DEF Machine
<1>7. CASE UNCHANGED trace_vars
  <2>1. UNCHANGED <<virtio_bpf, calls>> /\ UNCHANGED rng_vars
    BY <1>7 DEF trace_vars
  <2>2. StrayPlaced'
    BY <2>1 DEF TraceInv, CallsInv, StrayPlaced, InMmio
  <2>3. Agrees(virtio_bpf', calls')
    BY <2>1 DEF TraceInv
  <2> QED
    BY <1>1, <2>1, <2>2, <2>3, MachineKeeps
<1> QED
  BY <1>2, <1>3, <1>4, <1>5, <1>6, <1>7 DEF TraceNext

(* As long as no map was full and no record was refused by the ring, the records of a step are
   exactly the calls and returns it made, each with the number and the arguments of its own call
   and the device and rings of that moment, whichever way the VMM thread, the worker, a second
   process of the same name and other programs interleave and whichever call fails; for any number
   of requests and any size of the maps. *)
THEOREM VirtioTraceIsExact == TraceSpec => []VirtioTraceExact
<1>1. TraceInit => TraceInv
  BY TraceInvAtStart
<1>2. TraceInv /\ [TraceNext]_trace_vars => TraceInv'
  BY TraceInvIsInductive
<1>3. TraceInv => VirtioTraceExact
  BY DEF TraceInv, Agrees, VirtioTraceExact
<1> QED
  BY <1>1, <1>2, <1>3, PTL DEF TraceSpec
=============================================================================
