------------------------------ MODULE ToyProof ------------------------------
(***************************************************************************)
(* One interrupt per command of the toy device of experiments/virt-io, for *)
(* any number of failing system calls and other virtual machines, and the  *)
(* trace the programs of io.bpf.c make of it.                              *)
(***************************************************************************)
EXTENDS ToyIo, BpfProof, FiniteSetTheorems

Vectors == {DEVICE_VECTOR, MSI_VECTOR}

\* The commands guest.S has written when its program counter is n.
Written(n) == IF n <= 4 THEN 0 ELSE IF n <= 7 THEN 1 ELSE IF n <= 12 THEN 2
              ELSE IF n <= 15 THEN 3 ELSE IF n <= 18 THEN 4 ELSE 5

\* Between a command and the end of the wait for its interrupt.
Outstanding == {5, 8, 9, 10, 13, 16, 19}

AtCommand == vmm.pc = "exit" /\ run[1] = "mmio" /\ run[2] = "write" /\ run[3] = "REG_COMMAND"

ToyTypes ==
  /\ vmm \in [pc : {"setup", "loop", "guest", "exit", "assert", "deassert", "msi", "return",
                    "failed", "done"}, i : Nat]
  /\ DOMAIN dev = {"command", "status", "dma_gpa", "buffer"}
  /\ DOMAIN guest = {"pc", "isr", "if", "irq_count", "halted"}
  /\ guest.pc \in 1 .. 21 /\ guest.isr \in 0 .. 3 /\ guest.irq_count \in Nat
  /\ irq \in [line : {0, 1}, irr : SUBSET Vectors, isr : SUBSET Vectors]
  /\ count \in [calls : Nat, exits : Nat, ops : Nat]
  /\ faults \in Nat

\* What KVM_RUN has returned with is what the guest's last instruction asked for.
ExitInv ==
  vmm.pc = "exit" =>
    \/ /\ guest.isr = 0 /\ guest.pc - 1 \in {4, 7, 12, 15, 18}
       /\ run = <<"mmio", "write", "REG_COMMAND", Program[guest.pc - 1].arg>>
    \/ guest.isr = 0 /\ run = <<"io", "MARKER_PORT">>
    \/ guest.isr = 0 /\ guest.pc = 21 /\ run = <<"io", "DONE_PORT">>
    \/ guest.isr = 0 /\ \E g \in {"src", "dst"} : run = <<"mmio", "write", "REG_DMA_GPA", g>>
    \/ guest.isr = 2 /\ run = <<"mmio", "read", "REG_STATUS">>
    \/ guest.isr = 3 /\ run = <<"mmio", "write", "REG_IRQ_ACK", "1">>

\* Interrupts that were raised and are not counted by the handler.
Waiting == Cardinality(irq.irr \cup irq.isr)

\* At most one interrupt per command, whatever fails.
AtMostOne ==
  /\ guest.isr = 0 <=> irq.isr = {}
  /\ irq.irr \cap irq.isr = {}
  /\ guest.isr # 0 => vmm.pc \in {"loop", "guest", "exit", "failed"}
  /\ count.ops = Written(guest.pc) - (IF AtCommand THEN 1 ELSE 0)
  /\ guest.irq_count + Waiting + (IF vmm.pc \in {"assert", "msi"} THEN 1 ELSE 0)
       <= count.ops + (IF guest.isr > 1 THEN 1 ELSE 0)

\* Without a failing call, the command is at one of these places.
Vector == IF dev.command = "MSI_ONLY" THEN MSI_VECTOR ELSE DEVICE_VECTOR
Owed   == guest.irq_count = Written(guest.pc) - 1

Asked ==
  AtCommand /\ guest.isr = 0 /\ irq.irr = {} /\ Owed /\ dev.status # "DONE"
Raising ==
  /\ vmm.pc \in {"assert", "msi"} /\ guest.isr = 0 /\ irq.irr = {} /\ Owed
  /\ vmm.pc = "msi" <=> dev.command = "MSI_ONLY"
Raised ==
  /\ vmm.pc \in {"deassert", "return", "loop", "guest", "exit"} /\ ~AtCommand
  /\ guest.isr = 0 /\ irq.irr = {Vector} /\ Owed
Refused ==
  /\ vmm.pc \in {"return", "loop", "guest", "exit"} /\ ~AtCommand
  /\ guest.isr = 0 /\ irq.irr = {} /\ Owed /\ dev.status = "ERROR"
Handled ==
  /\ vmm.pc \in {"loop", "guest", "exit"} /\ ~AtCommand
  /\ guest.isr # 0 /\ irq.irr = {}
  /\ guest.irq_count = Written(guest.pc) - (IF guest.isr = 1 THEN 1 ELSE 0)
  /\ guest.isr = 3 /\ vmm.pc # "exit" => dev.status # "DONE"
Answered ==
  /\ vmm.pc \in {"setup", "loop", "guest", "exit", "done"} /\ ~AtCommand
  /\ guest.isr = 0 /\ irq.irr = {} /\ guest.irq_count = Written(guest.pc) /\ dev.status # "DONE"

ExactlyOne ==
  faults = 0 =>
    /\ irq.line = (IF vmm.pc = "deassert" THEN 1 ELSE 0)
    /\ guest.pc \notin Outstanding => Answered
    /\ Asked \/ Raising \/ Raised \/ Refused \/ Handled \/ Answered

ToyInv == ToyTypes /\ ExitInv /\ AtMostOne /\ ExactlyOne

-----------------------------------------------------------------------------
LEMMA ProgramText ==
  /\ Program[1] = Op("apic", "setup") /\ Program[2] = Op("marker", "APIC_READY")
  /\ Program[3] = Op("if", "sti") /\ Program[4] = Op("command", "IRQ_ONLY")
  /\ Program[5] = Op("wait", 1) /\ Program[6] = Op("if", "cli")
  /\ Program[7] = Op("command", "IRQ_ONLY") /\ Program[8] = Op("marker", "IRQ_PENDING_IF0")
  /\ Program[9] = Op("if", "sti") /\ Program[10] = Op("wait", 2)
  /\ Program[11] = Op("marker", "MSI") /\ Program[12] = Op("command", "MSI_ONLY")
  /\ Program[13] = Op("wait", 3) /\ Program[14] = Op("gpa", "src")
  /\ Program[15] = Op("command", "DMA_TO_DEVICE") /\ Program[16] = Op("wait", 4)
  /\ Program[17] = Op("gpa", "dst") /\ Program[18] = Op("command", "DMA_FROM_DEVICE")
  /\ Program[19] = Op("wait", 5) /\ Program[20] = Op("verify", "dst")
  /\ Program[21] = Op("done", "DONE_PORT")
BY DEF Program

\* Where each operation of guest.S stands, and what it waits for.
LEMMA Places ==
  ASSUME NEW n \in 1 .. 21
  PROVE  /\ Program[n].op = "command" => n \in {4, 7, 12, 15, 18} /\ Program[n].arg \in Commands
         /\ Program[n].op = "wait" => n \in {5, 10, 13, 16, 19} /\ Program[n].arg = Written(n)
         /\ Program[n].op = "apic" => n = 1
         /\ Program[n].op = "marker" => n \in {2, 8, 11}
         /\ Program[n].op = "if" => n \in {3, 6, 9}
         /\ Program[n].op = "gpa" => n \in {14, 17} /\ Program[n].arg \in {"src", "dst"}
         /\ Program[n].op = "verify" => n = 20
         /\ Program[n].op = "done" => n = 21
<1>1. \A o, a : Op(o, a).op = o /\ Op(o, a).arg = a
  BY DEF Op
<1>2. n \in {1, 2, 3, 4, 5, 6, 7} \cup {8, 9, 10, 11, 12, 13, 14} \cup {15, 16, 17, 18, 19, 20, 21}
  OBVIOUS
<1>3. CASE n \in {1, 2, 3, 4, 5, 6, 7}
  BY <1>1, <1>3, ProgramText DEF Written, Commands
<1>4. CASE n \in {8, 9, 10, 11, 12, 13, 14}
  BY <1>1, <1>4, ProgramText DEF Written, Commands
<1>5. CASE n \in {15, 16, 17, 18, 19, 20, 21}
  BY <1>1, <1>5, ProgramText DEF Written, Commands
<1> QED
  BY <1>2, <1>3, <1>4, <1>5

\* How many of the two vectors a set holds.
Held(s) == (IF DEVICE_VECTOR \in s THEN 1 ELSE 0) + (IF MSI_VECTOR \in s THEN 1 ELSE 0)

LEMMA HeldIsCardinality ==
  ASSUME NEW s \in SUBSET Vectors
  PROVE  Cardinality(s) = Held(s)
<1>0. DEVICE_VECTOR # MSI_VECTOR
  BY DEF DEVICE_VECTOR, MSI_VECTOR
<1>1. Cardinality({}) = 0 /\ IsFiniteSet({})
  BY FS_EmptySet
<1>2. \A v : Cardinality({v}) = 1
  BY FS_Singleton
<1>3. Cardinality({DEVICE_VECTOR} \cup {MSI_VECTOR}) = 2
  <2>1. IsFiniteSet({DEVICE_VECTOR}) /\ MSI_VECTOR \notin {DEVICE_VECTOR}
    BY <1>0, FS_Singleton
  <2>2. Cardinality({DEVICE_VECTOR} \cup {MSI_VECTOR}) = Cardinality({DEVICE_VECTOR}) + 1
    BY <2>1, FS_AddElement
  <2> QED
    BY <1>2, <2>2
<1>4. s = {} \/ s = {DEVICE_VECTOR} \/ s = {MSI_VECTOR} \/ s = {DEVICE_VECTOR} \cup {MSI_VECTOR}
  BY DEF Vectors
<1> QED
  BY <1>0, <1>1, <1>2, <1>3, <1>4 DEF Held

\* The interrupts that wait, before and after.
LEMMA WaitingIs ==
  ASSUME ToyTypes
  PROVE  Waiting = Held(irq.irr \cup irq.isr) /\ Waiting \in Nat
<1>1. irq.irr \cup irq.isr \in SUBSET Vectors
  BY DEF ToyTypes
<1> QED
  BY <1>1, HeldIsCardinality DEF Waiting, Held

LEMMA ToyInvAtStart ==
  ASSUME ToyInit
  PROVE  ToyInv
<1>1. /\ vmm = [pc |-> "setup", i |-> 1]
      /\ dev = [command |-> "none", status |-> "idle", dma_gpa |-> "code", buffer |-> "device pattern"]
      /\ guest = [pc |-> 1, isr |-> 0, if |-> FALSE, irq_count |-> 0, halted |-> FALSE]
      /\ irq = [line |-> 0, irr |-> {}, isr |-> {}]
      /\ count = [calls |-> 0, exits |-> 0, ops |-> 0] /\ faults = 0
  BY DEF ToyInit
<1>2. ToyTypes
  <2>1. DOMAIN dev = {"command", "status", "dma_gpa", "buffer"}
    BY <1>1
  <2>2. /\ DOMAIN guest = {"pc", "isr", "if", "irq_count", "halted"}
        /\ guest.pc \in 1 .. 21 /\ guest.isr \in 0 .. 3 /\ guest.irq_count \in Nat
    <3>1. guest = [pc |-> 1, isr |-> 0, if |-> FALSE, irq_count |-> 0, halted |-> FALSE]
      BY <1>1
    <3>2. DOMAIN guest = {"pc", "isr", "if", "irq_count", "halted"}
      BY <3>1
    <3>3. guest.pc = 1 /\ guest.isr = 0 /\ guest.irq_count = 0
      BY <3>1
    <3> QED
      BY <3>2, <3>3
  <2>3. irq \in [line : {0, 1}, irr : SUBSET Vectors, isr : SUBSET Vectors]
    BY <1>1
  <2>4. count \in [calls : Nat, exits : Nat, ops : Nat] /\ faults \in Nat
    BY <1>1
  <2>5. vmm \in [pc : {"setup", "loop", "guest", "exit", "assert", "deassert", "msi", "return",
                       "failed", "done"}, i : Nat]
    BY <1>1
  <2> QED
    BY <2>1, <2>2, <2>3, <2>4, <2>5 DEF ToyTypes
<1>3. /\ vmm.pc = "setup" /\ dev.status = "idle" /\ guest.pc = 1 /\ guest.isr = 0
      /\ guest.irq_count = 0 /\ irq.line = 0 /\ irq.irr = {} /\ irq.isr = {} /\ count.ops = 0
  BY <1>1
<1>4. Waiting = 0
  BY <1>3, FS_EmptySet DEF Waiting
<1>5. Written(guest.pc) = 0
  BY <1>3 DEF Written
<1>6. ~AtCommand
  BY <1>3 DEF AtCommand
<1>7. AtMostOne
  BY <1>3, <1>4, <1>5, <1>6 DEF AtMostOne
<1>8. ExactlyOne
  BY <1>3, <1>5, <1>6 DEF ExactlyOne, Answered
<1> QED
  BY <1>2, <1>3, <1>7, <1>8 DEF ToyInv, ExitInv

LEMMA Numbers ==
  ASSUME ToyTypes
  PROVE  /\ guest.pc \in 1 .. 21 /\ guest.isr \in 0 .. 3 /\ guest.irq_count \in Nat
         /\ count.ops \in Nat /\ Written(guest.pc) \in 0 .. 5 /\ Waiting \in Nat
BY WaitingIs DEF ToyTypes, Written

\* A step of the guest without an interrupt and without a command.
LEMMA GuestGoesOn ==
  ASSUME ToyInv, NEW o \in {"apic", "marker", "if", "gpa", "wait", "verify", "done"}, At(o),
         UNCHANGED <<irq, faults, dev>>, count'.ops = count.ops,
         count' \in [calls : Nat, exits : Nat, ops : Nat],
         vmm' \in [pc : {"guest", "exit"}, i : Nat],
         \E n \in {guest.pc, guest.pc + 1} :
           /\ n # guest.pc => o # "done" /\ (o = "wait" => guest.irq_count = Arg)
           /\ DOMAIN guest' = DOMAIN guest /\ guest'.pc = n
           /\ guest'.isr = guest.isr /\ guest'.irq_count = guest.irq_count,
         vmm'.pc = "exit" => \/ run' = <<"io", "MARKER_PORT">>
                             \/ o = "done" /\ run' = <<"io", "DONE_PORT">>
                             \/ \E g \in {"src", "dst"} : run' = <<"mmio", "write", "REG_DMA_GPA", g>>
  PROVE  ToyInv'
<1>0. ToyTypes /\ ExitInv /\ AtMostOne /\ ExactlyOne
  BY DEF ToyInv
<1>1. PICK n \in {guest.pc, guest.pc + 1} :
         /\ n # guest.pc => o # "done" /\ (o = "wait" => guest.irq_count = Arg)
         /\ DOMAIN guest' = DOMAIN guest /\ guest'.pc = n
         /\ guest'.isr = guest.isr /\ guest'.irq_count = guest.irq_count
  OBVIOUS
<1>2. vmm.pc = "guest" /\ guest.isr = 0 /\ Program[guest.pc].op = o /\ guest.pc \in 1 .. 21
  BY <1>0 DEF At, ToyTypes
<1>3. /\ n \in 1 .. 21 /\ Written(n) = Written(guest.pc)
      /\ n \in Outstanding => guest.pc \in Outstanding
      /\ n \notin Outstanding /\ guest.pc \in Outstanding =>
           o = "wait" /\ guest.irq_count = Written(guest.pc)
  <2>1. CASE n = guest.pc
    BY <1>2, <2>1
  <2>2. CASE n = guest.pc + 1 /\ o = "wait"
    <3>1. guest.pc \in {5, 10, 13, 16, 19} /\ Arg = Written(guest.pc)
      BY <1>2, <2>2, Places DEF Arg
    <3> QED
      BY <1>1, <2>2, <3>1 DEF Written, Outstanding
  <2>3. CASE n = guest.pc + 1 /\ o # "wait"
    <3>1. o # "done"
      BY <1>1, <1>2, <2>3
    <3>2. guest.pc \in {1, 2, 8, 11, 3, 6, 9, 14, 17, 20}
      BY <1>2, <3>1, <2>3, Places
    <3> QED
      BY <2>3, <3>2 DEF Written, Outstanding
  <2> QED
    BY <2>1, <2>2, <2>3
<1>4. ~AtCommand /\ ~AtCommand'
  <2>1. ~AtCommand
    BY <1>2 DEF AtCommand
  <2>2. vmm'.pc = "exit" => run'[1] # "mmio" \/ run'[3] # "REG_COMMAND"
    OBVIOUS
  <2> QED
    BY <2>1, <2>2 DEF AtCommand
<1>5. ToyTypes'
  BY <1>0, <1>1, <1>3 DEF ToyTypes
<1>6. ExitInv'
  <2>1. o = "done" => guest'.pc = 21
    BY <1>1, <1>2, Places
  <2> QED
    BY <1>1, <1>2, <2>1 DEF ExitInv
<1>7. Waiting' = Waiting
  BY DEF Waiting
<1>8. vmm'.pc \in {"guest", "exit"}
  OBVIOUS
<1>9. AtMostOne'
  BY <1>0, <1>1, <1>2, <1>3, <1>4, <1>7, <1>8 DEF AtMostOne
<1>10. ExactlyOne'
  <2> SUFFICES ASSUME faults = 0 PROVE ExactlyOne'
    BY DEF ExactlyOne
  <2>1. irq'.line = 0
    BY <1>0, <1>2 DEF ExactlyOne
  <2>2. Raised \/ Refused \/ Answered
    BY <1>0, <1>2, <1>4 DEF ExactlyOne, Asked, Raising, Raised, Refused, Handled, Answered
  <2>3. Raised => Raised'
    BY <1>1, <1>3, <1>4, <1>8 DEF Raised, Owed, Vector
  <2>4. Refused => Refused'
    BY <1>1, <1>3, <1>4, <1>8 DEF Refused, Owed
  <2>5. Answered => Answered'
    BY <1>1, <1>3, <1>4, <1>8 DEF Answered
  <2>6. n \notin Outstanding => Answered
    <3>1. Written(guest.pc) \in Int
      BY <1>0, Numbers
    <3>2. Raised \/ Refused => guest.irq_count # Written(guest.pc)
      BY <3>1 DEF Raised, Refused, Owed
    <3> QED
      BY <1>0, <1>3, <2>2, <3>2 DEF ExactlyOne
  <2> QED
    BY <1>1, <1>8, <2>1, <2>2, <2>3, <2>4, <2>5, <2>6 DEF ExactlyOne
<1> QED
  BY <1>5, <1>6, <1>9, <1>10 DEF ToyInv

LEMMA GuestInstructions ==
  ASSUME ToyInv, ApicSetup \/ StiCli \/ WaitEnds \/ Verify \/ Halt \/ Marker \/ SetGpa \/ Done
  PROVE  ToyInv'
<1>0. /\ vmm \in [pc : {"setup", "loop", "guest", "exit", "assert", "deassert", "msi", "return",
                        "failed", "done"}, i : Nat]
      /\ count \in [calls : Nat, exits : Nat, ops : Nat]
      /\ DOMAIN guest = {"pc", "isr", "if", "irq_count", "halted"} /\ guest.pc \in 1 .. 21
  BY DEF ToyInv, ToyTypes
<1>1. /\ UNCHANGED <<irq, faults, dev>>
  BY DEF ApicSetup, StiCli, WaitEnds, Verify, Halt, Marker, SetGpa, Done, InKernel, NoExit, ToUserspace
<1>2. /\ count'.ops = count.ops /\ count' \in [calls : Nat, exits : Nat, ops : Nat]
  <2>1. count' = count \/ count' = [count EXCEPT !.exits = @ + 1]
    BY DEF ApicSetup, StiCli, WaitEnds, Verify, Halt, Marker, SetGpa, Done, InKernel, NoExit,
           ToUserspace
  <2> QED
    BY <1>0, <2>1
<1>3. CASE ApicSetup \/ StiCli \/ WaitEnds \/ Verify \/ Halt
  <2>1. PICK o \in {"apic", "if", "wait", "verify"} :
          /\ At(o)
          /\ \/ guest' = [guest EXCEPT !.pc = @ + 1] /\ (o = "wait" => guest.irq_count = Arg)
             \/ guest' = [guest EXCEPT !.halted = TRUE]
             \/ guest' = [guest EXCEPT !.if = (Arg = "sti"), !.pc = @ + 1] /\ o = "if"
    BY <1>3 DEF ApicSetup, StiCli, WaitEnds, Verify, Halt
  <2>2. \E n \in {guest.pc, guest.pc + 1} :
           /\ n # guest.pc => o # "done" /\ (o = "wait" => guest.irq_count = Arg)
           /\ DOMAIN guest' = DOMAIN guest /\ guest'.pc = n
           /\ guest'.isr = guest.isr /\ guest'.irq_count = guest.irq_count
    BY <1>0, <2>1
  <2>3. vmm' = vmm /\ vmm.pc = "guest"
    BY <1>3, <2>1 DEF ApicSetup, StiCli, WaitEnds, Verify, Halt, InKernel, NoExit, At
  <2>4. vmm' \in [pc : {"guest", "exit"}, i : Nat] /\ vmm'.pc # "exit"
    BY <1>0, <2>3
  <2> QED
    BY <1>1, <1>2, <2>1, <2>2, <2>4, GuestGoesOn
<1>4. CASE Marker \/ SetGpa \/ Done
  <2>1. PICK o \in {"marker", "gpa", "done"} :
          /\ At(o)
          /\ \/ guest' = [guest EXCEPT !.pc = @ + 1] /\ o # "done"
             \/ guest' = guest
          /\ \/ run' = <<"io", "MARKER_PORT">> \/ (o = "done" /\ run' = <<"io", "DONE_PORT">>)
             \/ o = "gpa" /\ run' = <<"mmio", "write", "REG_DMA_GPA", Arg>>
    BY <1>4 DEF Marker, SetGpa, Done, ToUserspace
  <2>2. \E n \in {guest.pc, guest.pc + 1} :
           /\ n # guest.pc => o # "done" /\ (o = "wait" => guest.irq_count = Arg)
           /\ DOMAIN guest' = DOMAIN guest /\ guest'.pc = n
           /\ guest'.isr = guest.isr /\ guest'.irq_count = guest.irq_count
    BY <1>0, <2>1
  <2>3. o = "gpa" => Arg \in {"src", "dst"}
    BY <1>0, <2>1, Places DEF At, Arg
  <2>4. vmm' = [vmm EXCEPT !.pc = "exit"]
    BY <1>4 DEF Marker, SetGpa, Done, ToUserspace
  <2>5. vmm' \in [pc : {"guest", "exit"}, i : Nat]
    BY <1>0, <2>4
  <2>6. \/ run' = <<"io", "MARKER_PORT">> \/ (o = "done" /\ run' = <<"io", "DONE_PORT">>)
        \/ \E g \in {"src", "dst"} : run' = <<"mmio", "write", "REG_DMA_GPA", g>>
    BY <2>1, <2>3
  <2> QED
    BY <1>1, <1>2, <2>1, <2>2, <2>5, <2>6, GuestGoesOn
<1> QED
  BY <1>3, <1>4

\* The guest writes COMMAND: nothing is outstanding.
LEMMA CommandIsAsked ==
  ASSUME ToyInv, Command
  PROVE  ToyInv'
<1>0. ToyTypes /\ ExitInv /\ AtMostOne /\ ExactlyOne
  BY DEF ToyInv
<1>1. /\ vmm.pc = "guest" /\ guest.isr = 0 /\ guest.pc \in {4, 7, 12, 15, 18}
  BY <1>0, Places DEF Command, At, ToyTypes
<1>2. /\ guest' = [guest EXCEPT !.pc = @ + 1]
      /\ vmm' = [vmm EXCEPT !.pc = "exit"]
      /\ count' = [count EXCEPT !.exits = @ + 1]
      /\ run' = <<"mmio", "write", "REG_COMMAND", Program[guest.pc].arg>>
      /\ UNCHANGED <<irq, faults, dev>>
  BY DEF Command, ToUserspace, Arg
<1>3. /\ DOMAIN guest' = DOMAIN guest /\ guest'.pc = guest.pc + 1 /\ guest'.isr = 0
      /\ guest'.irq_count = guest.irq_count /\ vmm'.pc = "exit" /\ count'.ops = count.ops
  BY <1>0, <1>1, <1>2 DEF ToyTypes
<1>4. ToyTypes'
  <2>1. count' \in [calls : Nat, exits : Nat, ops : Nat]
    BY <1>0, <1>2 DEF ToyTypes
  <2>2. vmm' \in [pc : {"setup", "loop", "guest", "exit", "assert", "deassert", "msi", "return",
                        "failed", "done"}, i : Nat]
    BY <1>0, <1>2 DEF ToyTypes
  <2>3. guest'.pc \in 1 .. 21
    BY <1>1, <1>3
  <2> QED
    BY <1>0, <1>2, <1>3, <2>1, <2>2, <2>3 DEF ToyTypes
<1>5. ~AtCommand /\ AtCommand'
  BY <1>1, <1>2, <1>3 DEF AtCommand
<1>6. Written(guest.pc + 1) = Written(guest.pc) + 1 /\ Written(guest.pc) \in Nat
  BY <1>1 DEF Written
<1>7. guest.pc \notin Outstanding /\ guest.pc + 1 \in Outstanding
  BY <1>1 DEF Outstanding
<1>8. ExitInv'
  BY <1>1, <1>2, <1>3 DEF ExitInv
<1>9. Waiting' = Waiting
  BY <1>2 DEF Waiting
<1>10. AtMostOne'
  BY <1>0, <1>1, <1>2, <1>3, <1>5, <1>6, <1>9 DEF AtMostOne, ToyTypes
<1>11. ExactlyOne'
  BY <1>0, <1>1, <1>2, <1>3, <1>5, <1>6, <1>7 DEF ExactlyOne, Answered, Asked, Owed
<1> QED
  BY <1>4, <1>8, <1>10, <1>11 DEF ToyInv

LEMMA InterruptIsTaken ==
  ASSUME ToyInv, Inject
  PROVE  ToyInv'
<1>0. ToyTypes /\ ExitInv /\ AtMostOne /\ ExactlyOne
  BY DEF ToyInv
<1>1. vmm.pc = "guest" /\ irq.irr # {} /\ irq.isr = {} /\ guest.isr = 0
  BY <1>0 DEF Inject, Deliverable, AtMostOne
<1>2. PICK v \in irq.irr : irq' = [irq EXCEPT !.irr = @ \ {v}, !.isr = @ \cup {v}]
  BY DEF Inject
<1>3. guest' = [guest EXCEPT !.isr = 1, !.if = FALSE]
  BY DEF Inject
<1>4. UNCHANGED <<vmm, run, dev, count, faults>>
  BY DEF Inject
<1>5. /\ DOMAIN guest' = DOMAIN guest /\ guest'.pc = guest.pc /\ guest'.isr = 1
      /\ guest'.irq_count = guest.irq_count
  BY <1>0, <1>3 DEF ToyTypes
<1>6. irq'.line = irq.line /\ irq'.irr = irq.irr \ {v} /\ irq'.isr = {v}
  BY <1>0, <1>1, <1>2 DEF ToyTypes
<1>7. ToyTypes'
  <2>1. irq' \in [line : {0, 1}, irr : SUBSET Vectors, isr : SUBSET Vectors]
    BY <1>0, <1>2 DEF ToyTypes
  <2> QED
    BY <1>0, <1>4, <1>5, <2>1 DEF ToyTypes
<1>8. Waiting' = Waiting
  <2>1. irq'.irr \cup irq'.isr = irq.irr \cup irq.isr
    BY <1>1, <1>6
  <2> QED
    BY <2>1 DEF Waiting
<1>9. ~AtCommand /\ ~AtCommand'
  BY <1>1, <1>4 DEF AtCommand
<1>10. ExitInv'
  BY <1>1, <1>4 DEF ExitInv
<1>11. AtMostOne'
  <2>1. guest'.isr # 0 /\ irq'.isr # {} /\ irq'.irr \cap irq'.isr = {}
    BY <1>5, <1>6
  <2>2. count'.ops = Written(guest'.pc) - (IF AtCommand' THEN 1 ELSE 0)
    BY <1>0, <1>4, <1>5, <1>9 DEF AtMostOne
  <2>3. guest.irq_count + Waiting <= count.ops
    BY <1>0, <1>1, Numbers DEF AtMostOne
  <2> QED
    BY <1>0, <1>1, <1>4, <1>5, <1>8, <2>1, <2>2, <2>3, Numbers DEF AtMostOne
<1>12. ExactlyOne'
  <2> SUFFICES ASSUME faults = 0 PROVE ExactlyOne'
    BY <1>4 DEF ExactlyOne
  <2>1. Raised
    BY <1>0, <1>1, <1>9 DEF ExactlyOne, Asked, Raising, Raised, Refused, Handled, Answered
  <2>2. irq'.irr = {}
    BY <1>2, <1>6, <2>1 DEF Raised
  <2>3. guest.pc \in Outstanding
    BY <1>0, <1>1 DEF ExactlyOne, Answered
  <2>4. Handled'
    BY <1>1, <1>4, <1>5, <1>9, <2>1, <2>2 DEF Handled, Raised, Owed
  <2> QED
    BY <1>0, <1>1, <1>4, <1>5, <1>6, <2>3, <2>4 DEF ExactlyOne
<1> QED
  BY <1>7, <1>10, <1>11, <1>12 DEF ToyInv

LEMMA HandlerReadsAndAcknowledges ==
  ASSUME ToyInv, IsrStatus \/ IsrAck
  PROVE  ToyInv'
<1>0. ToyTypes /\ ExitInv /\ AtMostOne /\ ExactlyOne
  BY DEF ToyInv
<1>1. vmm.pc = "guest" /\ guest.isr \in {1, 2}
  BY DEF IsrStatus, IsrAck, InIsr
<1>2. /\ vmm' = [vmm EXCEPT !.pc = "exit"] /\ count' = [count EXCEPT !.exits = @ + 1]
      /\ UNCHANGED <<irq, faults, dev>>
  BY DEF IsrStatus, IsrAck, ToUserspace
<1>3. /\ guest'.isr = guest.isr + 1 /\ guest'.pc = guest.pc /\ DOMAIN guest' = DOMAIN guest
      /\ guest'.irq_count = guest.irq_count + (IF guest.isr = 1 THEN 1 ELSE 0)
      /\ \/ guest'.isr = 2 /\ run' = <<"mmio", "read", "REG_STATUS">>
         \/ guest'.isr = 3 /\ run' = <<"mmio", "write", "REG_IRQ_ACK", "1">>
  <2>1. CASE IsrStatus
    <3>1. /\ guest' = [guest EXCEPT !.isr = 2, !.irq_count = @ + 1] /\ guest.isr = 1
          /\ run' = <<"mmio", "read", "REG_STATUS">>
      BY <2>1 DEF IsrStatus, ToUserspace, InIsr
    <3> QED
      BY <1>0, <3>1 DEF ToyTypes
  <2>2. CASE IsrAck
    <3>1. /\ guest' = [guest EXCEPT !.isr = 3] /\ guest.isr = 2
          /\ run' = <<"mmio", "write", "REG_IRQ_ACK", "1">>
      BY <2>2 DEF IsrAck, ToUserspace, InIsr
    <3> QED
      BY <1>0, <3>1 DEF ToyTypes
  <2> QED
    BY <2>1, <2>2
<1>4. vmm'.pc = "exit" /\ count'.ops = count.ops
  BY <1>0, <1>2 DEF ToyTypes
<1>5. ~AtCommand /\ ~AtCommand'
  <2>1. run'[3] # "REG_COMMAND"
    BY <1>3
  <2> QED
    BY <1>1, <2>1 DEF AtCommand
<1>6. ToyTypes'
  <2>1. count' \in [calls : Nat, exits : Nat, ops : Nat]
    BY <1>0, <1>2 DEF ToyTypes
  <2>2. vmm' \in [pc : {"setup", "loop", "guest", "exit", "assert", "deassert", "msi", "return",
                        "failed", "done"}, i : Nat]
    BY <1>0, <1>2 DEF ToyTypes
  <2> QED
    BY <1>0, <1>1, <1>2, <1>3, <2>1, <2>2 DEF ToyTypes
<1>7. ExitInv'
  BY <1>3 DEF ExitInv
<1>8. Waiting' = Waiting
  BY <1>2 DEF Waiting
<1>9. AtMostOne'
  BY <1>0, <1>1, <1>2, <1>3, <1>4, <1>5, <1>8, Numbers DEF AtMostOne
<1>10. ExactlyOne'
  <2> SUFFICES ASSUME faults = 0 PROVE ExactlyOne'
    BY <1>2 DEF ExactlyOne
  <2>1. Handled
    BY <1>0, <1>1 DEF ExactlyOne, Asked, Raising, Raised, Refused, Handled, Answered
  <2>2. guest.pc \in Outstanding
    BY <1>0, <1>1 DEF ExactlyOne, Answered
  <2>3. Handled'
    BY <1>0, <1>1, <1>2, <1>3, <1>4, <1>5, <2>1, Numbers DEF Handled
  <2> QED
    BY <1>0, <1>1, <1>2, <1>3, <1>4, <2>2, <2>3 DEF ExactlyOne
<1> QED
  BY <1>6, <1>7, <1>9, <1>10 DEF ToyInv

\* The handler's last step gives the interrupt up that the count already holds.
LEMMA HandlerReturns ==
  ASSUME ToyInv, IsrEoi
  PROVE  ToyInv'
<1>0. ToyTypes /\ ExitInv /\ AtMostOne /\ ExactlyOne
  BY DEF ToyInv
<1>1. vmm.pc = "guest" /\ guest.isr = 3
  BY DEF IsrEoi, InIsr
<1>2. /\ guest' = [guest EXCEPT !.isr = 0, !.if = TRUE] /\ irq' = [irq EXCEPT !.isr = {}]
  BY DEF IsrEoi
<1>3. /\ UNCHANGED <<vmm, dev, faults>>
      /\ count' = count \/ count' = [count EXCEPT !.exits = @ + 1]
  BY DEF IsrEoi, NoExit, InKernel
<1>4. /\ DOMAIN guest' = DOMAIN guest /\ guest'.pc = guest.pc /\ guest'.isr = 0
      /\ guest'.irq_count = guest.irq_count
  BY <1>0, <1>2 DEF ToyTypes
<1>5. irq'.line = irq.line /\ irq'.irr = irq.irr /\ irq'.isr = {}
  BY <1>0, <1>2 DEF ToyTypes
<1>6. count'.ops = count.ops /\ count' \in [calls : Nat, exits : Nat, ops : Nat]
  BY <1>0, <1>3 DEF ToyTypes
<1>7. ToyTypes'
  <2>1. irq' \in [line : {0, 1}, irr : SUBSET Vectors, isr : SUBSET Vectors]
    BY <1>0, <1>2 DEF ToyTypes
  <2> QED
    BY <1>0, <1>3, <1>4, <1>6, <2>1 DEF ToyTypes
<1>8. ~AtCommand /\ ~AtCommand'
  BY <1>1, <1>3 DEF AtCommand
<1>9. ExitInv'
  BY <1>1, <1>3 DEF ExitInv
<1>10. Waiting' + 1 <= Waiting /\ Waiting' \in Nat /\ Waiting \in Nat
  <2>1. Waiting = Held(irq.irr \cup irq.isr) /\ Waiting \in Nat
    BY <1>0, WaitingIs
  <2>2. Waiting' = Held(irq.irr)
    <3>1. irq'.irr \cup irq'.isr = irq.irr /\ irq.irr \in SUBSET Vectors
      BY <1>0, <1>5 DEF ToyTypes
    <3> QED
      BY <3>1, HeldIsCardinality DEF Waiting
  <2>3. \E v \in Vectors : v \in irq.isr /\ v \notin irq.irr
    <3>1. irq.isr # {} /\ irq.irr \cap irq.isr = {} /\ irq.isr \subseteq Vectors
      BY <1>0, <1>1 DEF AtMostOne, ToyTypes
    <3> QED
      BY <3>1
  <2> QED
    BY <2>1, <2>2, <2>3 DEF Held, Vectors
<1>11. AtMostOne'
  <2>1. guest.irq_count + Waiting <= count.ops + 1 /\ count.ops = Written(guest.pc)
    BY <1>0, <1>1, <1>8, Numbers DEF AtMostOne
  <2>2. guest'.irq_count + Waiting' <= count'.ops
    <3>1. guest.irq_count \in Nat /\ count.ops \in Nat
      BY <1>0, Numbers
    <3>2. guest.irq_count + Waiting' <= count.ops
      <4>1. \A w, x, a, b \in Nat : x + 1 <= w /\ a + w <= b + 1 => a + x <= b
        OBVIOUS
      <4>2. guest.irq_count + Waiting <= count.ops + 1
        BY <2>1
      <4> QED
        BY <1>10, <3>1, <4>1, <4>2
    <3> QED
      BY <1>4, <1>6, <3>2
  <2> QED
    BY <1>0, <1>1, <1>3, <1>4, <1>5, <1>6, <1>8, <1>10, <2>1, <2>2, Numbers DEF AtMostOne
<1>12. ExactlyOne'
  <2> SUFFICES ASSUME faults = 0 PROVE ExactlyOne'
    BY <1>3 DEF ExactlyOne
  <2>1. Handled
    BY <1>0, <1>1 DEF ExactlyOne, Asked, Raising, Raised, Refused, Handled, Answered
  <2>2. Answered'
    BY <1>0, <1>1, <1>3, <1>4, <1>5, <1>8, <2>1, Numbers DEF Handled, Answered
  <2> QED
    BY <1>0, <1>1, <1>3, <1>5, <2>2 DEF ExactlyOne
<1> QED
  BY <1>7, <1>9, <1>11, <1>12 DEF ToyInv

\* A step of the VMM that touches neither the guest nor its interrupts.
LEMMA VmmGoesOn ==
  ASSUME ToyInv, UNCHANGED <<guest, irq>>, ~AtCommand, vmm.pc \in {"setup", "loop", "exit", "return"},
         vmm' \in [pc : {"setup", "loop", "guest", "failed", "done"}, i : Nat],
         count' \in [calls : Nat, exits : Nat, ops : Nat], count'.ops = count.ops,
         faults' \in Nat, faults' = 0 => faults = 0 /\ vmm'.pc # "failed",
         DOMAIN dev' = DOMAIN dev, dev'.command = dev.command,
         dev'.status = dev.status \/ (guest.isr = 3 /\ dev'.status # "DONE"),
         guest.isr = 3 /\ vmm.pc = "exit" => dev'.status # "DONE",
         vmm'.pc = "setup" => vmm.pc = "setup",
         vmm'.pc = "done" => guest.isr = 0 /\ vmm.pc = "exit" /\ guest.pc = 21
  PROVE  ToyInv'
<1>0. ToyTypes /\ ExitInv /\ AtMostOne /\ ExactlyOne
  BY DEF ToyInv
<1>1. vmm'.pc \in {"setup", "loop", "guest", "failed", "done"}
  OBVIOUS
<1>2. ~AtCommand'
  BY <1>1 DEF AtCommand
<1>3. ToyTypes'
  BY <1>0 DEF ToyTypes
<1>4. ExitInv'
  BY <1>1 DEF ExitInv
<1>5. Waiting' = Waiting
  BY DEF Waiting
<1>6. AtMostOne'
  BY <1>0, <1>1, <1>2, <1>5, Numbers DEF AtMostOne
<1>7. ExactlyOne'
  <2> SUFFICES ASSUME faults' = 0 PROVE ExactlyOne'
    BY DEF ExactlyOne
  <2>1. irq'.line = 0 /\ vmm'.pc \in {"setup", "loop", "guest", "done"}
    BY <1>0, <1>1 DEF ExactlyOne
  <2>2. Raised \/ Refused \/ Handled \/ Answered
    BY <1>0 DEF ExactlyOne, Asked, Raising
  <2>3. guest.isr # 3 => dev'.status = dev.status
    OBVIOUS
  <2>4. vmm.pc # "setup" => vmm'.pc \in {"loop", "guest", "done"}
    BY <2>1
  <2>5. vmm'.pc = "done" => Answered
    BY <1>0 DEF ExactlyOne, Outstanding
  <2>6. CASE Answered
    BY <1>2, <2>1, <2>3, <2>6 DEF Answered, ExactlyOne
  <2>7. CASE ~Answered
    <3>1. vmm'.pc \in {"loop", "guest"} /\ guest.pc \in Outstanding
      BY <1>0, <2>1, <2>2, <2>4, <2>5, <2>7 DEF Raised, Refused, Handled, ExactlyOne
    <3>2. Raised => Raised'
      BY <1>2, <2>3, <3>1 DEF Raised, Vector, Owed
    <3>3. Refused => Refused'
      BY <1>2, <2>3, <3>1 DEF Refused, Owed
    <3>4. Handled => Handled'
      BY <1>2, <2>3, <3>1 DEF Handled
    <3> QED
      BY <1>2, <2>1, <2>2, <2>7, <3>1, <3>2, <3>3, <3>4 DEF ExactlyOne
  <2> QED
    BY <2>6, <2>7
<1> QED
  BY <1>3, <1>4, <1>6, <1>7 DEF ToyInv

LEMMA VmmBetweenCommands ==
  ASSUME ToyInv,
         \/ \E ok \in BOOLEAN : SetUp(ok) \/ KvmRun(ok)
         \/ device_mmio_read \/ RegisterWrite \/ CommandReturns \/ PortWrite
  PROVE  ToyInv'
<1>0. ToyTypes /\ ExitInv /\ AtMostOne /\ ExactlyOne
  BY DEF ToyInv
<1>1. /\ vmm \in [pc : {"setup", "loop", "guest", "exit", "assert", "deassert", "msi", "return",
                        "failed", "done"}, i : Nat]
      /\ count \in [calls : Nat, exits : Nat, ops : Nat] /\ faults \in Nat
      /\ DOMAIN dev = {"command", "status", "dma_gpa", "buffer"}
  BY <1>0 DEF ToyTypes
<1>2. ASSUME NEW ok \in BOOLEAN, SetUp(ok) \/ KvmRun(ok)
      PROVE  ToyInv'
  <2>1. faults' \in Nat /\ (faults' = 0 => faults = 0 /\ ok)
    BY <1>1, <1>2 DEF SetUp, KvmRun, Fault
  <2>2. UNCHANGED <<guest, irq, dev>> /\ vmm.pc \in {"setup", "loop"}
    BY <1>2 DEF SetUp, KvmRun
  <2>3. ~AtCommand
    BY <2>2 DEF AtCommand
  <2>4. PICK k \in {0, 1} : count' = [count EXCEPT !.calls = @ + k]
    BY <1>2 DEF SetUp, KvmRun
  <2>5. count' \in [calls : Nat, exits : Nat, ops : Nat] /\ count'.ops = count.ops
    BY <1>1, <2>4
  <2>6. \/ ~ok /\ vmm' = [vmm EXCEPT !.pc = "failed"]
        \/ vmm' = [vmm EXCEPT !.pc = "loop"]
        \/ vmm.pc = "setup" /\ vmm' = [vmm EXCEPT !.i = @ + 1]
        \/ vmm' = [vmm EXCEPT !.pc = "guest"]
    BY <1>2 DEF SetUp, KvmRun
  <2>7. /\ vmm' \in [pc : {"setup", "loop", "guest", "failed", "done"}, i : Nat]
        /\ vmm'.pc # "done" /\ (vmm'.pc = "setup" => vmm.pc = "setup")
        /\ vmm'.pc = "failed" => ~ok
    BY <1>1, <2>2, <2>6
  <2> QED
    BY <2>1, <2>2, <2>3, <2>5, <2>7, VmmGoesOn
<1>3. CASE device_mmio_read \/ CommandReturns
  <2>1. /\ UNCHANGED <<guest, irq, dev, count, faults>> /\ vmm' = [vmm EXCEPT !.pc = "loop"]
        /\ vmm.pc = "return" \/ (vmm.pc = "exit" /\ run = <<"mmio", "read", "REG_STATUS">>)
    BY <1>3 DEF device_mmio_read, CommandReturns
  <2>2. ~AtCommand
    BY <2>1 DEF AtCommand
  <2>3. vmm' \in [pc : {"setup", "loop", "guest", "failed", "done"}, i : Nat] /\ vmm'.pc = "loop"
    BY <1>1, <2>1
  <2>4. vmm.pc = "exit" => guest.isr # 3
    BY <1>0, <2>1 DEF ExitInv
  <2> QED
    BY <1>1, <2>1, <2>2, <2>3, <2>4, VmmGoesOn
<1>4. CASE PortWrite
  <2>1. /\ UNCHANGED <<guest, irq, dev, count, faults>> /\ vmm.pc = "exit" /\ run[1] = "io"
        /\ vmm' = [vmm EXCEPT !.pc = IF run[2] = "DONE_PORT" THEN "done" ELSE "loop"]
    BY <1>4 DEF PortWrite
  <2>2. ~AtCommand
    BY <2>1 DEF AtCommand
  <2>3. /\ guest.isr = 0 /\ (run[2] = "DONE_PORT" => guest.pc = 21)
    <3>1. \/ guest.isr = 0 /\ run = <<"io", "MARKER_PORT">>
          \/ guest.isr = 0 /\ guest.pc = 21 /\ run = <<"io", "DONE_PORT">>
      BY <1>0, <2>1 DEF ExitInv
    <3> QED
      BY <3>1
  <2>4. /\ vmm' \in [pc : {"setup", "loop", "guest", "failed", "done"}, i : Nat]
        /\ vmm'.pc \in {"loop", "done"} /\ (vmm'.pc = "done" => run[2] = "DONE_PORT")
    BY <1>1, <2>1
  <2> QED
    BY <1>1, <2>1, <2>2, <2>3, <2>4, VmmGoesOn
<1>5. CASE RegisterWrite
  <2>1. /\ UNCHANGED <<guest, irq, count, faults>> /\ vmm' = [vmm EXCEPT !.pc = "loop"]
        /\ vmm.pc = "exit" /\ run[1] = "mmio" /\ run[2] = "write" /\ run[3] # "REG_COMMAND"
    BY <1>5 DEF RegisterWrite
  <2>2. ~AtCommand
    BY <2>1 DEF AtCommand
  <2>3. vmm' \in [pc : {"setup", "loop", "guest", "failed", "done"}, i : Nat] /\ vmm'.pc = "loop"
    BY <1>1, <2>1
  <2>4. \/ guest.isr = 0 /\ run[3] = "REG_DMA_GPA"
        \/ guest.isr = 3 /\ run[3] = "REG_IRQ_ACK"
    <3>1. \/ \E g \in {"src", "dst"} :
               guest.isr = 0 /\ run = <<"mmio", "write", "REG_DMA_GPA", g>>
          \/ guest.isr = 3 /\ run = <<"mmio", "write", "REG_IRQ_ACK", "1">>
      <4>1. run # <<"io", "MARKER_PORT">> /\ run # <<"io", "DONE_PORT">>
        BY <2>1
      <4>2. run # <<"mmio", "read", "REG_STATUS">>
        BY <2>1
      <4>3. \A a : run # <<"mmio", "write", "REG_COMMAND", a>>
        BY <2>1
      <4> QED
        BY <1>0, <2>1, <4>1, <4>2, <4>3 DEF ExitInv
    <3> QED
      BY <3>1
  <2>5. /\ DOMAIN dev' = DOMAIN dev /\ dev'.command = dev.command
        /\ guest.isr # 3 => dev'.status = dev.status
        /\ guest.isr = 3 => dev'.status # "DONE"
    <3>1. CASE guest.isr = 0 /\ run[3] = "REG_DMA_GPA"
      <4>1. dev' = [dev EXCEPT !.dma_gpa = run[4]]
        BY <1>5, <3>1 DEF RegisterWrite
      <4> QED
        BY <1>1, <3>1, <4>1
    <3>2. CASE guest.isr = 3 /\ run[3] = "REG_IRQ_ACK"
      <4>1. dev' = [dev EXCEPT !.status = IF @ = "DONE" THEN "idle" ELSE @]
        BY <1>5, <3>2 DEF RegisterWrite
      <4> QED
        BY <1>1, <3>2, <4>1
    <3> QED
      BY <2>4, <3>1, <3>2
  <2> QED
    BY <1>1, <2>1, <2>2, <2>3, <2>5, VmmGoesOn
<1> QED
  BY <1>2, <1>3, <1>4, <1>5

LEMMA CommandIsExecuted ==
  ASSUME ToyInv, CommandWrite
  PROVE  ToyInv'
<1>0. ToyTypes /\ ExitInv /\ AtMostOne /\ ExactlyOne
  BY DEF ToyInv
<1>1. vmm.pc = "exit" /\ AtCommand /\ UNCHANGED <<guest, irq, faults>>
  BY DEF CommandWrite, AtCommand
<1>2. guest.isr = 0 /\ guest.pc - 1 \in {4, 7, 12, 15, 18}
  <2>1. run[1] = "mmio" /\ run[3] = "REG_COMMAND"
    BY <1>1 DEF AtCommand
  <2>2. run # <<"io", "MARKER_PORT">> /\ run # <<"io", "DONE_PORT">>
    BY <2>1
  <2>3. run # <<"mmio", "read", "REG_STATUS">> /\ run # <<"mmio", "write", "REG_IRQ_ACK", "1">>
    BY <2>1
  <2>4. \A g : run # <<"mmio", "write", "REG_DMA_GPA", g>>
    BY <2>1
  <2> QED
    BY <1>0, <1>1, <2>2, <2>3, <2>4 DEF ExitInv
<1>3. guest.pc \in Outstanding
  BY <1>0, <1>2, Numbers DEF Outstanding
<1> DEFINE d == [dev EXCEPT !.command = run[4], !.status = "BUSY"]
           copied == IF IsDma(run[4]) THEN device_dma_transfer(run[4], d, ram)
                     ELSE [dev |-> d, ram |-> ram, ret |-> IF run[4] \in Commands THEN 0 ELSE -1]
<1>4. DOMAIN d = {"command", "status", "dma_gpa", "buffer"} /\ d.command = run[4]
  BY <1>0 DEF ToyTypes
<1>5. DOMAIN copied.dev = {"command", "status", "dma_gpa", "buffer"} /\ copied.dev.command = run[4]
  <2>1. copied.dev = d \/ \E b : copied.dev = [d EXCEPT !.buffer = b]
    <3> HIDE DEF d
    <3> QED
      BY DEF device_dma_transfer
  <2> HIDE DEF d, copied
  <2> QED
    BY <1>4, <2>1
<1>6. /\ dev' = [copied.dev EXCEPT !.status = IF copied.ret = 0 THEN "DONE" ELSE "ERROR"]
      /\ count' = [count EXCEPT !.ops = @ + 1]
      /\ vmm' = [vmm EXCEPT !.pc = CASE copied.ret # 0 -> "return"
                                     [] copied.ret = 0 /\ run[4] = "MSI_ONLY" -> "msi"
                                     [] OTHER -> "assert"]
  BY DEF CommandWrite
<1> HIDE DEF d, copied
<1>7. /\ DOMAIN dev' = {"command", "status", "dma_gpa", "buffer"} /\ dev'.command = run[4]
      /\ copied.ret # 0 => dev'.status = "ERROR"
  BY <1>5, <1>6
<1>8. /\ vmm' \in [pc : {"return", "msi", "assert"}, i : Nat]
      /\ vmm'.pc = "return" => copied.ret # 0
      /\ vmm'.pc # "return" => (vmm'.pc = "msi" <=> run[4] = "MSI_ONLY")
  BY <1>0, <1>6 DEF ToyTypes
<1>9. count'.ops = count.ops + 1 /\ count' \in [calls : Nat, exits : Nat, ops : Nat]
  BY <1>0, <1>6 DEF ToyTypes
<1>10. vmm'.pc \in {"return", "msi", "assert"} /\ ~AtCommand'
  BY <1>8 DEF AtCommand
<1>11. ToyTypes'
  BY <1>0, <1>1, <1>7, <1>8, <1>9 DEF ToyTypes
<1>12. ExitInv'
  BY <1>10 DEF ExitInv
<1>13. Waiting' = Waiting
  BY <1>1 DEF Waiting
<1>14. AtMostOne'
  BY <1>0, <1>1, <1>2, <1>9, <1>10, <1>13, Numbers DEF AtMostOne
<1>15. ExactlyOne'
  <2> SUFFICES ASSUME faults = 0 PROVE ExactlyOne'
    BY <1>1 DEF ExactlyOne
  <2>1. Asked
    BY <1>0, <1>1 DEF ExactlyOne, Raising, Raised, Refused, Handled, Answered
  <2>2. irq'.line = 0
    BY <1>0, <1>1 DEF ExactlyOne
  <2>3. CASE vmm'.pc = "return"
    BY <1>1, <1>3, <1>7, <1>8, <1>10, <2>1, <2>2, <2>3 DEF ExactlyOne, Asked, Refused, Owed
  <2>4. CASE vmm'.pc \in {"msi", "assert"}
    BY <1>1, <1>3, <1>7, <1>8, <1>10, <2>1, <2>2, <2>4 DEF ExactlyOne, Asked, Raising, Owed
  <2> QED
    BY <1>10, <2>3, <2>4
<1> QED
  BY <1>11, <1>12, <1>14, <1>15 DEF ToyInv

\* A vector more in the IRR is at most one interrupt more.
LEMMA OneMore ==
  ASSUME NEW s \in SUBSET Vectors, NEW v \in Vectors
  PROVE  Cardinality(s \cup {v}) <= Cardinality(s) + 1 /\ Cardinality(s \cup {v}) \in Nat
<1>1. s \cup {v} \in SUBSET Vectors
  OBVIOUS
<1>2. Cardinality(s \cup {v}) = Held(s \cup {v}) /\ Cardinality(s) = Held(s)
  BY <1>1, HeldIsCardinality
<1>3. Held(s \cup {v}) <= Held(s) + 1 /\ Held(s \cup {v}) \in Nat
  <2>0. DEVICE_VECTOR # MSI_VECTOR
    BY DEF DEVICE_VECTOR, MSI_VECTOR
  <2>1. CASE v = DEVICE_VECTOR
    <3>1. MSI_VECTOR \in s \cup {v} <=> MSI_VECTOR \in s
      BY <2>0, <2>1
    <3> QED
      BY <3>1 DEF Held
  <2>2. CASE v = MSI_VECTOR
    <3>1. DEVICE_VECTOR \in s \cup {v} <=> DEVICE_VECTOR \in s
      BY <2>0, <2>2
    <3> QED
      BY <3>1 DEF Held
  <2> QED
    BY <2>1, <2>2 DEF Vectors
<1> QED
  BY <1>2, <1>3

LEMMA InterruptIsRaised ==
  ASSUME ToyInv, NEW ok \in BOOLEAN,
         device_signal_msi(ok) \/ \E level \in 0 .. 1 : device_raise_legacy_irq(level, ok)
  PROVE  ToyInv'
<1>0. ToyTypes /\ ExitInv /\ AtMostOne /\ ExactlyOne
  BY DEF ToyInv
<1>1. vmm.pc \in {"msi", "assert", "deassert"} /\ UNCHANGED <<guest, dev>>
  BY DEF device_signal_msi, device_raise_legacy_irq
<1>2. guest.isr = 0 /\ irq.isr = {} /\ ~AtCommand
  BY <1>0, <1>1 DEF AtMostOne, AtCommand
<1>3. /\ faults' \in Nat /\ (faults' = 0 => faults = 0 /\ ok)
  <2>1. Fault(ok)
    BY DEF device_signal_msi, device_raise_legacy_irq
  <2>2. faults \in Nat
    BY <1>0 DEF ToyTypes
  <2> QED
    BY <2>1, <2>2 DEF Fault
<1>4. count'.ops = count.ops /\ count' \in [calls : Nat, exits : Nat, ops : Nat]
  <2>1. count' = [count EXCEPT !.calls = @ + 1]
    BY DEF device_signal_msi, device_raise_legacy_irq
  <2> QED
    BY <1>0, <2>1 DEF ToyTypes
<1>5. /\ vmm' \in [pc : {"return", "failed", "deassert"}, i : Nat]
      /\ vmm.pc = "msi" => vmm'.pc = (IF ok THEN "return" ELSE "failed")
      /\ vmm.pc = "assert" => vmm'.pc = "deassert"
      /\ vmm.pc = "deassert" => vmm'.pc = "return"
  <2>1. PICK q \in {"return", "failed", "deassert"} :
          /\ vmm' = [vmm EXCEPT !.pc = q]
          /\ vmm.pc = "msi" => q = (IF ok THEN "return" ELSE "failed")
          /\ vmm.pc = "assert" => q = "deassert"
          /\ vmm.pc = "deassert" => q = "return"
    BY DEF device_signal_msi, device_raise_legacy_irq
  <2> QED
    BY <1>0, <2>1 DEF ToyTypes
<1>6. /\ irq' \in [line : {0, 1}, irr : SUBSET Vectors, isr : SUBSET Vectors] /\ irq'.isr = {}
      /\ vmm.pc = "msi" => /\ irq'.line = irq.line
                           /\ irq'.irr = irq.irr \cup (IF ok THEN {MSI_VECTOR} ELSE {})
      /\ vmm.pc = "assert" =>
           /\ ok => irq'.line = 1
           /\ irq'.irr = irq.irr \cup (IF ok /\ irq.line = 0 THEN {DEVICE_VECTOR} ELSE {})
      /\ vmm.pc = "deassert" => (ok => irq'.line = 0) /\ irq'.irr = irq.irr
  <2>0. irq \in [line : {0, 1}, irr : SUBSET Vectors, isr : SUBSET Vectors]
    BY <1>0 DEF ToyTypes
  <2>1. CASE device_signal_msi(ok)
    <3> DEFINE more == IF ok THEN {MSI_VECTOR} ELSE {}
    <3>1. vmm.pc = "msi" /\ irq' = [irq EXCEPT !.irr = @ \cup more]
      BY <2>1 DEF device_signal_msi
    <3>2. more \in SUBSET Vectors
      BY DEF Vectors
    <3>3. /\ irq' \in [line : {0, 1}, irr : SUBSET Vectors, isr : SUBSET Vectors]
          /\ irq'.isr = irq.isr /\ irq'.line = irq.line /\ irq'.irr = irq.irr \cup more
      <4> HIDE DEF more
      <4> QED
        BY <2>0, <3>1, <3>2
    <3> QED
      BY <1>2, <3>1, <3>3
  <2>2. ASSUME NEW level \in 0 .. 1, device_raise_legacy_irq(level, ok)
        PROVE  <1>6!:
    <3> DEFINE more == IF ok /\ level = 1 /\ irq.line = 0 THEN {DEVICE_VECTOR} ELSE {}
               now  == IF ok THEN level ELSE irq.line
    <3>1. /\ vmm.pc = (IF level = 1 THEN "assert" ELSE "deassert")
          /\ irq' = [irq EXCEPT !.line = now, !.irr = @ \cup more]
      BY <2>2 DEF device_raise_legacy_irq
    <3>2. more \in SUBSET Vectors /\ now \in {0, 1}
      BY <2>0 DEF Vectors
    <3>3. /\ irq' \in [line : {0, 1}, irr : SUBSET Vectors, isr : SUBSET Vectors]
          /\ irq'.isr = irq.isr /\ irq'.line = now /\ irq'.irr = irq.irr \cup more
      <4> HIDE DEF more, now
      <4> QED
        BY <2>0, <3>1, <3>2
    <3>4. CASE level = 1
      <4>1. vmm.pc = "assert"
        BY <3>1, <3>4
      <4> QED
        BY <1>2, <3>3, <3>4, <4>1
    <3>5. CASE level = 0
      <4>1. vmm.pc = "deassert"
        BY <3>1, <3>5
      <4>2. more = {}
        BY <3>5
      <4> QED
        BY <1>2, <3>3, <3>5, <4>1, <4>2
    <3> QED
      BY <3>4, <3>5
  <2> QED
    BY <2>1, <2>2
<1>7. ToyTypes'
  BY <1>0, <1>1, <1>3, <1>4, <1>5, <1>6 DEF ToyTypes
<1>8. vmm'.pc \in {"return", "failed", "deassert"} /\ ~AtCommand'
  BY <1>5 DEF AtCommand
<1>9. ExitInv'
  BY <1>8 DEF ExitInv
<1>10. /\ Waiting' <= Waiting + (IF vmm.pc \in {"assert", "msi"} THEN 1 ELSE 0) /\ Waiting' \in Nat
  <2>1. irq.irr \in SUBSET Vectors /\ irq.irr \cup irq.isr = irq.irr /\ irq'.irr \cup irq'.isr = irq'.irr
    BY <1>0, <1>2, <1>6 DEF ToyTypes
  <2>2. \/ irq'.irr = irq.irr
        \/ /\ vmm.pc \in {"assert", "msi"}
           /\ \E v \in Vectors : irq'.irr = irq.irr \cup {v}
    BY <1>1, <1>6 DEF Vectors
  <2>3. Waiting \in Nat
    BY <1>0, Numbers
  <2>4. Waiting = Cardinality(irq.irr) /\ Waiting' = Cardinality(irq'.irr)
    BY <2>1 DEF Waiting
  <2>5. CASE irq'.irr = irq.irr
    BY <2>3, <2>4, <2>5
  <2>6. ASSUME vmm.pc \in {"assert", "msi"}, NEW v \in Vectors, irq'.irr = irq.irr \cup {v}
        PROVE  Waiting' <= Waiting + 1 /\ Waiting' \in Nat
    BY <2>1, <2>4, <2>6, OneMore
  <2> QED
    BY <2>2, <2>5, <2>6
<1>11. AtMostOne'
  <2>1. guest.irq_count + Waiting + (IF vmm.pc \in {"assert", "msi"} THEN 1 ELSE 0) <= count.ops
    BY <1>0, <1>2, Numbers DEF AtMostOne
  <2>2. guest.irq_count \in Nat /\ Waiting \in Nat /\ count.ops \in Nat
    BY <1>0, Numbers
  <2>3. guest.irq_count + Waiting' <= count.ops
    <3>1. \A a, w, x, b \in Nat, k \in {0, 1} : x <= w + k /\ a + w + k <= b => a + x <= b
      OBVIOUS
    <3> QED
      BY <1>10, <2>1, <2>2, <3>1
  <2> QED
    BY <1>0, <1>1, <1>2, <1>4, <1>6, <1>8, <1>10, <2>2, <2>3 DEF AtMostOne
<1>12. ExactlyOne'
  <2> SUFFICES ASSUME faults' = 0 PROVE ExactlyOne'
    BY DEF ExactlyOne
  <2>0. faults = 0 /\ ok
    BY <1>3
  <2>1. vmm.pc \in {"assert", "msi"} => irq.line = 0 /\ Raising
    BY <1>0, <1>2, <2>0 DEF ExactlyOne, Asked, Raised, Refused, Handled, Answered
  <2>2. vmm.pc = "deassert" => Raised
    BY <1>0, <1>2, <2>0 DEF ExactlyOne, Asked, Raising, Refused, Handled, Answered
  <2>3. guest.pc \in Outstanding
    BY <1>0, <1>1, <2>0 DEF ExactlyOne, Answered
  <2>4. vmm'.pc \in {"return", "deassert"} /\ irq'.line = (IF vmm'.pc = "deassert" THEN 1 ELSE 0)
    BY <1>1, <1>5, <1>6, <2>0, <2>1
  <2>5. irq'.irr = {Vector}
    BY <1>1, <1>6, <2>0, <2>1, <2>2 DEF Raising, Raised, Vector
  <2>6. Raised'
    BY <1>1, <1>2, <1>8, <2>1, <2>2, <2>4, <2>5 DEF Raising, Raised, Owed, Vector
  <2> QED
    BY <1>1, <2>3, <2>4, <2>6 DEF ExactlyOne
<1> QED
  BY <1>7, <1>9, <1>11, <1>12 DEF ToyInv

-----------------------------------------------------------------------------
LEMMA ToyInvIsInductive ==
  ASSUME ToyInv, [ToyNext]_toy_vars
  PROVE  ToyInv'
<1>1. CASE VmmStep
  <2>1. \/ \E ok \in BOOLEAN : SetUp(ok) \/ KvmRun(ok)
        \/ device_mmio_read \/ RegisterWrite \/ CommandReturns \/ PortWrite
        \/ CommandWrite
        \/ \E ok \in BOOLEAN : device_signal_msi(ok)
                                 \/ \E level \in 0 .. 1 : device_raise_legacy_irq(level, ok)
    BY <1>1 DEF VmmStep
  <2> QED
    BY <2>1, VmmBetweenCommands, CommandIsExecuted, InterruptIsRaised
<1>2. CASE GuestStep
  BY <1>2, GuestInstructions, CommandIsAsked, InterruptIsTaken, HandlerReadsAndAcknowledges,
     HandlerReturns DEF GuestStep
<1>3. CASE UNCHANGED machine
  BY <1>3 DEF machine, ToyInv, ToyTypes, ExitInv, AtMostOne, ExactlyOne, AtCommand, Waiting, Vector,
     Owed, Asked, Raising, Raised, Refused, Handled, Answered
<1> QED
  BY <1>1, <1>2, <1>3 DEF ToyNext, OtherVcpu, RingTurns, toy_vars

LEMMA ToyInvMeansOneInterrupt ==
  ASSUME ToyInv
  PROVE  OneInterruptPerCommand
<1>0. ToyTypes /\ AtMostOne /\ ExactlyOne
  BY DEF ToyInv
<1>1. guest.irq_count + Waiting <= count.ops + (IF guest.isr > 1 THEN 1 ELSE 0)
  BY <1>0, Numbers DEF AtMostOne
<1>2. ASSUME vmm.pc = "loop", faults = 0, dev.status = "DONE", guest.isr = 0
      PROVE  irq.irr = {Vector}
  BY <1>0, <1>2 DEF ExactlyOne, Asked, Raising, Raised, Refused, Handled, Answered, AtCommand
<1> QED
  BY <1>1, <1>2 DEF OneInterruptPerCommand, Waiting, Vector

(* device_execute_command() of virt-io/vmm.c and the handler of guest.S, whatever system calls
   fail and however many other virtual machines run: the handler never counts more
   interrupts than commands were executed, and while no call failed a command that completed
   has exactly its own vector waiting, the MSI or the legacy one. *)
THEOREM EveryCommandOneInterrupt == ToySpec => []OneInterruptPerCommand
<1>1. ToyInit => ToyInv
  BY ToyInvAtStart
<1>2. ToyInv /\ [ToyNext]_toy_vars => ToyInv'
  BY ToyInvIsInductive
<1>3. ToyInv => OneInterruptPerCommand
  BY ToyInvMeansOneInterrupt
<1> QED
  BY <1>1, <1>2, <1>3, PTL DEF ToySpec

-----------------------------------------------------------------------------
(* The trace.  While nothing was counted as lost, the maps of io.bpf.c hold, for the VMM's
   thread, a function of where the VMM and its guest are. *)

Counted(n) == IF n = 0 THEN {} ELSE {n}

IsIo(b) == DOMAIN b = IoMaps \cup {"out", "full", "lost"} /\ b.lost \in BOOLEAN

\* device_execute_command() is running.
Executing == vmm.pc \in {"assert", "deassert", "msi", "return"}
Operation == IF Executing THEN count.ops ELSE 0

\* The maps of thread "vmm" with x exits, c calls, o commands, a the command in progress.
Agree(b, x, c, o, a) ==
  /\ Here(b, "vmexit_counters", "vmm") = Counted(x)
  /\ Here(b, "current_vmexit", "vmm") = Counted(x)
  /\ Here(b, "ioctl_counters", "vmm") = Counted(c)
  /\ Here(b, "operation_counters", "vmm") = Counted(o)
  /\ Here(b, "active_operation", "vmm") = Counted(a)
  /\ Here(b, "command_calls", "vmm") = Counted(a)
  /\ Here(b, "dma_calls", "vmm") = {}

Calling(n, request) == {[call |-> n, args |-> <<request>>]}

MapsInv ==
  /\ IsIo(bpf)
  /\ ~bpf.lost /\ vmm.pc # "failed" =>
       /\ Agree(bpf, count.exits, count.calls, count.ops, Operation)
       /\ Here(bpf, "ioctl_calls", "vmm") = IF vmm.pc = "guest" THEN Calling(count.calls, "KVM_RUN") ELSE {}
       /\ Executing \/ vmm.pc \in {"guest", "exit"} => Here(bpf, "current_vcpu", "vmm") # {}

TraceInv == MapsInv /\ TraceExact

-----------------------------------------------------------------------------
\* The record of an event that happens at exit x, while command o runs.
Rec(event, x, o, c, a) == [event |-> event, vmexit |-> x, op |-> o, call |-> c, args |-> a]
True(e, x, o) == Rec(e.hook, x, o, e.call, e.args)

\* The fields of a BPF state, by name.
LEMMA IoFields ==
  ASSUME NEW b, IsIo(b)
  PROVE  /\ "current_vcpu" \in DOMAIN b /\ "ioctl_calls" \in DOMAIN b /\ "ioctl_counters" \in DOMAIN b
         /\ "vmexit_counters" \in DOMAIN b /\ "current_vmexit" \in DOMAIN b
         /\ "operation_counters" \in DOMAIN b /\ "active_operation" \in DOMAIN b
         /\ "command_calls" \in DOMAIN b /\ "dma_calls" \in DOMAIN b
         /\ "out" \in DOMAIN b /\ "full" \in DOMAIN b /\ "lost" \in DOMAIN b
         /\ b.lost \in BOOLEAN
BY DEF IsIo, IoMaps

\* u has the maps of b except those in M.
Kept(b, u, M) == \A m \in IoMaps : m \notin M => \A k : Here(u, m, k) = Here(b, m, k)

DidUpdate(b, u, m, k, v) ==
  /\ IsIo(u) /\ Kept(b, u, {m}) /\ u.out = b.out
  /\ ~u.lost => ~b.lost /\ Here(u, m, k) = {v}
  /\ ~u.lost => \A j : j # k => Here(u, m, j) = Here(b, m, j)

DidDelete(b, u, m, k) ==
  /\ IsIo(u) /\ Kept(b, u, {m}) /\ u.out = b.out /\ u.lost = b.lost
  /\ Here(u, m, k) = {}

DidOutput(b, u, r) ==
  /\ IsIo(u) /\ Kept(b, u, {})
  /\ ~u.lost => ~b.lost /\ u.out = Append(b.out, r)

LEMMA IoUpdate ==
  ASSUME NEW b, IsIo(b), NEW m \in IoMaps, NEW k, NEW v
  PROVE  DidUpdate(b, lab_map_update(b, m, k, v), m, k, v)
<1> DEFINE u == lab_map_update(b, m, k, v)
<1>0. u = lab_map_update(b, m, k, v)
  OBVIOUS
<1> HIDE DEF u
<1>1. /\ m \in DOMAIN b /\ m # "lost" /\ "lost" \in DOMAIN b /\ b.lost \in BOOLEAN
      /\ m # "out" /\ m # "full" /\ "out" \in DOMAIN b /\ "full" \in DOMAIN b
  BY DEF IsIo, IoMaps
<1>2. /\ DOMAIN u = DOMAIN b /\ u.lost \in BOOLEAN
      /\ \A f \in DOMAIN b : f # m /\ f # "lost" => u[f] = b[f]
      /\ ~u.lost => ~b.lost /\ Here(u, m, k) = {v}
      /\ ~u.lost => \A j : j # k => Here(u, m, j) = Here(b, m, j)
  BY <1>0, <1>1, Updated
<1>3. Kept(b, u, {m})
  <2>1. \A n \in IoMaps : n # m => u[n] = b[n]
    BY <1>2 DEF IsIo, IoMaps
  <2> QED
    BY <2>1, SameMap DEF Kept
<1>4. DidUpdate(b, u, m, k, v)
  BY <1>1, <1>2, <1>3 DEF IsIo, DidUpdate
<1> QED
  BY <1>0, <1>4

LEMMA IoDelete ==
  ASSUME NEW b, IsIo(b), NEW m \in IoMaps, NEW k
  PROVE  DidDelete(b, bpf_map_delete_elem(b, m, k), m, k)
<1> DEFINE u == bpf_map_delete_elem(b, m, k)
<1>0. u = bpf_map_delete_elem(b, m, k)
  OBVIOUS
<1> HIDE DEF u
<1>1. /\ m \in DOMAIN b /\ m # "lost" /\ "lost" \in DOMAIN b /\ m # "out" /\ "out" \in DOMAIN b
  BY DEF IsIo, IoMaps
<1>2. /\ DOMAIN u = DOMAIN b /\ Here(u, m, k) = {}
      /\ \A f \in DOMAIN b : f # m => u[f] = b[f]
  BY <1>0, <1>1, Deleted
<1>3. Kept(b, u, {m})
  <2>1. \A n \in IoMaps : n # m => u[n] = b[n]
    BY <1>2 DEF IsIo, IoMaps
  <2> QED
    BY <2>1, SameMap DEF Kept
<1>4. DidDelete(b, u, m, k)
  BY <1>1, <1>2, <1>3 DEF IsIo, DidDelete
<1> QED
  BY <1>0, <1>4

LEMMA IoOutput ==
  ASSUME NEW b, IsIo(b), NEW r
  PROVE  DidOutput(b, lab_output(b, r), r)
<1> DEFINE u == lab_output(b, r)
<1>0. u = lab_output(b, r)
  OBVIOUS
<1> HIDE DEF u
<1>1. "lost" \in DOMAIN b /\ "out" \in DOMAIN b /\ b.lost \in BOOLEAN
  BY DEF IsIo
<1>2. /\ DOMAIN u = DOMAIN b /\ u.lost \in BOOLEAN
      /\ \A f \in DOMAIN b : f # "out" /\ f # "lost" => u[f] = b[f]
      /\ ~u.lost => ~b.lost /\ u.out = Append(b.out, r)
  BY <1>0, <1>1, Told
<1>3. \A n \in IoMaps : u[n] = b[n]
  BY <1>2 DEF IsIo, IoMaps
<1>4. DidOutput(b, u, r)
  BY <1>2, <1>3, SameMap DEF IsIo, Kept, DidOutput
<1> QED
  BY <1>0, <1>4

LEMMA CountedGet ==
  ASSUME NEW b, NEW m, NEW n, Here(b, m, "vmm") = Counted(n)
  PROVE  Get(b, m, "vmm", 0) = n
BY HereIsGet DEF Counted

\* snapshot_base() is the record of the exit and the command of the thread.
LEMMA Snapshot ==
  ASSUME NEW b, NEW x, NEW o, NEW event,
         Here(b, "current_vmexit", "vmm") = Counted(x), Here(b, "active_operation", "vmm") = Counted(o)
  PROVE  snapshot_base(b, "vmm", event) = Rec(event, x, o, 0, <<>>)
<1>1. Get(b, "current_vmexit", "vmm", 0) = x /\ Get(b, "active_operation", "vmm", 0) = o
  BY CountedGet
<1> QED
  BY <1>1 DEF snapshot_base, Rec

LEMMA RecArgs ==
  ASSUME NEW event, NEW x, NEW o, NEW a, NEW r, r = Rec(event, x, o, 0, <<>>)
  PROVE  [r EXCEPT !.args = a] = Rec(event, x, o, 0, a)
BY DEF Rec

Called(r, c, a) == [r EXCEPT !.call = c, !.args = a]
Returned(r, o, a) == [r EXCEPT !.op = o, !.args = a]

LEMMA RecCall ==
  ASSUME NEW event, NEW x, NEW o, NEW c, NEW a
  PROVE  Called(Rec(event, x, o, 0, <<>>), c, a) = Rec(event, x, o, c, a)
<1> DEFINE r == Rec(event, x, o, 0, <<>>)
<1>1. [r EXCEPT !.call = c, !.args = a] = [[r EXCEPT !.call = c] EXCEPT !.args = a]
  OBVIOUS
<1>2. [r EXCEPT !.call = c] = Rec(event, x, o, c, <<>>)
  BY DEF Rec
<1>3. [Rec(event, x, o, c, <<>>) EXCEPT !.args = a] = Rec(event, x, o, c, a)
  BY DEF Rec
<1> QED
  BY <1>1, <1>2, <1>3 DEF Called

LEMMA RecOp ==
  ASSUME NEW event, NEW x, NEW o, NEW p, NEW a
  PROVE  Returned(Rec(event, x, o, 0, <<>>), p, a) = Rec(event, x, p, 0, a)
<1> DEFINE r == Rec(event, x, o, 0, <<>>)
<1>1. [r EXCEPT !.op = p, !.args = a] = [[r EXCEPT !.op = p] EXCEPT !.args = a]
  OBVIOUS
<1>2. [r EXCEPT !.op = p] = Rec(event, x, p, 0, <<>>)
  BY DEF Rec
<1>3. [Rec(event, x, p, 0, <<>>) EXCEPT !.args = a] = Rec(event, x, p, 0, a)
  BY DEF Rec
<1> QED
  BY <1>1, <1>2, <1>3 DEF Returned

LEMMA EvFields ==
  ASSUME NEW h, NEW s, NEW c, NEW a
  PROVE  Ev(h, s, c, a).hook = h /\ Ev(h, s, c, a).see = s /\ Ev(h, s, c, a).call = c /\ Ev(h, s, c, a).args = a
BY DEF Ev

\* The program that each tracepoint or uprobe runs.
LEMMA Programs ==
  ASSUME NEW b, NEW e
  PROVE  /\ e.hook = "KVM_ENTRY" => Hook(b, e) = kvm_entry_snapshot(b, "vmm")
         /\ e.hook = "KVM_EXIT" => Hook(b, e) = kvm_exit_snapshot(b, "vmm")
         /\ e.hook = "KVM_USERSPACE_EXIT" => Hook(b, e) = kvm_userspace_exit_snapshot(b, "vmm")
         /\ e.hook = "KVM_APIC" => Hook(b, e) = kvm_apic_snapshot(b, "vmm")
         /\ e.hook = "KVM_APIC_ACCEPT_IRQ" => Hook(b, e) = kvm_apic_accept_irq_snapshot(b, "vmm")
         /\ e.hook = "KVM_INJ_VIRQ" => Hook(b, e) = kvm_inj_virq_snapshot(b, "vmm")
         /\ e.hook = "KVM_IOAPIC_SET_IRQ" => Hook(b, e) = kvm_ioapic_set_irq_snapshot(b, "vmm", e.see)
         /\ e.hook = "KVM_MSI_SET_IRQ" => Hook(b, e) = kvm_msi_set_irq_snapshot(b, "vmm", e.see)
         /\ e.hook = "KVM_EOI" => Hook(b, e) = kvm_eoi_snapshot(b, "vmm")
         /\ e.hook = "SYS_ENTER_IOCTL" => Hook(b, e) = sys_enter_ioctl_snapshot(b, "vmm", e.see)
         /\ e.hook = "SYS_EXIT_IOCTL" => Hook(b, e) = sys_exit_ioctl_snapshot(b, "vmm")
         /\ e.hook = "DEVICE_MMIO_WRITE" => Hook(b, e) = device_mmio_write(b, "vmm", e.see)
         /\ e.hook = "DEVICE_EXECUTE_COMMAND" => Hook(b, e) = device_execute_command(b, "vmm", e.see)
         /\ e.hook = "DEVICE_EXECUTE_COMMAND_RETURN" =>
              Hook(b, e) = device_execute_command_return(b, "vmm", e.see)
         /\ e.hook = "DEVICE_DMA_TRANSFER" => Hook(b, e) = device_dma_transfer_entry(b, "vmm", e.see)
         /\ e.hook = "DEVICE_DMA_TRANSFER_RETURN" => Hook(b, e) = device_dma_transfer_return(b, "vmm")
BY DEF Hook

\* What a program may not do: forget that something was lost.
Safe(b, u) == IsIo(u) /\ (~u.lost => ~b.lost)

SawBoundary(b, u, e) ==
  /\ Safe(b, u) /\ Kept(b, u, {})
  /\ \A x, o : /\ ~u.lost
               /\ Here(b, "current_vmexit", "vmm") = Counted(x)
               /\ Here(b, "active_operation", "vmm") = Counted(o)
               => u.out = Append(b.out, True(e, x, o))

\* The programs that only tell.
LEMMA SeenBoundary ==
  ASSUME NEW b, IsIo(b), NEW e, NEW u, u = Hook(b, e),
         e.hook \in {"KVM_USERSPACE_EXIT", "KVM_APIC"}, e.call = 0, e.args = <<>>
  PROVE  SawBoundary(b, u, e)
<1> USE DEF SawBoundary
<1>1. u = lab_output(b, snapshot_base(b, "vmm", e.hook))
  BY Programs DEF kvm_userspace_exit_snapshot, kvm_apic_snapshot, emit_boundary, is_vmm_comm
<1>2. /\ IsIo(u) /\ Kept(b, u, {})
      /\ ~u.lost => ~b.lost /\ u.out = Append(b.out, snapshot_base(b, "vmm", e.hook))
  BY <1>1, IoOutput DEF DidOutput
<1>3. ASSUME NEW x, NEW o, ~u.lost, Here(b, "current_vmexit", "vmm") = Counted(x),
             Here(b, "active_operation", "vmm") = Counted(o)
      PROVE  u.out = Append(b.out, True(e, x, o))
  <2>1. snapshot_base(b, "vmm", e.hook) = Rec(e.hook, x, o, 0, <<>>)
    BY <1>3, Snapshot
  <2> QED
    BY <1>2, <1>3, <2>1 DEF True
<1> QED
  BY <1>2, <1>3 DEF Safe

VcpuHooks == {"KVM_APIC_ACCEPT_IRQ", "KVM_INJ_VIRQ", "KVM_IOAPIC_SET_IRQ", "KVM_MSI_SET_IRQ", "KVM_EOI"}

DidEmit(b, u, event, a) ==
  /\ Safe(b, u) /\ Kept(b, u, {})
  /\ \A x, o : /\ ~u.lost
               /\ Here(b, "current_vcpu", "vmm") # {}
               /\ Here(b, "current_vmexit", "vmm") = Counted(x)
               /\ Here(b, "active_operation", "vmm") = Counted(o)
               => u.out = Append(b.out, Rec(event, x, o, 0, a))

LEMMA EmittedForVcpu ==
  ASSUME NEW b, IsIo(b), NEW event, NEW a, NEW u, u = emit_for_vcpu(b, "vmm", event, a)
  PROVE  DidEmit(b, u, event, a)
<1> DEFINE r == [snapshot_base(b, "vmm", event) EXCEPT !.args = a]
<1>1. CASE u = lab_output(b, r)
  <2>1. IsIo(u) /\ Kept(b, u, {}) /\ (~u.lost => ~b.lost /\ u.out = Append(b.out, r))
    BY <1>1, IoOutput DEF DidOutput
  <2>2. ASSUME NEW x, NEW o, ~u.lost, Here(b, "current_vmexit", "vmm") = Counted(x),
               Here(b, "active_operation", "vmm") = Counted(o)
        PROVE  u.out = Append(b.out, Rec(event, x, o, 0, a))
    <3>1. snapshot_base(b, "vmm", event) = Rec(event, x, o, 0, <<>>)
      BY <2>2, Snapshot
    <3>2. r = Rec(event, x, o, 0, a)
      BY <3>1, RecArgs
    <3> QED
      BY <2>1, <2>2, <3>2
  <2> QED
    BY <2>1, <2>2 DEF Safe, DidEmit
<1>2. CASE u = b /\ Here(b, "current_vcpu", "vmm") = {}
  BY <1>2 DEF Safe, Kept, DidEmit
<1> QED
  BY <1>1, <1>2, HereIsHas DEF emit_for_vcpu, vcpu_from_map, is_vmm_comm

SawForVcpu(b, u, e) ==
  /\ Safe(b, u) /\ Kept(b, u, {})
  /\ \A x, o : /\ ~u.lost
               /\ Here(b, "current_vcpu", "vmm") # {}
               /\ Here(b, "current_vmexit", "vmm") = Counted(x)
               /\ Here(b, "active_operation", "vmm") = Counted(o)
               /\ e.hook \in {"KVM_APIC_ACCEPT_IRQ", "KVM_INJ_VIRQ", "KVM_EOI"} => e.args = <<>>
               => u.out = Append(b.out, True(e, x, o))

LEMMA SeenForVcpu ==
  ASSUME NEW b, IsIo(b), NEW e, NEW u, u = Hook(b, e), e.hook \in VcpuHooks,
         e.call = 0, e.see = e.args
  PROVE  SawForVcpu(b, u, e)
<1> USE DEF SawForVcpu
<1>1. \E a : u = emit_for_vcpu(b, "vmm", e.hook, a)
             /\ (e.hook \in {"KVM_APIC_ACCEPT_IRQ", "KVM_INJ_VIRQ", "KVM_EOI"} => a = <<>>)
             /\ (e.hook \in {"KVM_IOAPIC_SET_IRQ", "KVM_MSI_SET_IRQ"} => a = e.args)
  BY Programs DEF VcpuHooks, kvm_apic_accept_irq_snapshot, kvm_inj_virq_snapshot,
     kvm_ioapic_set_irq_snapshot, kvm_msi_set_irq_snapshot, kvm_eoi_snapshot
<1>2. PICK a : /\ u = emit_for_vcpu(b, "vmm", e.hook, a)
               /\ e.hook \in {"KVM_APIC_ACCEPT_IRQ", "KVM_INJ_VIRQ", "KVM_EOI"} => a = <<>>
               /\ e.hook \in {"KVM_IOAPIC_SET_IRQ", "KVM_MSI_SET_IRQ"} => a = e.args
  BY <1>1
<1>3. /\ Safe(b, u) /\ Kept(b, u, {})
      /\ \A x, o : /\ ~u.lost
                   /\ Here(b, "current_vcpu", "vmm") # {}
                   /\ Here(b, "current_vmexit", "vmm") = Counted(x)
                   /\ Here(b, "active_operation", "vmm") = Counted(o)
                   => u.out = Append(b.out, Rec(e.hook, x, o, 0, a))
  <2>1. DidEmit(b, u, e.hook, a)
    BY <1>2, EmittedForVcpu
  <2> QED
    BY <2>1 DEF DidEmit
<1> QED
  BY <1>2, <1>3 DEF True, VcpuHooks

SawEntry(b, u, e) ==
  /\ Safe(b, u) /\ Kept(b, u, {"current_vcpu"})
  /\ ~u.lost => Here(u, "current_vcpu", "vmm") # {}
  /\ \A x, o : /\ ~u.lost
               /\ Here(b, "current_vmexit", "vmm") = Counted(x)
               /\ Here(b, "active_operation", "vmm") = Counted(o)
               => u.out = Append(b.out, True(e, x, o))

\* kvm_entry: the thread's vCPU is known from here on.
LEMMA SeenEntry ==
  ASSUME NEW b, IsIo(b), NEW e, NEW u, u = Hook(b, e), e.hook = "KVM_ENTRY", e.call = 0, e.args = <<>>
  PROVE  SawEntry(b, u, e)
<1> USE DEF SawEntry
<1> DEFINE c == lab_map_update(b, "current_vcpu", "vmm", "vmm")
<1>1. u = lab_output(c, snapshot_base(c, "vmm", "KVM_ENTRY"))
  BY Programs DEF kvm_entry_snapshot, is_vmm_comm
<1>2. "current_vcpu" \in IoMaps /\ "current_vmexit" \in IoMaps /\ "active_operation" \in IoMaps
  BY DEF IoMaps
<1>0. c = lab_map_update(b, "current_vcpu", "vmm", "vmm")
  OBVIOUS
<1> HIDE DEF c
<1>3. /\ IsIo(c) /\ Kept(b, c, {"current_vcpu"}) /\ c.out = b.out
      /\ ~c.lost => ~b.lost /\ Here(c, "current_vcpu", "vmm") = {"vmm"}
  <2>1. DidUpdate(b, c, "current_vcpu", "vmm", "vmm")
    BY <1>0, <1>2, IoUpdate
  <2> QED
    BY <2>1 DEF DidUpdate
<1>4. /\ IsIo(u) /\ Kept(c, u, {})
      /\ ~u.lost => ~c.lost /\ u.out = Append(c.out, snapshot_base(c, "vmm", "KVM_ENTRY"))
  BY <1>1, <1>3, IoOutput DEF DidOutput
<1>5. ASSUME NEW x, NEW o, ~u.lost, Here(b, "current_vmexit", "vmm") = Counted(x),
             Here(b, "active_operation", "vmm") = Counted(o)
      PROVE  u.out = Append(b.out, True(e, x, o))
  <2>1. Here(c, "current_vmexit", "vmm") = Counted(x) /\ Here(c, "active_operation", "vmm") = Counted(o)
    BY <1>2, <1>3, <1>5 DEF Kept
  <2>2. snapshot_base(c, "vmm", "KVM_ENTRY") = Rec("KVM_ENTRY", x, o, 0, <<>>)
    BY <2>1, Snapshot
  <2> QED
    BY <1>3, <1>4, <1>5, <2>2 DEF True
<1>6. ~u.lost => Here(u, "current_vcpu", "vmm") # {}
  BY <1>2, <1>3, <1>4 DEF Kept
<1>7. Safe(b, u) /\ Kept(b, u, {"current_vcpu"})
  BY <1>3, <1>4 DEF Safe, Kept
<1> QED
  BY <1>5, <1>6, <1>7

SawExit(b, u, e) ==
  /\ Safe(b, u) /\ Kept(b, u, {"vmexit_counters", "current_vmexit"})
  /\ \A x \in Nat : \A o :
       /\ ~u.lost
       /\ Here(b, "vmexit_counters", "vmm") = Counted(x)
       /\ Here(b, "active_operation", "vmm") = Counted(o)
       => /\ Here(u, "vmexit_counters", "vmm") = Counted(x + 1)
          /\ Here(u, "current_vmexit", "vmm") = Counted(x + 1)
          /\ u.out = Append(b.out, True(e, x + 1, o))

\* kvm_exit: one more exit, and it is the current one.
LEMMA SeenExit ==
  ASSUME NEW b, IsIo(b), NEW e, NEW u, u = Hook(b, e), e.hook = "KVM_EXIT", e.call = 0, e.args = <<>>
  PROVE  SawExit(b, u, e)
<1> USE DEF SawExit
<1> DEFINE n == Bump(b, "vmexit_counters", "vmm")
           c == lab_map_update(b, "vmexit_counters", "vmm", n)
           d == lab_map_update(c, "current_vmexit", "vmm", n)
<1>1. u = lab_output(d, snapshot_base(d, "vmm", "KVM_EXIT"))
  BY Programs DEF kvm_exit_snapshot, is_vmm_comm
<1>2. "vmexit_counters" \in IoMaps /\ "current_vmexit" \in IoMaps /\ "active_operation" \in IoMaps
  BY DEF IoMaps
<1>0. /\ c = lab_map_update(b, "vmexit_counters", "vmm", n)
      /\ d = lab_map_update(c, "current_vmexit", "vmm", n)
  OBVIOUS
<1> HIDE DEF n, c, d
<1>3. /\ IsIo(c) /\ Kept(b, c, {"vmexit_counters"}) /\ c.out = b.out
      /\ ~c.lost => ~b.lost /\ Here(c, "vmexit_counters", "vmm") = {n}
  <2>1. DidUpdate(b, c, "vmexit_counters", "vmm", n)
    BY <1>0, <1>2, IoUpdate
  <2> QED
    BY <2>1 DEF DidUpdate
<1>4. /\ IsIo(d) /\ Kept(c, d, {"current_vmexit"}) /\ d.out = c.out
      /\ ~d.lost => ~c.lost /\ Here(d, "current_vmexit", "vmm") = {n}
  <2>1. DidUpdate(c, d, "current_vmexit", "vmm", n)
    BY <1>0, <1>2, <1>3, IoUpdate
  <2> QED
    BY <2>1 DEF DidUpdate
<1>5. /\ IsIo(u) /\ Kept(d, u, {})
      /\ ~u.lost => ~d.lost /\ u.out = Append(d.out, snapshot_base(d, "vmm", "KVM_EXIT"))
  BY <1>1, <1>4, IoOutput DEF DidOutput
<1>6. ASSUME NEW x \in Nat, NEW o, ~u.lost, Here(b, "vmexit_counters", "vmm") = Counted(x),
             Here(b, "active_operation", "vmm") = Counted(o)
      PROVE  /\ Here(u, "vmexit_counters", "vmm") = Counted(x + 1)
             /\ Here(u, "current_vmexit", "vmm") = Counted(x + 1)
             /\ u.out = Append(b.out, True(e, x + 1, o))
  <2>1. n = x + 1 /\ Counted(x + 1) = {n}
    <3>1. Get(b, "vmexit_counters", "vmm", 0) = x
      BY <1>6, CountedGet
    <3> QED
      BY <3>1 DEF n, Bump, Counted
  <2>2. /\ Here(d, "current_vmexit", "vmm") = Counted(x + 1)
        /\ Here(d, "vmexit_counters", "vmm") = Counted(x + 1)
        /\ Here(d, "active_operation", "vmm") = Counted(o)
    BY <1>2, <1>3, <1>4, <1>5, <1>6, <2>1 DEF Kept
  <2>3. snapshot_base(d, "vmm", "KVM_EXIT") = Rec("KVM_EXIT", x + 1, o, 0, <<>>)
    BY <2>2, Snapshot
  <2>4. u.out = Append(b.out, True(e, x + 1, o))
    BY <1>3, <1>4, <1>5, <1>6, <2>3 DEF True
  <2> QED
    BY <1>2, <1>5, <2>2, <2>4 DEF Kept
<1> QED
  BY <1>2, <1>3, <1>4, <1>5, <1>6 DEF Safe, Kept

SawIoctlEnter(b, u, e) ==
  /\ Safe(b, u) /\ Kept(b, u, {"ioctl_counters", "ioctl_calls"})
  /\ \A c \in Nat : \A x, o :
       /\ ~u.lost /\ e.call = c + 1
       /\ Here(b, "ioctl_counters", "vmm") = Counted(c)
       /\ Here(b, "current_vmexit", "vmm") = Counted(x)
       /\ Here(b, "active_operation", "vmm") = Counted(o)
       => /\ Here(u, "ioctl_counters", "vmm") = Counted(c + 1)
          /\ Here(u, "ioctl_calls", "vmm") = {[call |-> e.call, args |-> e.args]}
          /\ u.out = Append(b.out, True(e, x, o))

\* The entry of ioctl(2): numbered, and its arguments are saved for the return.
LEMMA SeenIoctlEnter ==
  ASSUME NEW b, IsIo(b), NEW e, NEW u, u = Hook(b, e), e.hook = "SYS_ENTER_IOCTL", e.see = e.args
  PROVE  SawIoctlEnter(b, u, e)
<1> USE DEF SawIoctlEnter
<1> DEFINE n == Bump(b, "ioctl_counters", "vmm")
           v == [call |-> n, args |-> e.see]
           c == lab_map_update(b, "ioctl_counters", "vmm", n)
           d == lab_map_update(c, "ioctl_calls", "vmm", v)
           r == Called(snapshot_base(b, "vmm", "SYS_ENTER_IOCTL"), n, e.see)
<1>1. u = lab_output(d, r)
  BY Programs DEF sys_enter_ioctl_snapshot, is_vmm_comm, Called
<1>2. "ioctl_counters" \in IoMaps /\ "ioctl_calls" \in IoMaps
  BY DEF IoMaps
<1>0. /\ c = lab_map_update(b, "ioctl_counters", "vmm", n)
      /\ d = lab_map_update(c, "ioctl_calls", "vmm", v)
  OBVIOUS
<1> HIDE DEF n, v, r, c, d
<1>3. /\ IsIo(c) /\ Kept(b, c, {"ioctl_counters"}) /\ c.out = b.out
      /\ ~c.lost => ~b.lost /\ Here(c, "ioctl_counters", "vmm") = {n}
  <2>1. DidUpdate(b, c, "ioctl_counters", "vmm", n)
    BY <1>0, <1>2, IoUpdate
  <2> QED
    BY <2>1 DEF DidUpdate
<1>4. /\ IsIo(d) /\ Kept(c, d, {"ioctl_calls"}) /\ d.out = c.out
      /\ ~d.lost => ~c.lost /\ Here(d, "ioctl_calls", "vmm") = {v}
  <2>1. DidUpdate(c, d, "ioctl_calls", "vmm", v)
    BY <1>0, <1>2, <1>3, IoUpdate
  <2> QED
    BY <2>1 DEF DidUpdate
<1>5. IsIo(u) /\ Kept(d, u, {}) /\ (~u.lost => ~d.lost /\ u.out = Append(d.out, r))
  BY <1>1, <1>4, IoOutput DEF DidOutput
<1>6. ASSUME NEW k \in Nat, NEW x, NEW o, ~u.lost, e.call = k + 1,
             Here(b, "ioctl_counters", "vmm") = Counted(k),
             Here(b, "current_vmexit", "vmm") = Counted(x), Here(b, "active_operation", "vmm") = Counted(o)
      PROVE  /\ Here(u, "ioctl_counters", "vmm") = Counted(k + 1)
             /\ Here(u, "ioctl_calls", "vmm") = {[call |-> e.call, args |-> e.args]}
             /\ u.out = Append(b.out, True(e, x, o))
  <2>1. n = k + 1 /\ Counted(k + 1) = {n}
    <3>1. Get(b, "ioctl_counters", "vmm", 0) = k
      BY <1>6, CountedGet
    <3> QED
      BY <3>1 DEF n, Bump, Counted
  <2>2. r = Rec("SYS_ENTER_IOCTL", x, o, n, e.see)
    <3>1. snapshot_base(b, "vmm", "SYS_ENTER_IOCTL") = Rec("SYS_ENTER_IOCTL", x, o, 0, <<>>)
      BY <1>6, Snapshot
    <3> QED
      BY <3>1, RecCall DEF r
  <2>3. v = [call |-> e.call, args |-> e.args]
    BY <1>6, <2>1 DEF v
  <2>4. Here(u, "ioctl_counters", "vmm") = Counted(k + 1) /\ Here(u, "ioctl_calls", "vmm") = {v}
    BY <1>2, <1>3, <1>4, <1>5, <1>6, <2>1 DEF Kept
  <2>5. u.out = Append(b.out, True(e, x, o))
    BY <1>3, <1>4, <1>5, <1>6, <2>1, <2>2 DEF True
  <2> QED
    BY <2>3, <2>4, <2>5
<1> QED
  BY <1>2, <1>3, <1>4, <1>5, <1>6 DEF Safe, Kept

SawIoctlExit(b, u, e) ==
  /\ Safe(b, u) /\ Kept(b, u, {"ioctl_calls"})
  /\ \A x, o : /\ ~u.lost
               /\ Here(b, "ioctl_calls", "vmm") = {[call |-> e.call, args |-> e.args]}
               /\ Here(b, "current_vmexit", "vmm") = Counted(x)
               /\ Here(b, "active_operation", "vmm") = Counted(o)
               => /\ Here(u, "ioctl_calls", "vmm") = {}
                  /\ u.out = Append(b.out, True(e, x, o))

\* Its return: told with the saved number and arguments, which are dropped.
LEMMA SeenIoctlExit ==
  ASSUME NEW b, IsIo(b), NEW e, NEW u, u = Hook(b, e), e.hook = "SYS_EXIT_IOCTL"
  PROVE  SawIoctlExit(b, u, e)
<1> USE DEF SawIoctlExit
<1> DEFINE v == b.ioctl_calls["vmm"]
           r == Called(snapshot_base(b, "vmm", "SYS_EXIT_IOCTL"), v.call, v.args)
           d == lab_output(b, r)
<1>1. \/ ~Has(b, "ioctl_calls", "vmm") /\ u = b
      \/ u = bpf_map_delete_elem(d, "ioctl_calls", "vmm")
  BY Programs DEF sys_exit_ioctl_snapshot, is_vmm_comm, Called
<1>2. "ioctl_calls" \in IoMaps
  BY DEF IoMaps
<1>3. CASE ~Has(b, "ioctl_calls", "vmm") /\ u = b
  BY <1>3, HereIsHas DEF Safe, Kept
<1>4. CASE u = bpf_map_delete_elem(d, "ioctl_calls", "vmm")
  <2> HIDE DEF v, r
  <2>1. IsIo(d) /\ Kept(b, d, {}) /\ (~d.lost => ~b.lost /\ d.out = Append(b.out, r))
    BY IoOutput DEF DidOutput
  <2> HIDE DEF d
  <2>2. /\ IsIo(u) /\ Kept(d, u, {"ioctl_calls"}) /\ u.out = d.out /\ u.lost = d.lost
        /\ Here(u, "ioctl_calls", "vmm") = {}
    <3>1. DidDelete(d, u, "ioctl_calls", "vmm")
      BY <1>2, <1>4, <2>1, IoDelete
    <3> QED
      BY <3>1 DEF DidDelete
  <2>3. ASSUME NEW x, NEW o, ~u.lost, Here(b, "ioctl_calls", "vmm") = {[call |-> e.call, args |-> e.args]},
               Here(b, "current_vmexit", "vmm") = Counted(x), Here(b, "active_operation", "vmm") = Counted(o)
        PROVE  u.out = Append(b.out, True(e, x, o))
    <3>1. v = [call |-> e.call, args |-> e.args]
      BY <2>3, HereIsGet DEF v
    <3>2. v.call = e.call /\ v.args = e.args
      BY <3>1
    <3>3. r = Rec("SYS_EXIT_IOCTL", x, o, e.call, e.args)
      <4>1. snapshot_base(b, "vmm", "SYS_EXIT_IOCTL") = Rec("SYS_EXIT_IOCTL", x, o, 0, <<>>)
        BY <2>3, Snapshot
      <4> QED
        BY <3>2, <4>1, RecCall DEF r
    <3> QED
      BY <2>1, <2>2, <2>3, <3>3 DEF True
  <2> QED
    BY <1>2, <2>1, <2>2, <2>3 DEF Safe, Kept
<1> QED
  BY <1>1, <1>3, <1>4

\* The vCPU is known while the device works, so nothing of it is dropped silently.
Known(b) == Here(b, "current_vcpu", "vmm") # {}

LEMMA KnownIsVcpu ==
  ASSUME NEW b
  PROVE  Known(b) <=> vcpu_from_map(b, "vmm")
BY HereIsHas DEF Known, vcpu_from_map

SawRegister(b, u, e) ==
  /\ Safe(b, u) /\ Kept(b, u, {})
  /\ \A x, o : /\ ~u.lost /\ Known(b)
               /\ Here(b, "current_vmexit", "vmm") = Counted(x)
               /\ Here(b, "active_operation", "vmm") = Counted(o)
               => u.out = Append(b.out, True(e, x, o))

\* A register other than COMMAND is written.
LEMMA SeenRegister ==
  ASSUME NEW b, IsIo(b), NEW e, NEW u, u = Hook(b, e), e.hook = "DEVICE_MMIO_WRITE",
         e.call = 0, e.see = e.args, e.see[1] # "REG_COMMAND"
  PROVE  SawRegister(b, u, e)
<1> USE DEF SawRegister
<1>1. u = IF vcpu_from_map(b, "vmm") THEN emit_for_vcpu(b, "vmm", "DEVICE_MMIO_WRITE", e.see) ELSE b
  BY Programs DEF device_mmio_write
<1>2. CASE vcpu_from_map(b, "vmm")
  <2>1. u = emit_for_vcpu(b, "vmm", "DEVICE_MMIO_WRITE", e.see)
    BY <1>1, <1>2
  <2>2. /\ Safe(b, u) /\ Kept(b, u, {})
        /\ \A x, o : /\ ~u.lost /\ Known(b)
                     /\ Here(b, "current_vmexit", "vmm") = Counted(x)
                     /\ Here(b, "active_operation", "vmm") = Counted(o)
                     => u.out = Append(b.out, Rec("DEVICE_MMIO_WRITE", x, o, 0, e.see))
    <3>1. DidEmit(b, u, "DEVICE_MMIO_WRITE", e.see)
      BY <2>1, EmittedForVcpu
    <3> QED
      BY <3>1 DEF DidEmit, Known
  <2> QED
    BY <2>2 DEF True
<1>3. CASE ~vcpu_from_map(b, "vmm")
  BY <1>1, <1>3, KnownIsVcpu DEF Safe, Kept
<1> QED
  BY <1>2, <1>3

SawCommand(b, u, e) ==
  /\ Safe(b, u) /\ Kept(b, u, {"operation_counters", "active_operation"})
  /\ \A n \in Nat : \A x :
       /\ ~u.lost /\ Known(b)
       /\ Here(b, "current_vmexit", "vmm") = Counted(x)
       /\ Here(b, "operation_counters", "vmm") = Counted(n)
       => /\ Here(u, "operation_counters", "vmm") = Counted(n + 1)
          /\ Here(u, "active_operation", "vmm") = Counted(n + 1)
          /\ u.out = Append(b.out, True(e, x, n + 1))

\* COMMAND is written: the next operation, which is the active one.
LEMMA SeenCommand ==
  ASSUME NEW b, IsIo(b), NEW e, NEW u, u = Hook(b, e), e.hook = "DEVICE_MMIO_WRITE",
         e.call = 0, e.see = e.args, e.see[1] = "REG_COMMAND"
  PROVE  SawCommand(b, u, e)
<1> USE DEF SawCommand
<1> DEFINE n == Bump(b, "operation_counters", "vmm")
           c == lab_map_update(b, "operation_counters", "vmm", n)
           d == lab_map_update(c, "active_operation", "vmm", n)
<1>1. u = IF vcpu_from_map(b, "vmm") THEN emit_for_vcpu(d, "vmm", "DEVICE_MMIO_WRITE", e.see) ELSE b
  BY Programs DEF device_mmio_write
<1>2. /\ "operation_counters" \in IoMaps /\ "active_operation" \in IoMaps
      /\ "current_vcpu" \in IoMaps /\ "current_vmexit" \in IoMaps
  BY DEF IoMaps
<1>0. /\ c = lab_map_update(b, "operation_counters", "vmm", n)
      /\ d = lab_map_update(c, "active_operation", "vmm", n)
  OBVIOUS
<1> HIDE DEF n, c, d
<1>3. CASE ~vcpu_from_map(b, "vmm")
  BY <1>1, <1>3, KnownIsVcpu DEF Safe, Kept
<1>4. CASE vcpu_from_map(b, "vmm")
  <2>1. DidUpdate(b, c, "operation_counters", "vmm", n)
    BY <1>0, <1>2, IoUpdate
  <2>2. DidUpdate(c, d, "active_operation", "vmm", n)
    <3>1. IsIo(c)
      BY <2>1 DEF DidUpdate
    <3> QED
      BY <1>0, <1>2, <3>1, IoUpdate
  <2>3. u = emit_for_vcpu(d, "vmm", "DEVICE_MMIO_WRITE", e.see) /\ IsIo(d)
    BY <1>1, <1>4, <2>2 DEF DidUpdate
  <2>4. /\ Safe(d, u) /\ Kept(d, u, {})
        /\ \A x, o : /\ ~u.lost /\ Known(d)
                     /\ Here(d, "current_vmexit", "vmm") = Counted(x)
                     /\ Here(d, "active_operation", "vmm") = Counted(o)
                     => u.out = Append(d.out, Rec("DEVICE_MMIO_WRITE", x, o, 0, e.see))
    <3>1. DidEmit(d, u, "DEVICE_MMIO_WRITE", e.see)
      BY <2>3, EmittedForVcpu
    <3> QED
      BY <3>1 DEF DidEmit, Known
  <2>5. Safe(b, u) /\ Kept(b, u, {"operation_counters", "active_operation"}) /\ d.out = b.out
    BY <2>1, <2>2, <2>4 DEF Safe, Kept, DidUpdate
  <2>6. ASSUME NEW k \in Nat, NEW x, ~u.lost, Known(b), Here(b, "current_vmexit", "vmm") = Counted(x),
               Here(b, "operation_counters", "vmm") = Counted(k)
        PROVE  /\ Here(u, "operation_counters", "vmm") = Counted(k + 1)
               /\ Here(u, "active_operation", "vmm") = Counted(k + 1)
               /\ u.out = Append(b.out, True(e, x, k + 1))
    <3>1. Get(b, "operation_counters", "vmm", 0) = k
      BY <2>6, CountedGet
    <3>2. n = k + 1 /\ Counted(k + 1) = {n}
      BY <3>1 DEF n, Bump, Counted
    <3>3. /\ Here(d, "operation_counters", "vmm") = Counted(k + 1)
          /\ Here(d, "active_operation", "vmm") = Counted(k + 1)
          /\ Here(d, "current_vmexit", "vmm") = Counted(x) /\ Known(d)
      <4>1. ~d.lost /\ ~c.lost
        BY <2>2, <2>4, <2>6 DEF Safe, DidUpdate
      <4>2. Here(d, "active_operation", "vmm") = {n} /\ Here(c, "operation_counters", "vmm") = {n}
        BY <2>1, <2>2, <4>1 DEF DidUpdate
      <4>3. /\ Here(d, "operation_counters", "vmm") = Here(c, "operation_counters", "vmm")
            /\ Here(d, "current_vmexit", "vmm") = Here(b, "current_vmexit", "vmm")
            /\ Here(d, "current_vcpu", "vmm") = Here(b, "current_vcpu", "vmm")
        BY <1>2, <2>1, <2>2 DEF Kept, DidUpdate
      <4> QED
        BY <2>6, <3>2, <4>2, <4>3 DEF Known
    <3>4. u.out = Append(b.out, Rec("DEVICE_MMIO_WRITE", x, k + 1, 0, e.see))
      BY <2>4, <2>5, <2>6, <3>3
    <3> QED
      BY <1>2, <2>4, <3>3, <3>4 DEF Kept, True
  <2> QED
    BY <2>5, <2>6
<1> QED
  BY <1>3, <1>4

SawExecute(b, u, e) ==
  /\ Safe(b, u) /\ Kept(b, u, {"command_calls"})
  /\ \A x, o : /\ ~u.lost /\ Known(b)
               /\ Here(b, "current_vmexit", "vmm") = Counted(x)
               /\ Here(b, "active_operation", "vmm") = Counted(o)
               => /\ Here(u, "command_calls", "vmm") = {o}
                  /\ u.out = Append(b.out, True(e, x, o))

\* device_execute_command() is entered: the active operation is saved for its return.
LEMMA SeenExecute ==
  ASSUME NEW b, IsIo(b), NEW e, NEW u, u = Hook(b, e), e.hook = "DEVICE_EXECUTE_COMMAND",
         e.call = 0, e.see = e.args
  PROVE  SawExecute(b, u, e)
<1> USE DEF SawExecute
<1> DEFINE v == Get(b, "active_operation", "vmm", 0)
           c == lab_map_update(b, "command_calls", "vmm", v)
<1>1. u = IF vcpu_from_map(b, "vmm") THEN emit_for_vcpu(c, "vmm", "DEVICE_EXECUTE_COMMAND", e.see) ELSE b
  BY Programs DEF device_execute_command, is_vmm_comm
<1>2. /\ "command_calls" \in IoMaps /\ "active_operation" \in IoMaps
      /\ "current_vcpu" \in IoMaps /\ "current_vmexit" \in IoMaps
  BY DEF IoMaps
<1>0. c = lab_map_update(b, "command_calls", "vmm", v)
  OBVIOUS
<1> HIDE DEF v, c
<1>3. CASE ~vcpu_from_map(b, "vmm")
  BY <1>1, <1>3, KnownIsVcpu DEF Safe, Kept
<1>4. CASE vcpu_from_map(b, "vmm")
  <2>1. DidUpdate(b, c, "command_calls", "vmm", v)
    BY <1>0, <1>2, IoUpdate
  <2>3. u = emit_for_vcpu(c, "vmm", "DEVICE_EXECUTE_COMMAND", e.see) /\ IsIo(c)
    BY <1>1, <1>4, <2>1 DEF DidUpdate
  <2>4. /\ Safe(c, u) /\ Kept(c, u, {})
        /\ \A x, o : /\ ~u.lost /\ Known(c)
                     /\ Here(c, "current_vmexit", "vmm") = Counted(x)
                     /\ Here(c, "active_operation", "vmm") = Counted(o)
                     => u.out = Append(c.out, Rec("DEVICE_EXECUTE_COMMAND", x, o, 0, e.see))
    <3>1. DidEmit(c, u, "DEVICE_EXECUTE_COMMAND", e.see)
      BY <2>3, EmittedForVcpu
    <3> QED
      BY <3>1 DEF DidEmit, Known
  <2>5. Safe(b, u) /\ Kept(b, u, {"command_calls"}) /\ c.out = b.out
    BY <2>1, <2>4 DEF Safe, Kept, DidUpdate
  <2>6. ASSUME NEW x, NEW o, ~u.lost, Known(b), Here(b, "current_vmexit", "vmm") = Counted(x),
               Here(b, "active_operation", "vmm") = Counted(o)
        PROVE  Here(u, "command_calls", "vmm") = {o} /\ u.out = Append(b.out, True(e, x, o))
    <3>1. v = o
      BY <2>6, CountedGet DEF v
    <3>3. /\ Here(c, "command_calls", "vmm") = {o} /\ Here(c, "active_operation", "vmm") = Counted(o)
          /\ Here(c, "current_vmexit", "vmm") = Counted(x) /\ Known(c)
      BY <1>2, <2>1, <2>4, <2>6, <3>1 DEF Kept, DidUpdate, Safe, Known
    <3>4. u.out = Append(b.out, Rec("DEVICE_EXECUTE_COMMAND", x, o, 0, e.see))
      BY <2>4, <2>5, <2>6, <3>3
    <3> QED
      BY <1>2, <2>4, <3>3, <3>4 DEF Kept, True
  <2> QED
    BY <2>5, <2>6
<1> QED
  BY <1>3, <1>4

SawReturn(b, u, e) ==
  /\ Safe(b, u) /\ Kept(b, u, {"command_calls", "active_operation"})
  /\ \A x, o : /\ ~u.lost /\ Known(b)
               /\ Here(b, "command_calls", "vmm") = {o}
               /\ Here(b, "current_vmexit", "vmm") = Counted(x)
               /\ Here(b, "active_operation", "vmm") = Counted(o)
               => /\ Here(u, "command_calls", "vmm") = {}
                  /\ Here(u, "active_operation", "vmm") = {}
                  /\ u.out = Append(b.out, True(e, x, o))

\* It returns: told with the saved operation, and both entries are dropped.
LEMMA SeenReturn ==
  ASSUME NEW b, IsIo(b), NEW e, NEW u, u = Hook(b, e), e.hook = "DEVICE_EXECUTE_COMMAND_RETURN",
         e.call = 0, e.see = e.args
  PROVE  SawReturn(b, u, e)
<1> USE DEF SawReturn
<1> DEFINE v == b.command_calls["vmm"]
           r == Returned(snapshot_base(b, "vmm", "DEVICE_EXECUTE_COMMAND_RETURN"), v, e.see)
           c == lab_output(b, r)
           d == bpf_map_delete_elem(c, "command_calls", "vmm")
<1>1. \/ (~vcpu_from_map(b, "vmm") \/ ~Has(b, "command_calls", "vmm")) /\ u = b
      \/ u = bpf_map_delete_elem(d, "active_operation", "vmm")
  BY Programs DEF device_execute_command_return, is_vmm_comm, Returned
<1>2. "command_calls" \in IoMaps /\ "active_operation" \in IoMaps
  BY DEF IoMaps
<1>0. c = lab_output(b, r) /\ d = bpf_map_delete_elem(c, "command_calls", "vmm")
  OBVIOUS
<1> HIDE DEF v, r, c, d
<1>3. CASE (~vcpu_from_map(b, "vmm") \/ ~Has(b, "command_calls", "vmm")) /\ u = b
  BY <1>3, KnownIsVcpu, HereIsHas DEF Safe, Kept
<1>4. CASE u = bpf_map_delete_elem(d, "active_operation", "vmm")
  <2>1. DidOutput(b, c, r)
    BY <1>0, IoOutput
  <2>2. DidDelete(c, d, "command_calls", "vmm")
    <3>1. IsIo(c)
      BY <2>1 DEF DidOutput
    <3> QED
      BY <1>0, <1>2, <3>1, IoDelete
  <2>3. DidDelete(d, u, "active_operation", "vmm")
    <3>1. IsIo(d)
      BY <2>2 DEF DidDelete
    <3> QED
      BY <1>2, <1>4, <3>1, IoDelete
  <2>4. /\ Safe(b, u) /\ Kept(b, u, {"command_calls", "active_operation"})
        /\ Here(u, "command_calls", "vmm") = {} /\ Here(u, "active_operation", "vmm") = {}
        /\ ~u.lost => u.out = Append(b.out, r)
    BY <1>2, <2>1, <2>2, <2>3 DEF Safe, Kept, DidOutput, DidDelete
  <2>5. ASSUME NEW x, NEW o, Here(b, "command_calls", "vmm") = {o},
               Here(b, "current_vmexit", "vmm") = Counted(x), Here(b, "active_operation", "vmm") = Counted(o)
        PROVE  r = True(e, x, o)
    <3>1. v = o
      BY <2>5, HereIsGet DEF v
    <3>2. snapshot_base(b, "vmm", "DEVICE_EXECUTE_COMMAND_RETURN") =
            Rec("DEVICE_EXECUTE_COMMAND_RETURN", x, o, 0, <<>>)
      BY <2>5, Snapshot
    <3>3. r = Rec("DEVICE_EXECUTE_COMMAND_RETURN", x, o, 0, e.see)
      BY <3>1, <3>2, RecOp DEF r
    <3> QED
      BY <3>3 DEF True
  <2> QED
    BY <2>4, <2>5
<1> QED
  BY <1>1, <1>3, <1>4

SawDma(b, u, e) ==
  /\ Safe(b, u) /\ Kept(b, u, {"dma_calls"})
  /\ \A x, o : /\ ~u.lost /\ Known(b)
               /\ Here(b, "current_vmexit", "vmm") = Counted(x)
               /\ Here(b, "active_operation", "vmm") = Counted(o)
               => /\ Here(u, "dma_calls", "vmm") = {e.args}
                  /\ u.out = Append(b.out, True(e, x, o))

\* device_dma_transfer() is entered and returns; its arguments are saved in between.
LEMMA SeenDma ==
  ASSUME NEW b, IsIo(b), NEW e, NEW u, u = Hook(b, e), e.hook = "DEVICE_DMA_TRANSFER",
         e.call = 0, e.see = e.args
  PROVE  SawDma(b, u, e)
<1> USE DEF SawDma
<1> DEFINE c == lab_map_update(b, "dma_calls", "vmm", e.see)
<1>1. u = IF vcpu_from_map(b, "vmm") THEN emit_for_vcpu(c, "vmm", "DEVICE_DMA_TRANSFER", e.see) ELSE b
  BY Programs DEF device_dma_transfer_entry, is_vmm_comm
<1>2. /\ "dma_calls" \in IoMaps /\ "active_operation" \in IoMaps
      /\ "current_vcpu" \in IoMaps /\ "current_vmexit" \in IoMaps
  BY DEF IoMaps
<1>0. c = lab_map_update(b, "dma_calls", "vmm", e.see)
  OBVIOUS
<1> HIDE DEF c
<1>3. CASE ~vcpu_from_map(b, "vmm")
  BY <1>1, <1>3, KnownIsVcpu DEF Safe, Kept
<1>4. CASE vcpu_from_map(b, "vmm")
  <2>1. DidUpdate(b, c, "dma_calls", "vmm", e.see)
    BY <1>0, <1>2, IoUpdate
  <2>3. u = emit_for_vcpu(c, "vmm", "DEVICE_DMA_TRANSFER", e.see) /\ IsIo(c)
    BY <1>1, <1>4, <2>1 DEF DidUpdate
  <2>4. DidEmit(c, u, "DEVICE_DMA_TRANSFER", e.see)
    BY <2>3, EmittedForVcpu
  <2>5. Safe(b, u) /\ Kept(b, u, {"dma_calls"}) /\ c.out = b.out
    BY <2>1, <2>4 DEF Safe, Kept, DidUpdate, DidEmit
  <2>6. ASSUME NEW x, NEW o, ~u.lost, Known(b), Here(b, "current_vmexit", "vmm") = Counted(x),
               Here(b, "active_operation", "vmm") = Counted(o)
        PROVE  Here(u, "dma_calls", "vmm") = {e.args} /\ u.out = Append(b.out, True(e, x, o))
    <3>1. ~c.lost /\ Here(u, "dma_calls", "vmm") = Here(c, "dma_calls", "vmm")
      BY <1>2, <2>4, <2>6 DEF Safe, DidEmit, Kept
    <3>2. Here(c, "dma_calls", "vmm") = {e.args}
      BY <2>1, <3>1 DEF DidUpdate
    <3>3. /\ Here(c, "active_operation", "vmm") = Counted(o)
          /\ Here(c, "current_vmexit", "vmm") = Counted(x) /\ Known(c)
      BY <1>2, <2>1, <2>6 DEF Kept, DidUpdate, Known
    <3>4. u.out = Append(b.out, Rec("DEVICE_DMA_TRANSFER", x, o, 0, e.see))
      BY <2>4, <2>5, <2>6, <3>3 DEF DidEmit, Known
    <3> QED
      BY <3>1, <3>2, <3>4 DEF True
  <2> QED
    BY <2>5, <2>6
<1> QED
  BY <1>3, <1>4

SawDmaReturn(b, u, e) ==
  /\ Safe(b, u) /\ Kept(b, u, {"dma_calls"})
  /\ \A x, o : /\ ~u.lost /\ Known(b)
               /\ Here(b, "dma_calls", "vmm") = {e.args}
               /\ Here(b, "current_vmexit", "vmm") = Counted(x)
               /\ Here(b, "active_operation", "vmm") = Counted(o)
               => /\ Here(u, "dma_calls", "vmm") = {}
                  /\ u.out = Append(b.out, True(e, x, o))

LEMMA SeenDmaReturn ==
  ASSUME NEW b, IsIo(b), NEW e, NEW u, u = Hook(b, e), e.hook = "DEVICE_DMA_TRANSFER_RETURN", e.call = 0
  PROVE  SawDmaReturn(b, u, e)
<1> USE DEF SawDmaReturn
<1> DEFINE v == b.dma_calls["vmm"]
           c == emit_for_vcpu(b, "vmm", "DEVICE_DMA_TRANSFER_RETURN", v)
<1>1. \/ (~vcpu_from_map(b, "vmm") \/ ~Has(b, "dma_calls", "vmm")) /\ u = b
      \/ u = bpf_map_delete_elem(c, "dma_calls", "vmm")
  BY Programs DEF device_dma_transfer_return, is_vmm_comm
<1>2. "dma_calls" \in IoMaps
  BY DEF IoMaps
<1>0. c = emit_for_vcpu(b, "vmm", "DEVICE_DMA_TRANSFER_RETURN", v)
  OBVIOUS
<1> HIDE DEF v, c
<1>3. CASE (~vcpu_from_map(b, "vmm") \/ ~Has(b, "dma_calls", "vmm")) /\ u = b
  BY <1>3, KnownIsVcpu, HereIsHas DEF Safe, Kept
<1>4. CASE u = bpf_map_delete_elem(c, "dma_calls", "vmm")
  <2>1. DidEmit(b, c, "DEVICE_DMA_TRANSFER_RETURN", v)
    BY <1>0, EmittedForVcpu
  <2>2. DidDelete(c, u, "dma_calls", "vmm")
    <3>1. IsIo(c)
      BY <2>1 DEF DidEmit, Safe
    <3> QED
      BY <1>2, <1>4, <3>1, IoDelete
  <2>3. /\ Safe(b, u) /\ Kept(b, u, {"dma_calls"}) /\ Here(u, "dma_calls", "vmm") = {}
        /\ u.out = c.out /\ u.lost = c.lost
    BY <2>1, <2>2 DEF Safe, Kept, DidEmit, DidDelete
  <2>4. ASSUME NEW x, NEW o, ~u.lost, Known(b), Here(b, "dma_calls", "vmm") = {e.args},
               Here(b, "current_vmexit", "vmm") = Counted(x), Here(b, "active_operation", "vmm") = Counted(o)
        PROVE  u.out = Append(b.out, True(e, x, o))
    <3>1. v = e.args
      BY <2>4, HereIsGet DEF v
    <3>2. c.out = Append(b.out, Rec("DEVICE_DMA_TRANSFER_RETURN", x, o, 0, v))
      BY <2>1, <2>3, <2>4 DEF DidEmit, Known
    <3> QED
      BY <2>3, <3>1, <3>2 DEF True
  <2> QED
    BY <2>3, <2>4
<1> QED
  BY <1>1, <1>3, <1>4

-----------------------------------------------------------------------------
\* All maps of thread "vmm" but the vCPU: x exits, c calls, o commands, a the active one,
\* d the one saved by device_execute_command(), i and m the saved ioctl and DMA arguments.
View(b, x, c, o, a, d, i, m) ==
  /\ IsIo(b)
  /\ Here(b, "vmexit_counters", "vmm") = Counted(x) /\ Here(b, "current_vmexit", "vmm") = Counted(x)
  /\ Here(b, "ioctl_counters", "vmm") = Counted(c) /\ Here(b, "operation_counters", "vmm") = Counted(o)
  /\ Here(b, "active_operation", "vmm") = Counted(a) /\ Here(b, "command_calls", "vmm") = Counted(d)
  /\ Here(b, "ioctl_calls", "vmm") = i /\ Here(b, "dma_calls", "vmm") = m

StillKnown(b, u) == Known(b) => Known(u)
Tells(b, u, e, x, o) == u.out = Append(b.out, True(e, x, o))

LEMMA KeptMaps ==
  ASSUME NEW b, NEW u, NEW M, Kept(b, u, M)
  PROVE  /\ "vmexit_counters" \notin M => Here(u, "vmexit_counters", "vmm") = Here(b, "vmexit_counters", "vmm")
         /\ "current_vmexit" \notin M => Here(u, "current_vmexit", "vmm") = Here(b, "current_vmexit", "vmm")
         /\ "ioctl_counters" \notin M => Here(u, "ioctl_counters", "vmm") = Here(b, "ioctl_counters", "vmm")
         /\ "operation_counters" \notin M =>
              Here(u, "operation_counters", "vmm") = Here(b, "operation_counters", "vmm")
         /\ "active_operation" \notin M =>
              Here(u, "active_operation", "vmm") = Here(b, "active_operation", "vmm")
         /\ "command_calls" \notin M => Here(u, "command_calls", "vmm") = Here(b, "command_calls", "vmm")
         /\ "ioctl_calls" \notin M => Here(u, "ioctl_calls", "vmm") = Here(b, "ioctl_calls", "vmm")
         /\ "dma_calls" \notin M => Here(u, "dma_calls", "vmm") = Here(b, "dma_calls", "vmm")
         /\ "current_vcpu" \notin M => (Known(b) => Known(u))
BY DEF Kept, IoMaps, Known

\* The events the model fires.
Silent == {"KVM_USERSPACE_EXIT", "KVM_APIC", "KVM_ENTRY", "KVM_EXIT", "KVM_APIC_ACCEPT_IRQ",
           "KVM_INJ_VIRQ", "KVM_EOI"}
WithArgs == {"KVM_IOAPIC_SET_IRQ", "KVM_MSI_SET_IRQ", "DEVICE_MMIO_WRITE", "DEVICE_EXECUTE_COMMAND",
             "DEVICE_EXECUTE_COMMAND_RETURN", "DEVICE_DMA_TRANSFER"}
Proper(e) ==
  \/ e.hook \in Silent /\ e.call = 0 /\ e.see = <<>> /\ e.args = <<>>
  \/ e.hook \in WithArgs /\ e.call = 0 /\ e.see = e.args
  \/ e.hook = "SYS_ENTER_IOCTL" /\ e.see = e.args
  \/ e.hook = "SYS_EXIT_IOCTL"
  \/ e.hook = "DEVICE_DMA_TRANSFER_RETURN" /\ e.call = 0

LEMMA HookSafe ==
  ASSUME NEW b, IsIo(b), NEW e, Proper(e)
  PROVE  Safe(b, Hook(b, e))
<1> DEFINE u == Hook(b, e)
<1>0. u = Hook(b, e)
  OBVIOUS
<1> HIDE DEF u
<1>1. CASE e.hook \in {"KVM_USERSPACE_EXIT", "KVM_APIC"}
  <2>9. SawBoundary(b, u, e)
    BY <1>0, <1>1, SeenBoundary DEF Proper, WithArgs
  <2> QED
    BY <2>9, <1>0, <1>1 DEF SawBoundary
<1>2. CASE e.hook \in VcpuHooks
  <2>9. SawForVcpu(b, u, e)
    BY <1>0, <1>2, SeenForVcpu DEF Proper, WithArgs, VcpuHooks
  <2> QED
    BY <2>9, <1>0, <1>2 DEF SawForVcpu
<1>3. CASE e.hook = "KVM_ENTRY"
  <2>1. SawEntry(b, u, e)
    BY <1>0, <1>3, SeenEntry DEF Proper, WithArgs
  <2>2. Safe(b, u)
    BY <2>1 DEF SawEntry
  <2> QED
    BY <1>0, <2>2
<1>4. CASE e.hook = "KVM_EXIT"
  <2>9. SawExit(b, u, e)
    BY <1>0, <1>4, SeenExit DEF Proper, WithArgs
  <2> QED
    BY <2>9, <1>0, <1>4 DEF SawExit
<1>5. CASE e.hook = "SYS_ENTER_IOCTL"
  <2>9. SawIoctlEnter(b, u, e)
    BY <1>0, <1>5, SeenIoctlEnter DEF Proper, WithArgs, Silent
  <2> QED
    BY <2>9, <1>0, <1>5 DEF SawIoctlEnter
<1>6. CASE e.hook = "SYS_EXIT_IOCTL"
  <2>9. SawIoctlExit(b, u, e)
    BY <1>0, <1>6, SeenIoctlExit
  <2> QED
    BY <2>9, <1>0, <1>6 DEF SawIoctlExit
<1>7. CASE e.hook = "DEVICE_MMIO_WRITE"
  <2>1. e.call = 0 /\ e.see = e.args
    BY <1>7 DEF Proper, WithArgs, Silent
  <2> QED
    <3>9. SawCommand(b, u, e) \/ SawRegister(b, u, e)
      BY <1>0, <1>7, <2>1, SeenCommand, SeenRegister
    <3> QED
      BY <3>9, <1>0, <1>7, <2>1 DEF SawCommand, SawRegister
<1>8. CASE e.hook = "DEVICE_EXECUTE_COMMAND"
  <2>9. SawExecute(b, u, e)
    BY <1>0, <1>8, SeenExecute DEF Proper, Silent
  <2> QED
    BY <2>9, <1>0, <1>8 DEF SawExecute
<1>9. CASE e.hook = "DEVICE_EXECUTE_COMMAND_RETURN"
  <2>9. SawReturn(b, u, e)
    BY <1>0, <1>9, SeenReturn DEF Proper, Silent
  <2> QED
    BY <2>9, <1>0, <1>9 DEF SawReturn
<1>10. CASE e.hook = "DEVICE_DMA_TRANSFER"
  <2>9. SawDma(b, u, e)
    BY <1>0, <1>10, SeenDma DEF Proper, Silent
  <2> QED
    BY <2>9, <1>0, <1>10 DEF SawDma
<1>11. CASE e.hook = "DEVICE_DMA_TRANSFER_RETURN"
  <2>9. SawDmaReturn(b, u, e)
    BY <1>0, <1>11, SeenDmaReturn DEF Proper, WithArgs, Silent
  <2> QED
    BY <2>9, <1>0, <1>11 DEF SawDmaReturn
<1>12. \/ e.hook \in {"KVM_USERSPACE_EXIT", "KVM_APIC"} \/ e.hook \in VcpuHooks
       \/ e.hook = "KVM_ENTRY" \/ e.hook = "KVM_EXIT" \/ e.hook = "SYS_ENTER_IOCTL"
       \/ e.hook = "SYS_EXIT_IOCTL" \/ e.hook = "DEVICE_MMIO_WRITE"
       \/ e.hook = "DEVICE_EXECUTE_COMMAND" \/ e.hook = "DEVICE_EXECUTE_COMMAND_RETURN"
       \/ e.hook = "DEVICE_DMA_TRANSFER" \/ e.hook = "DEVICE_DMA_TRANSFER_RETURN"
  BY DEF Proper, Silent, WithArgs, VcpuHooks
<1> QED
  BY <1>1, <1>2, <1>3, <1>4, <1>5, <1>6, <1>7, <1>8, <1>9, <1>10, <1>11, <1>12

\* What each event does to the view.
LEMMA ViewTold ==
  ASSUME NEW b, NEW x, NEW c, NEW o, NEW a, NEW d, NEW i, NEW m, View(b, x, c, o, a, d, i, m),
         NEW e, Proper(e), NEW u, u = Hook(b, e), ~u.lost,
         \/ e.hook \in {"KVM_USERSPACE_EXIT", "KVM_APIC"}
         \/ Known(b) /\ e.hook \in VcpuHooks
         \/ Known(b) /\ e.hook = "DEVICE_MMIO_WRITE" /\ e.args[1] # "REG_COMMAND"
  PROVE  View(u, x, c, o, a, d, i, m) /\ StillKnown(b, u) /\ Tells(b, u, e, x, a)
<1>0. /\ IsIo(b) /\ (Known(b) => Here(b, "current_vcpu", "vmm") # {})
      /\ Here(b, "current_vmexit", "vmm") = Counted(x) /\ Here(b, "active_operation", "vmm") = Counted(a)
  BY DEF View, Known
<1>1. IsIo(u) /\ Kept(b, u, {}) /\ u.out = Append(b.out, True(e, x, a))
  <2>1. CASE e.hook \in {"KVM_USERSPACE_EXIT", "KVM_APIC"}
    <3>1. e.call = 0 /\ e.args = <<>>
      BY <2>1 DEF Proper, WithArgs
    <3> QED
      <4>9. SawBoundary(b, u, e)
        BY <1>0, <2>1, <3>1, SeenBoundary
      <4> QED
        BY <4>9, <1>0, <2>1, <3>1 DEF Safe, SawBoundary
  <2>2. CASE Known(b) /\ e.hook \in VcpuHooks
    <3>1. /\ e.call = 0 /\ e.see = e.args
          /\ e.hook \in {"KVM_APIC_ACCEPT_IRQ", "KVM_INJ_VIRQ", "KVM_EOI"} => e.args = <<>>
      BY <2>2 DEF Proper, WithArgs, Silent, VcpuHooks
    <3> QED
      <4>9. SawForVcpu(b, u, e)
        BY <1>0, <2>2, <3>1, SeenForVcpu
      <4> QED
        BY <4>9, <1>0, <2>2, <3>1 DEF Safe, SawForVcpu
  <2>3. CASE Known(b) /\ e.hook = "DEVICE_MMIO_WRITE" /\ e.args[1] # "REG_COMMAND"
    <3>1. e.call = 0 /\ e.see = e.args
      BY <2>3 DEF Proper, WithArgs, Silent
    <3> QED
      <4>9. SawRegister(b, u, e)
        BY <1>0, <2>3, <3>1, SeenRegister
      <4> QED
        BY <4>9, <1>0, <2>3, <3>1 DEF Safe, SawRegister
  <2> QED
    BY <2>1, <2>2, <2>3
<1> QED
  BY <1>1, KeptMaps DEF View, Tells, StillKnown

LEMMA ViewEntry ==
  ASSUME NEW b, NEW x, NEW c, NEW o, NEW a, NEW d, NEW i, NEW m, View(b, x, c, o, a, d, i, m),
         NEW e, Proper(e), NEW u, u = Hook(b, e), ~u.lost, e.hook = "KVM_ENTRY"
  PROVE  View(u, x, c, o, a, d, i, m) /\ Known(u) /\ Tells(b, u, e, x, a)
<1>0. /\ IsIo(b) /\ e.call = 0 /\ e.args = <<>>
      /\ Here(b, "current_vmexit", "vmm") = Counted(x) /\ Here(b, "active_operation", "vmm") = Counted(a)
  BY DEF View, Proper, WithArgs
<1>1. /\ IsIo(u) /\ Kept(b, u, {"current_vcpu"}) /\ Known(u)
      /\ u.out = Append(b.out, True(e, x, a))
  <2>9. SawEntry(b, u, e)
    BY <1>0, SeenEntry
  <2>1. Kept(b, u, {"current_vcpu"}) /\ Safe(b, u)
    BY <2>9 DEF SawEntry
  <2>2. Here(u, "current_vcpu", "vmm") # {}
    BY <2>9 DEF SawEntry
  <2>3. u.out = Append(b.out, True(e, x, a))
    BY <1>0, <2>9 DEF SawEntry
  <2> QED
    BY <2>1, <2>2, <2>3 DEF Safe, Known
<1> QED
  BY <1>1, KeptMaps DEF View, Tells, StillKnown

LEMMA ViewExit ==
  ASSUME NEW b, NEW x \in Nat, NEW c, NEW o, NEW a, NEW d, NEW i, NEW m,
         View(b, x, c, o, a, d, i, m), NEW e, Proper(e), NEW u, u = Hook(b, e), ~u.lost, e.hook = "KVM_EXIT"
  PROVE  View(u, x + 1, c, o, a, d, i, m) /\ StillKnown(b, u) /\ Tells(b, u, e, x + 1, a)
<1>0. /\ IsIo(b) /\ e.call = 0 /\ e.args = <<>>
      /\ Here(b, "vmexit_counters", "vmm") = Counted(x) /\ Here(b, "active_operation", "vmm") = Counted(a)
  BY DEF View, Proper, WithArgs
<1>1. /\ IsIo(u) /\ Kept(b, u, {"vmexit_counters", "current_vmexit"})
      /\ Here(u, "vmexit_counters", "vmm") = Counted(x + 1) /\ Here(u, "current_vmexit", "vmm") = Counted(x + 1)
      /\ u.out = Append(b.out, True(e, x + 1, a))
  <2>9. SawExit(b, u, e)
    BY <1>0, SeenExit
  <2> QED
    BY <2>9, <1>0 DEF Safe, SawExit
<1> QED
  BY <1>1, KeptMaps DEF View, Tells, StillKnown

LEMMA ViewCall ==
  ASSUME NEW b, NEW x, NEW c \in Nat, NEW o, NEW a, NEW d, NEW i, NEW m,
         View(b, x, c, o, a, d, i, m), NEW e, Proper(e), NEW u, u = Hook(b, e), ~u.lost,
         e.hook = "SYS_ENTER_IOCTL", e.call = c + 1
  PROVE  View(u, x, c + 1, o, a, d, {[call |-> e.call, args |-> e.args]}, m) /\ StillKnown(b, u) /\ Tells(b, u, e, x, a)
<1>0. /\ IsIo(b) /\ e.see = e.args /\ Here(b, "ioctl_counters", "vmm") = Counted(c)
      /\ Here(b, "current_vmexit", "vmm") = Counted(x) /\ Here(b, "active_operation", "vmm") = Counted(a)
  BY DEF View, Proper, WithArgs, Silent
<1>1. /\ IsIo(u) /\ Kept(b, u, {"ioctl_counters", "ioctl_calls"})
      /\ Here(u, "ioctl_counters", "vmm") = Counted(c + 1)
      /\ Here(u, "ioctl_calls", "vmm") = {[call |-> e.call, args |-> e.args]}
      /\ u.out = Append(b.out, True(e, x, a))
  <2>9. SawIoctlEnter(b, u, e)
    BY <1>0, SeenIoctlEnter
  <2> QED
    BY <2>9, <1>0 DEF Safe, SawIoctlEnter
<1> DEFINE v == {[call |-> e.call, args |-> e.args]}
<1> HIDE DEF v
<1>2. Here(u, "ioctl_calls", "vmm") = v
  BY <1>1 DEF v
<1>3. View(u, x, c + 1, o, a, d, v, m) /\ StillKnown(b, u)
  BY <1>1, <1>2, KeptMaps DEF View, StillKnown
<1> QED
  BY <1>1, <1>3 DEF Tells, v

LEMMA ViewReturn ==
  ASSUME NEW b, NEW x, NEW c, NEW o, NEW a, NEW d, NEW i, NEW m,
         View(b, x, c, o, a, d, i, m), NEW e, Proper(e), NEW u, u = Hook(b, e), ~u.lost,
         e.hook = "SYS_EXIT_IOCTL", i = {[call |-> e.call, args |-> e.args]}
  PROVE  View(u, x, c, o, a, d, {}, m) /\ StillKnown(b, u) /\ Tells(b, u, e, x, a)
<1>0. /\ IsIo(b) /\ Here(b, "ioctl_calls", "vmm") = {[call |-> e.call, args |-> e.args]}
      /\ Here(b, "current_vmexit", "vmm") = Counted(x) /\ Here(b, "active_operation", "vmm") = Counted(a)
  BY DEF View
<1>1. /\ IsIo(u) /\ Kept(b, u, {"ioctl_calls"}) /\ Here(u, "ioctl_calls", "vmm") = {}
      /\ u.out = Append(b.out, True(e, x, a))
  <2>9. SawIoctlExit(b, u, e)
    BY <1>0, SeenIoctlExit
  <2> QED
    BY <2>9, <1>0 DEF Safe, SawIoctlExit
<1> QED
  BY <1>1, KeptMaps DEF View, Tells, StillKnown

LEMMA ViewCommand ==
  ASSUME NEW b, NEW x, NEW c, NEW o \in Nat, NEW a, NEW d, NEW i, NEW m,
         View(b, x, c, o, a, d, i, m), NEW e, Proper(e), NEW u, u = Hook(b, e), ~u.lost, Known(b),
         e.hook = "DEVICE_MMIO_WRITE", e.args[1] = "REG_COMMAND"
  PROVE  View(u, x, c, o + 1, o + 1, d, i, m) /\ StillKnown(b, u) /\ Tells(b, u, e, x, o + 1)
<1>0. /\ IsIo(b) /\ Known(b) /\ e.call = 0 /\ e.see = e.args
      /\ Here(b, "current_vmexit", "vmm") = Counted(x) /\ Here(b, "operation_counters", "vmm") = Counted(o)
  BY DEF View, Proper, WithArgs, Silent
<1>1. /\ IsIo(u) /\ Kept(b, u, {"operation_counters", "active_operation"})
      /\ Here(u, "operation_counters", "vmm") = Counted(o + 1)
      /\ Here(u, "active_operation", "vmm") = Counted(o + 1)
      /\ u.out = Append(b.out, True(e, x, o + 1))
  <2>9. SawCommand(b, u, e)
    BY <1>0, SeenCommand
  <2> QED
    BY <2>9, <1>0 DEF Safe, SawCommand
<1> QED
  BY <1>1, KeptMaps DEF View, Tells, StillKnown

LEMMA ViewExecute ==
  ASSUME NEW b, NEW x, NEW c, NEW o, NEW a, NEW d, NEW i, NEW m,
         View(b, x, c, o, a, d, i, m), NEW e, Proper(e), NEW u, u = Hook(b, e), ~u.lost, Known(b), a # 0,
         e.hook = "DEVICE_EXECUTE_COMMAND"
  PROVE  View(u, x, c, o, a, a, i, m) /\ StillKnown(b, u) /\ Tells(b, u, e, x, a)
<1>0. /\ IsIo(b) /\ Known(b) /\ e.call = 0 /\ e.see = e.args
      /\ Here(b, "current_vmexit", "vmm") = Counted(x) /\ Here(b, "active_operation", "vmm") = Counted(a)
  BY DEF View, Proper, WithArgs, Silent
<1>1. /\ IsIo(u) /\ Kept(b, u, {"command_calls"}) /\ Here(u, "command_calls", "vmm") = Counted(a)
      /\ u.out = Append(b.out, True(e, x, a))
  <2>9. SawExecute(b, u, e)
    BY <1>0, SeenExecute
  <2> QED
    BY <2>9, <1>0 DEF Safe, Counted, SawExecute
<1> QED
  BY <1>1, KeptMaps DEF View, Tells, StillKnown

LEMMA ViewCommandReturn ==
  ASSUME NEW b, NEW x, NEW c, NEW o, NEW a, NEW i, NEW m,
         View(b, x, c, o, a, a, i, m), NEW e, Proper(e), NEW u, u = Hook(b, e), ~u.lost, Known(b), a # 0,
         e.hook = "DEVICE_EXECUTE_COMMAND_RETURN"
  PROVE  View(u, x, c, o, 0, 0, i, m) /\ StillKnown(b, u) /\ Tells(b, u, e, x, a)
<1>0. /\ IsIo(b) /\ Known(b) /\ e.call = 0 /\ e.see = e.args /\ Here(b, "command_calls", "vmm") = {a}
      /\ Here(b, "current_vmexit", "vmm") = Counted(x) /\ Here(b, "active_operation", "vmm") = Counted(a)
  BY DEF View, Proper, WithArgs, Silent, Counted
<1>1. /\ IsIo(u) /\ Kept(b, u, {"command_calls", "active_operation"})
      /\ Here(u, "command_calls", "vmm") = Counted(0) /\ Here(u, "active_operation", "vmm") = Counted(0)
      /\ u.out = Append(b.out, True(e, x, a))
  <2>9. SawReturn(b, u, e)
    BY <1>0, SeenReturn
  <2> QED
    BY <2>9, <1>0 DEF Safe, Counted, SawReturn
<1> QED
  BY <1>1, KeptMaps DEF View, Tells, StillKnown

LEMMA ViewDma ==
  ASSUME NEW b, NEW x, NEW c, NEW o, NEW a, NEW d, NEW i, NEW m,
         View(b, x, c, o, a, d, i, m), NEW e, Proper(e), NEW u, u = Hook(b, e), ~u.lost, Known(b)
  PROVE  /\ e.hook = "DEVICE_DMA_TRANSFER" =>
              View(u, x, c, o, a, d, i, {e.args}) /\ StillKnown(b, u) /\ Tells(b, u, e, x, a)
         /\ e.hook = "DEVICE_DMA_TRANSFER_RETURN" /\ m = {e.args} =>
              View(u, x, c, o, a, d, i, {}) /\ StillKnown(b, u) /\ Tells(b, u, e, x, a)
<1>0. /\ IsIo(b) /\ Known(b)
      /\ Here(b, "current_vmexit", "vmm") = Counted(x) /\ Here(b, "active_operation", "vmm") = Counted(a)
  BY DEF View
<1>1. CASE e.hook = "DEVICE_DMA_TRANSFER"
  <2>1. e.call = 0 /\ e.see = e.args
    BY <1>1 DEF Proper, WithArgs, Silent
  <2>2. /\ IsIo(u) /\ Kept(b, u, {"dma_calls"}) /\ Here(u, "dma_calls", "vmm") = {e.args}
        /\ u.out = Append(b.out, True(e, x, a))
    <3>9. SawDma(b, u, e)
      BY <1>0, <1>1, <2>1, SeenDma
    <3> QED
      BY <3>9, <1>0, <1>1, <2>1 DEF Safe, SawDma
  <2> QED
    BY <1>1, <2>2, KeptMaps DEF View, Tells, StillKnown
<1>2. CASE e.hook = "DEVICE_DMA_TRANSFER_RETURN" /\ m = {e.args}
  <2>1. e.call = 0 /\ Here(b, "dma_calls", "vmm") = {e.args}
    BY <1>2 DEF Proper, WithArgs, Silent, View
  <2>2. /\ IsIo(u) /\ Kept(b, u, {"dma_calls"}) /\ Here(u, "dma_calls", "vmm") = {}
        /\ u.out = Append(b.out, True(e, x, a))
    <3>9. SawDmaReturn(b, u, e)
      BY <1>0, <1>2, <2>1, SeenDmaReturn
    <3> QED
      BY <3>9, <1>0, <1>2, <2>1 DEF Safe, SawDmaReturn
  <2> QED
    BY <1>2, <2>2, KeptMaps DEF View, Tells, StillKnown
<1> QED
  BY <1>1, <1>2

-----------------------------------------------------------------------------
\* RunHooks() runs the hooks one after the other: s holds the states between them.
InOrder(s, b, es, L) == s[0] = b /\ \A n \in 1 .. L : s[n] = Hook(s[n - 1], es[n])

LEMMA HooksInOrder ==
  ASSUME NEW b, NEW es, NEW L \in 0 .. 5, Len(es) = L
  PROVE  \E s : InOrder(s, b, es, L) /\ RunHooks(Hook, b, es) = s[L]
<1> DEFINE C(y, e) == CHOOSE x \in {Hook(p, e) : p \in {y}} : TRUE
           F(f) == [n \in 0 .. Len(es) |-> IF n = 0 THEN b ELSE C(f[n - 1], es[n])]
           after == CHOOSE f : f = F(f)
           x1 == Hook(b, es[1])
           x2 == Hook(x1, es[2])
           x3 == Hook(x2, es[3])
           x4 == Hook(x3, es[4])
           x5 == Hook(x4, es[5])
           w == [n \in 0 .. L |-> IF n = 0 THEN b ELSE IF n = 1 THEN x1 ELSE IF n = 2 THEN x2
                                  ELSE IF n = 3 THEN x3 ELSE IF n = 4 THEN x4 ELSE x5]
<1>1. \A y, e : C(y, e) = Hook(y, e)
  OBVIOUS
<1>2. RunHooks(Hook, b, es) = after[L]
  BY DEF RunHooks
<1>3. x1 = Hook(b, es[1]) /\ x2 = Hook(x1, es[2]) /\ x3 = Hook(x2, es[3]) /\ x4 = Hook(x3, es[4])
      /\ x5 = Hook(x4, es[5])
  OBVIOUS
<1> HIDE DEF C, x1, x2, x3, x4, x5
<1>4. \A n \in 1 .. L : w[n] = C(w[n - 1], es[n])
  BY <1>1, <1>3
<1>5. w[0] = b /\ w = [n \in 0 .. L |-> w[n]]
  OBVIOUS
<1> HIDE DEF w
<1>51. \A n \in 0 .. L : w[n] = (IF n = 0 THEN b ELSE C(w[n - 1], es[n]))
  BY <1>4, <1>5
<1>52. F(w) = [n \in 0 .. L |-> IF n = 0 THEN b ELSE C(w[n - 1], es[n])]
  OBVIOUS
<1>53. [n \in 0 .. L |-> w[n]] = [n \in 0 .. L |-> IF n = 0 THEN b ELSE C(w[n - 1], es[n])]
  BY <1>51
<1>6. w = F(w)
  BY <1>5, <1>52, <1>53
<1>7. after = F(after)
  BY <1>6
<1> HIDE DEF after
<1>8. InOrder(after, b, es, L)
  BY <1>1, <1>7 DEF InOrder
<1> QED
  BY <1>2, <1>8

\* A step that fires es while command op runs: the states between its hooks.
Watch(s, es, L, op) ==
  /\ InOrder(s, [bpf EXCEPT !.out = <<>>], es, L) /\ bpf' = s[L]
  /\ \A n \in 0 .. L : IsIo(s[n])
  /\ ~bpf'.lost => \A n \in 0 .. L : ~s[n].lost
  /\ ~bpf'.lost => ~bpf.lost
  /\ (\A n \in 1 .. L : Tells(s[n - 1], s[n], es[n], count'.exits, op)) => bpf'.out = happened'

LEMMA Watched ==
  ASSUME IsIo(bpf), NEW es, NEW L \in 0 .. 5, Len(es) = L, DOMAIN es = 1 .. L, NEW op, Fire(op, es),
         \A n \in 1 .. L : Proper(es[n])
  PROVE  \E s : Watch(s, es, L, op)
<1> DEFINE b == [bpf EXCEPT !.out = <<>>]
<1>1. bpf' = RunHooks(Hook, b, es)
  BY DEF Fire
<1>2. happened' = [n \in 1 .. L |-> True(es[n], count'.exits, op)]
  BY DEF Fire, True, Rec
<1>3. IsIo(b) /\ b.out = <<>> /\ b.lost = bpf.lost
  BY DEF IsIo
<1> HIDE DEF b
<1>4. PICK s : InOrder(s, b, es, L) /\ RunHooks(Hook, b, es) = s[L]
  BY HooksInOrder
<1>5. s[0] = b /\ bpf' = s[L]
  BY <1>1, <1>4 DEF InOrder
<1>6. ASSUME NEW n \in 0 .. 4, n + 1 <= L, IsIo(s[n])
      PROVE  IsIo(s[n + 1]) /\ (~s[n + 1].lost => ~s[n].lost)
  <2>1. s[n + 1] = Hook(s[n], es[n + 1]) /\ Proper(es[n + 1])
    <3>1. n + 1 \in 1 .. L /\ (n + 1) - 1 = n
      BY <1>6
    <3> QED
      BY <1>4, <3>1 DEF InOrder
  <2> QED
    BY <1>6, <2>1, HookSafe DEF Safe
<1>7. IsIo(s[0]) /\ s[0].lost = bpf.lost
  BY <1>3, <1>5
<1>8. /\ L >= 1 => IsIo(s[1]) /\ (~s[1].lost => ~s[0].lost)
      /\ L >= 2 => IsIo(s[2]) /\ (~s[2].lost => ~s[1].lost)
      /\ L >= 3 => IsIo(s[3]) /\ (~s[3].lost => ~s[2].lost)
  BY <1>6, <1>7
<1>9. /\ L >= 4 => IsIo(s[4]) /\ (~s[4].lost => ~s[3].lost)
      /\ L >= 5 => IsIo(s[5]) /\ (~s[5].lost => ~s[4].lost)
  BY <1>6, <1>8
<1>10. \A n \in 0 .. L : IsIo(s[n])
  BY <1>7, <1>8, <1>9
<1>11. ~s[L].lost => \A n \in 0 .. L : ~s[n].lost
  BY <1>7, <1>8, <1>9
<1>12. ASSUME \A n \in 1 .. L : Tells(s[n - 1], s[n], es[n], count'.exits, op)
       PROVE  bpf'.out = happened'
  <2>1. \A n \in 1 .. L : s[n].out = Append(s[n - 1].out, happened'[n])
    BY <1>2, <1>12 DEF Tells
  <2>2. s[0].out = <<>> /\ L \in 0 .. 7
    BY <1>3, <1>5
  <2>3. EachTold(s, happened', L)
    BY <2>1, <2>2 DEF EachTold
  <2>4. s[L].out = FirstOf(happened', L)
    BY <2>2, <2>3, AllTold
  <2> QED
    BY <1>2, <1>5, <2>4 DEF FirstOf
<1>13. ~bpf'.lost => ~bpf.lost
  BY <1>5, <1>7, <1>11
<1> QED
  BY <1>4, <1>5, <1>10, <1>11, <1>12, <1>13 DEF Watch, b

\* The VMM's thread is known to the programs.
InVcpu == Executing \/ vmm.pc \in {"guest", "exit"}
CallOf(pc, n) == IF pc = "guest" THEN Calling(n, "KVM_RUN") ELSE {}

\* The view before the first hook, the hooks, and the view after the last.
Seeing(b) ==
  /\ View(b, count.exits, count.calls, count.ops, Operation, Operation, CallOf(vmm.pc, count.calls), {})
  /\ InVcpu => Known(b)

Each(s, es, L) == \A n \in 1 .. L : s[n] = Hook(s[n - 1], es[n]) /\ ~s[n].lost

Ends(b) == vmm'.pc # "failed" => Seeing(b)'

TellsAll(s, es, L, op) == \A n \in 1 .. L : Tells(s[n - 1], s[n], es[n], count'.exits, op)

Follows(s, es, L, op) ==
  /\ ~bpf'.lost => Seeing(s[0]) /\ Each(s, es, L)
  /\ (~bpf'.lost => TellsAll(s, es, L, op) /\ Ends(s[L])) => TraceInv'

LEMMA StepIsFollowed ==
  ASSUME MapsInv, vmm.pc # "failed", NEW op, NEW es, NEW L \in 0 .. 5, Len(es) = L, DOMAIN es = 1 .. L,
         Fire(op, es), \A n \in 1 .. L : Proper(es[n])
  PROVE  \E s : Follows(s, es, L, op)
<1>1. PICK s : Watch(s, es, L, op)
  BY Watched DEF MapsInv
<1>2. ASSUME ~bpf'.lost PROVE Seeing(s[0]) /\ Each(s, es, L)
  <2>1. ~bpf.lost /\ Each(s, es, L)
    BY <1>1, <1>2 DEF Watch, InOrder, Each
  <2> DEFINE b == s[0]
  <2>2. b = [bpf EXCEPT !.out = <<>>] /\ IsIo(b)
    BY <1>1 DEF Watch, InOrder
  <2> HIDE DEF b
  <2>3. \A m \in IoMaps : b[m] = bpf[m]
    BY <2>2 DEF MapsInv, IsIo, IoMaps
  <2>4. \A m \in IoMaps : Here(b, m, "vmm") = Here(bpf, m, "vmm")
    BY <2>3 DEF Here
  <2>5. Seeing(b)
    BY <2>1, <2>2, <2>4 DEF MapsInv, Agree, View, IoMaps, Known, Seeing, InVcpu, CallOf
  <2> QED
    BY <2>1, <2>5 DEF b
<1>3. ASSUME ~bpf'.lost => TellsAll(s, es, L, op) /\ Ends(s[L]) PROVE TraceInv'
  <2>1. bpf' = s[L] /\ IsIo(bpf')
    BY <1>1 DEF Watch
  <2>2. TraceExact'
    BY <1>1, <1>3 DEF Watch, TraceExact, TellsAll
  <2>3. ~bpf'.lost /\ vmm'.pc # "failed" => Seeing(bpf)'
    BY <1>3, <2>1 DEF Ends
  <2>4. MapsInv'
    BY <2>1, <2>3 DEF MapsInv, View, Agree, Known, Seeing, InVcpu, CallOf
  <2> QED
    BY <2>2, <2>4 DEF TraceInv
<1> QED
  BY <1>1, <1>2, <1>3 DEF Follows

-----------------------------------------------------------------------------
\* A step between the hooks.
LEMMA UnseenStep ==
  ASSUME MapsInv, vmm.pc # "failed", NEW op, NEW es, es = <<>>, Fire(op, es), count' = count,
         vmm'.pc # "failed" => /\ Operation' = Operation /\ (InVcpu' => InVcpu)
                               /\ vmm'.pc = "guest" <=> vmm.pc = "guest"
  PROVE  TraceInv'
<1>0. Len(es) = 0 /\ DOMAIN es = 1 .. 0 /\ 0 \in 0 .. 5 /\ \A n \in 1 .. 0 : Proper(es[n])
  OBVIOUS
<1>1. PICK s : Follows(s, es, 0, op)
  BY <1>0, StepIsFollowed
<1>2. ASSUME ~bpf'.lost PROVE Ends(s[0])
  <2>1. Seeing(s[0])
    BY <1>1, <1>2 DEF Follows
  <2> QED
    BY <2>1 DEF Seeing, Ends, CallOf
<1>3. TellsAll(s, es, 0, op)
  BY DEF TellsAll
<1> QED
  BY <1>1, <1>2, <1>3 DEF Follows

\* A step that one hook sees, and that does not change the maps.
LEMMA ToldStep ==
  ASSUME MapsInv, vmm.pc # "failed", NEW e, Proper(e), NEW es, es = <<e>>, Fire(Operation, es), count' = count,
         InVcpu, Operation' = Operation, vmm'.pc = "guest" <=> vmm.pc = "guest",
         e.hook \in VcpuHooks \/ (e.hook = "DEVICE_MMIO_WRITE" /\ e.args[1] # "REG_COMMAND")
  PROVE  TraceInv'
<1>0. Len(es) = 1 /\ DOMAIN es = 1 .. 1 /\ 1 \in 0 .. 5 /\ es[1] = e /\ \A n \in 1 .. 1 : Proper(es[n])
  OBVIOUS
<1>1. PICK s : Follows(s, es, 1, Operation)
  BY <1>0, StepIsFollowed
<1>2. ASSUME ~bpf'.lost PROVE Ends(s[1]) /\ TellsAll(s, es, 1, Operation)
  <2>0. Seeing(s[0]) /\ Each(s, es, 1)
    BY <1>1, <1>2 DEF Follows
  <2>1. /\ View(s[0], count.exits, count.calls, count.ops, Operation, Operation, CallOf(vmm.pc, count.calls), {})
        /\ Known(s[0]) /\ s[1] = Hook(s[0], e) /\ ~s[1].lost
    BY <1>0, <2>0 DEF Seeing, Each
  <2>2. /\ View(s[1], count.exits, count.calls, count.ops, Operation, Operation, CallOf(vmm.pc, count.calls), {})
        /\ StillKnown(s[0], s[1]) /\ Tells(s[0], s[1], e, count.exits, Operation)
    BY <2>1, ViewTold
  <2> QED
    BY <1>0, <2>1, <2>2 DEF Ends, Seeing, CallOf, TellsAll, StillKnown
<1> QED
  BY <1>1, <1>2 DEF Follows

LEMMA PlainIs ==
  ASSUME NEW h \in Silent
  PROVE  Proper(Plain(h)) /\ Plain(h).hook = h
BY EvFields DEF Plain, Proper

\* main() before its loop, the reads of STATUS, the port writes, and what the guest does unseen.
LEMMA UnseenSteps ==
  ASSUME ToyInv, TraceInv,
         \/ \E ok \in BOOLEAN : SetUp(ok) /\ ~IsIoctl(Calls[vmm.i])
         \/ device_mmio_read \/ PortWrite \/ StiCli \/ WaitEnds \/ Verify
         \/ (Inject \/ IsrEoi) /\ apicv
  PROVE  TraceInv'
<1>0. MapsInv /\ ToyTypes
  BY DEF TraceInv, ToyInv
<1>1. CASE \E ok \in BOOLEAN : SetUp(ok) /\ ~IsIoctl(Calls[vmm.i])
  <2>1. PICK ok \in BOOLEAN : SetUp(ok) /\ ~IsIoctl(Calls[vmm.i])
    BY <1>1
  <2>2. vmm.pc = "setup" /\ Fire(0, <<>>) /\ vmm'.pc \in {"failed", "loop", "setup"}
    BY <2>1, <1>0 DEF SetUp, ToyTypes
  <2>3. count' = count
    BY <2>1, <1>0 DEF SetUp, ToyTypes
  <2> QED
    BY <1>0, <2>2, <2>3, UnseenStep DEF Operation, Executing, InVcpu
<1>2. CASE device_mmio_read \/ PortWrite
  <2>1. vmm.pc = "exit" /\ Fire(0, <<>>) /\ vmm'.pc \in {"loop", "done"} /\ count' = count
    BY <1>0, <1>2 DEF device_mmio_read, PortWrite, ToyTypes
  <2> QED
    BY <1>0, <2>1, UnseenStep DEF Operation, Executing, InVcpu
<1>3. CASE StiCli \/ WaitEnds \/ Verify \/ ((Inject \/ IsrEoi) /\ apicv)
  <2>1. vmm.pc = "guest" /\ Fire(0, <<>>) /\ vmm' = vmm /\ count' = count
    BY <1>3 DEF StiCli, WaitEnds, Verify, Inject, IsrEoi, NoExit, At, InIsr
  <2> QED
    BY <1>0, <2>1, UnseenStep DEF Operation, Executing, InVcpu
<1> QED
  BY <1>1, <1>2, <1>3

\* A register that is not COMMAND, and an interrupt injected with an exit.
LEMMA ToldSteps ==
  ASSUME ToyInv, TraceInv, RegisterWrite \/ (Inject /\ ~apicv)
  PROVE  TraceInv'
<1>0. MapsInv /\ ToyTypes
  BY DEF TraceInv, ToyInv
<1>1. CASE RegisterWrite
  <2> DEFINE a == <<run[3], run[4]>>
             e == Ev("DEVICE_MMIO_WRITE", a, 0, a)
  <2>1. e.hook = "DEVICE_MMIO_WRITE" /\ e.see = a /\ e.call = 0 /\ e.args = a /\ a[1] = run[3]
    BY EvFields
  <2>2. vmm.pc = "exit" /\ Fire(0, <<e>>) /\ vmm'.pc = "loop" /\ count' = count /\ run[3] # "REG_COMMAND"
    BY <1>0, <1>1 DEF RegisterWrite, ToyTypes
  <2> HIDE DEF a, e
  <2>3. Proper(e) /\ e.args[1] # "REG_COMMAND"
    BY <2>1, <2>2 DEF Proper, WithArgs
  <2> QED
    BY <1>0, <2>1, <2>2, <2>3, ToldStep DEF Operation, Executing, InVcpu
<1>2. CASE Inject /\ ~apicv
  <2> DEFINE e == Plain("KVM_INJ_VIRQ")
  <2>1. vmm.pc = "guest" /\ Fire(0, <<e>>) /\ vmm' = vmm /\ count' = count
    BY <1>2 DEF Inject
  <2>2. Proper(e) /\ e.hook = "KVM_INJ_VIRQ"
    BY PlainIs DEF Silent
  <2> HIDE DEF e
  <2> QED
    BY <1>0, <2>1, <2>2, ToldStep DEF Operation, Executing, InVcpu, VcpuHooks
<1> QED
  BY <1>1, <1>2

\* A whole ioctl of main(), outside KVM_RUN, with at most two hooks of KVM in it.
HooksInside(inside) ==
  /\ \E S : inside \in Seq(S)
  /\ Len(inside) \in 0 .. 2 /\ (Len(inside) # 0 => Executing)
  /\ \A n \in 1 .. Len(inside) : Proper(inside[n]) /\ inside[n].hook \in VcpuHooks

LEMMA CallStep ==
  ASSUME MapsInv, ToyTypes, vmm.pc \notin {"failed", "guest"}, NEW r, NEW inside, HooksInside(inside),
         NEW es, es = Ioctl(r, inside), Fire(Operation, es), count' = [count EXCEPT !.calls = @ + 1],
         vmm'.pc # "guest",
         vmm'.pc # "failed" => Operation' = Operation /\ (InVcpu' => InVcpu)
  PROVE  TraceInv'
<1> DEFINE L == Len(inside) + 2
           c == count.calls + 1
           a == Ev("SYS_ENTER_IOCTL", <<r>>, c, <<r>>)
           z == Ev("SYS_EXIT_IOCTL", <<>>, c, <<r>>)
           i == {[call |-> c, args |-> <<r>>]}
<1>0. PICK S : inside \in Seq(S)
  BY DEF HooksInside
<1>11. /\ Len(inside) \in 0 .. 2 /\ (Len(inside) # 0 => Executing)
       /\ \A n \in 1 .. Len(inside) : Proper(inside[n]) /\ inside[n].hook \in VcpuHooks
  BY DEF HooksInside
<1> USE <1>0, <1>11
<1>1. /\ Len(es) = L /\ DOMAIN es = 1 .. L /\ es[1] = a /\ es[L] = z
      /\ \A n \in 1 .. Len(inside) : es[n + 1] = inside[n]
  <2>1. es = <<a>> \o inside \o <<z>>
    BY DEF Ioctl
  <2> HIDE DEF a, z
  <2> QED
    BY <2>1, Enclosed
<1>2. /\ count.calls \in Nat /\ count'.exits = count.exits /\ count'.ops = count.ops /\ count'.calls = c
  BY DEF ToyTypes
<1>3. /\ a.hook = "SYS_ENTER_IOCTL" /\ a.call = c /\ a.args = <<r>> /\ a.see = <<r>>
      /\ z.hook = "SYS_EXIT_IOCTL" /\ z.call = c /\ z.args = <<r>>
  BY EvFields
<1>4. i = {[call |-> a.call, args |-> a.args]} /\ i = {[call |-> z.call, args |-> z.args]}
  BY <1>3
<1> HIDE DEF a, z, i, c
<1>5. \A n \in 1 .. L : Proper(es[n])
  <2> TAKE n \in 1 .. L
  <2>1. CASE n = 1 \/ n = L
    BY <1>1, <1>3, <2>1 DEF Proper
  <2>2. CASE n # 1 /\ n # L
    <3>1. n - 1 \in 1 .. Len(inside) /\ (n - 1) + 1 = n
      BY <2>2
    <3> QED
      BY <1>1, <3>1
  <2> QED
    BY <2>1, <2>2
<1>6. L \in 2 .. 4 /\ L \in 0 .. 5
  OBVIOUS
<1>7. PICK s : Follows(s, es, L, Operation)
  BY <1>1, <1>5, <1>6, StepIsFollowed
<1>8. ASSUME ~bpf'.lost PROVE Ends(s[L]) /\ TellsAll(s, es, L, Operation)
  <2>0. Seeing(s[0]) /\ Each(s, es, L)
    BY <1>7, <1>8 DEF Follows
  <2> DEFINE V(n, k) == View(s[n], count.exits, c, count.ops, Operation, Operation, k, {})
             T(n) == Tells(s[n - 1], s[n], es[n], count.exits, Operation)
  <2>1. /\ View(s[0], count.exits, count.calls, count.ops, Operation, Operation, {}, {})
        /\ (InVcpu => Known(s[0])) /\ s[1] = Hook(s[0], a) /\ ~s[1].lost
    BY <1>1, <1>6, <2>0 DEF Seeing, Each, CallOf
  <2>2. V(1, i) /\ T(1) /\ StillKnown(s[0], s[1])
    <3>1. /\ View(s[1], count.exits, count.calls + 1, count.ops, Operation, Operation,
                  {[call |-> a.call, args |-> a.args]}, {})
          /\ StillKnown(s[0], s[1]) /\ Tells(s[0], s[1], a, count.exits, Operation)
      <4>1. Proper(a) /\ a.hook = "SYS_ENTER_IOCTL" /\ a.call = count.calls + 1 /\ count.calls \in Nat
        BY <1>1, <1>2, <1>3, <1>5, <1>6 DEF c
      <4> QED
        BY <2>1, <4>1, ViewCall
    <3> QED
      BY <1>1, <1>4, <3>1 DEF c
  <2>3. ASSUME NEW n \in 2 .. 3, n < L, V(n - 1, i), Known(s[n - 1])
        PROVE  V(n, i) /\ T(n) /\ Known(s[n])
    <3>1. n - 1 \in 1 .. Len(inside) /\ n \in 1 .. L /\ (n - 1) + 1 = n
      BY <2>3
    <3>2. es[n].hook \in VcpuHooks /\ Proper(es[n]) /\ s[n] = Hook(s[n - 1], es[n]) /\ ~s[n].lost
      BY <1>1, <2>0, <3>1 DEF Each
    <3>3. V(n, i) /\ T(n) /\ StillKnown(s[n - 1], s[n])
      BY <2>3, <3>2, ViewTold
    <3> QED
      BY <2>3, <3>3 DEF StillKnown
  <2>4. L > 2 => Known(s[0]) /\ Known(s[1])
    BY <2>1, <2>2 DEF StillKnown, InVcpu
  <2> HIDE DEF V, T
  <2>5. /\ V(L - 1, i) /\ (L > 2 => T(2) /\ Known(s[2])) /\ (L > 3 => T(3) /\ Known(s[3]))
    <3>1. L > 2 => V(2, i) /\ T(2) /\ Known(s[2])
      <4>1. L > 2 => V(2 - 1, i) /\ Known(s[2 - 1])
        BY <2>2, <2>4
      <4> QED
        BY <2>3, <4>1
    <3>2. L > 3 => V(3, i) /\ T(3) /\ Known(s[3])
      <4>1. L > 3 => V(3 - 1, i) /\ Known(s[3 - 1])
        BY <3>1
      <4> QED
        BY <2>3, <4>1
    <3>3. L = 2 => L - 1 = 1
      OBVIOUS
    <3>4. L = 3 => L - 1 = 2
      OBVIOUS
    <3>5. L = 4 => L - 1 = 3
      OBVIOUS
    <3> HIDE DEF L
    <3> QED
      BY <1>6, <2>2, <3>1, <3>2, <3>3, <3>4, <3>5
  <2>6. V(L, {}) /\ T(L) /\ StillKnown(s[L - 1], s[L])
    <3>1. s[L] = Hook(s[L - 1], z) /\ ~s[L].lost /\ Proper(z)
      <4>1. L \in 1 .. L
        BY <1>6
      <4> HIDE DEF L
      <4>2. s[L] = Hook(s[L - 1], es[L]) /\ ~s[L].lost /\ Proper(es[L])
        BY <1>5, <2>0, <4>1 DEF Each
      <4> QED
        BY <1>1, <4>2
    <3>2. View(s[L - 1], count.exits, c, count.ops, Operation, Operation, i, {})
      BY <2>5 DEF V
    <3> HIDE DEF L
    <3>3. /\ View(s[L], count.exits, c, count.ops, Operation, Operation, {}, {})
          /\ StillKnown(s[L - 1], s[L]) /\ Tells(s[L - 1], s[L], z, count.exits, Operation)
      BY <1>3, <1>4, <3>1, <3>2, ViewReturn
    <3> QED
      BY <1>1, <3>3 DEF V, T
  <2>7. InVcpu => Known(s[L])
    <3>1. CASE L = 2
      BY <2>1, <2>2, <2>6, <3>1 DEF StillKnown
    <3>2. CASE L = 3
      BY <2>5, <2>6, <3>2 DEF StillKnown
    <3>3. CASE L = 4
      BY <2>5, <2>6, <3>3 DEF StillKnown
    <3> HIDE DEF L
    <3> QED
      BY <1>6, <3>1, <3>2, <3>3
  <2>8. TellsAll(s, es, L, Operation)
    <3>1. \A n \in 1 .. L : n = 1 \/ n = L \/ (n = 2 /\ L > 2) \/ (n = 3 /\ L > 3)
      BY <1>6
    <3>2. \A n \in 1 .. L : T(n)
      <4> HIDE DEF L
      <4> QED
        BY <2>2, <2>5, <2>6, <3>1
    <3> QED
      BY <1>2, <3>2 DEF T, TellsAll
  <2>9. Ends(s[L])
    BY <1>2, <2>6, <2>7 DEF Ends, Seeing, CallOf, V
  <2> QED
    BY <2>8, <2>9
<1> QED
  BY <1>7, <1>8 DEF Follows

\* The calls of the set-up, the KVM_RUN that fails, and the interrupts.
LEMMA CallSteps ==
  ASSUME ToyInv, TraceInv, NEW ok \in BOOLEAN,
         \/ SetUp(ok) /\ IsIoctl(Calls[vmm.i])
         \/ KvmRun(ok) /\ ~ok
         \/ device_signal_msi(ok)
         \/ \E level \in 0 .. 1 : device_raise_legacy_irq(level, ok)
  PROVE  TraceInv'
<1>0. MapsInv /\ ToyTypes /\ count.calls \in Nat
  BY DEF TraceInv, ToyInv, ToyTypes
<1>1. CASE (SetUp(ok) /\ IsIoctl(Calls[vmm.i])) \/ (KvmRun(ok) /\ ~ok)
  <2>1. PICK r : Fire(0, Ioctl(r, <<>>))
    BY <1>1 DEF SetUp, KvmRun
  <2>2. vmm.pc \in {"setup", "loop"} /\ vmm'.pc \in {"failed", "loop", "setup"}
        /\ count' = [count EXCEPT !.calls = @ + 1]
    BY <1>0, <1>1 DEF SetUp, KvmRun, ToyTypes
  <2> DEFINE none == <<>>
  <2>3. HooksInside(none) /\ Fire(0, Ioctl(r, none))
    BY <2>1 DEF HooksInside
  <2> HIDE DEF none
  <2> QED
    BY <1>0, <2>1, <2>2, <2>3, CallStep DEF Operation, Executing, InVcpu
<1>2. CASE device_signal_msi(ok)
  <2> DEFINE a == <<"fee00000", "41">>
             e == Ev("KVM_MSI_SET_IRQ", a, 0, a)
             f == Plain("KVM_APIC_ACCEPT_IRQ")
             inside == IF ok THEN <<e, f>> ELSE <<>>
  <2> HIDE DEF a
  <2>1. Proper(e) /\ e.hook \in VcpuHooks /\ Proper(f) /\ f.hook \in VcpuHooks
    <3>1. Proper(f) /\ f.hook = "KVM_APIC_ACCEPT_IRQ"
      BY PlainIs DEF Silent
    <3>2. e.hook = "KVM_MSI_SET_IRQ" /\ e.call = 0 /\ e.see = e.args
      BY EvFields
    <3> QED
      BY <3>1, <3>2 DEF Proper, WithArgs, VcpuHooks
  <2>2. /\ vmm.pc = "msi" /\ vmm'.pc \in {"failed", "return"} /\ count' = [count EXCEPT !.calls = @ + 1]
        /\ Fire(count.ops, Ioctl("KVM_SIGNAL_MSI", inside))
    BY <1>0, <1>2 DEF device_signal_msi, ToyTypes, a
  <2> HIDE DEF e, f
  <2>7. inside \in {<<>>, <<e>>, <<e, f>>}
    OBVIOUS
  <2>3. /\ inside \in Seq({e, f}) /\ Len(inside) \in 0 .. 2
        /\ \A n \in 1 .. Len(inside) : inside[n] \in {e, f}
    <3> HIDE DEF inside
    <3>1. IsShort(inside, e, f)
      BY <2>7, ShortLists
    <3> QED
      BY <3>1 DEF IsShort
  <2> HIDE DEF inside
  <2>4. Executing /\ Operation = count.ops /\ (vmm'.pc # "failed" => Operation' = Operation)
    BY <2>2 DEF Operation, Executing
  <2>5. \A n \in 1 .. Len(inside) : Proper(inside[n]) /\ inside[n].hook \in VcpuHooks
    BY <2>1, <2>3
  <2>6. HooksInside(inside)
    BY <2>3, <2>4, <2>5 DEF HooksInside
  <2> QED
    BY <1>0, <2>2, <2>4, <2>6, CallStep DEF InVcpu
<1>3. CASE \E level \in 0 .. 1 : device_raise_legacy_irq(level, ok)
  <2>0. PICK level \in 0 .. 1 : device_raise_legacy_irq(level, ok)
    BY <1>3
  <2> DEFINE a == <<"rte 4">>
             e == Ev("KVM_IOAPIC_SET_IRQ", a, 0, a)
             f == Plain("KVM_APIC_ACCEPT_IRQ")
             edge == ok /\ level = 1 /\ irq.line = 0
             told == <<e>>
             inside == CASE ~ok -> <<>>
                         [] edge -> told \o <<f>>
                         [] OTHER -> told
  <2> HIDE DEF a
  <2>1. Proper(e) /\ e.hook \in VcpuHooks /\ Proper(f) /\ f.hook \in VcpuHooks
    <3>1. Proper(f) /\ f.hook = "KVM_APIC_ACCEPT_IRQ"
      BY PlainIs DEF Silent
    <3>2. e.hook = "KVM_IOAPIC_SET_IRQ" /\ e.call = 0 /\ e.see = e.args
      BY EvFields
    <3> QED
      BY <3>1, <3>2 DEF Proper, WithArgs, VcpuHooks
  <2>2. /\ vmm.pc \in {"assert", "deassert"} /\ vmm'.pc \in {"deassert", "return"}
        /\ count' = [count EXCEPT !.calls = @ + 1]
    BY <1>0, <2>0 DEF device_raise_legacy_irq, ToyTypes
  <2>6. Fire(count.ops, Ioctl("KVM_IRQ_LINE", inside))
    BY <2>0 DEF device_raise_legacy_irq, a
  <2> HIDE DEF e, f, edge
  <2>7. inside \in {<<>>, <<e>>, <<e, f>>}
    <3>1. told \o <<f>> = <<e, f>>
      BY ShortLists
    <3> QED
      BY <3>1
  <2> HIDE DEF inside, told
  <2>3. /\ inside \in Seq({e, f}) /\ Len(inside) \in 0 .. 2
        /\ \A n \in 1 .. Len(inside) : inside[n] \in {e, f}
    <3>1. IsShort(inside, e, f)
      BY <2>7, ShortLists
    <3> QED
      BY <3>1 DEF IsShort
  <2>4. Executing /\ Operation = count.ops /\ (vmm'.pc # "failed" => Operation' = Operation)
    BY <2>2 DEF Operation, Executing
  <2>5. \A n \in 1 .. Len(inside) : Proper(inside[n]) /\ inside[n].hook \in VcpuHooks
    BY <2>1, <2>3
  <2>8. HooksInside(inside)
    BY <2>3, <2>4, <2>5 DEF HooksInside
  <2> QED
    BY <1>0, <2>2, <2>4, <2>6, <2>8, CallStep DEF InVcpu
<1> QED
  BY <1>1, <1>2, <1>3

\* KVM_RUN enters the guest.
LEMMA EnterStep ==
  ASSUME ToyInv, TraceInv, NEW ok \in BOOLEAN, KvmRun(ok), ok
  PROVE  TraceInv'
<1> DEFINE c == count.calls + 1
           a == Ev("SYS_ENTER_IOCTL", <<"KVM_RUN">>, c, <<"KVM_RUN">>)
           e == Plain("KVM_ENTRY")
           es == <<a, e>>
           i == Calling(c, "KVM_RUN")
<1>0. MapsInv /\ ToyTypes /\ count.calls \in Nat
  BY DEF TraceInv, ToyInv, ToyTypes
<1>1. /\ vmm.pc = "loop" /\ vmm'.pc = "guest" /\ count' = [count EXCEPT !.calls = @ + 1]
      /\ Fire(0, es)
  BY <1>0 DEF KvmRun, ToyTypes
<1>2. /\ a.hook = "SYS_ENTER_IOCTL" /\ a.call = count.calls + 1 /\ a.args = <<"KVM_RUN">> /\ a.see = a.args
      /\ Proper(e) /\ e.hook = "KVM_ENTRY"
  BY EvFields, PlainIs DEF Silent
<1>3. i = {[call |-> a.call, args |-> a.args]}
  BY <1>2 DEF Calling
<1>4. Proper(a)
  BY <1>2 DEF Proper
<1> HIDE DEF a, e, i
<1>5. Len(es) = 2 /\ DOMAIN es = 1 .. 2 /\ es[1] = a /\ es[2] = e /\ 2 \in 0 .. 5
  OBVIOUS
<1> HIDE DEF es
<1>6. \A n \in 1 .. 2 : Proper(es[n])
  <2>1. \A n \in 1 .. 2 : n = 1 \/ n = 2
    OBVIOUS
  <2> QED
    BY <1>2, <1>4, <1>5, <2>1
<1>7. PICK s : Follows(s, es, 2, 0)
  BY <1>0, <1>1, <1>5, <1>6, StepIsFollowed
<1>8. ASSUME ~bpf'.lost PROVE Ends(s[2]) /\ TellsAll(s, es, 2, 0)
  <2>0. Seeing(s[0]) /\ Each(s, es, 2) /\ Operation = 0 /\ Operation' = 0
    BY <1>1, <1>7, <1>8 DEF Follows, Operation, Executing
  <2>1. /\ View(s[0], count.exits, count.calls, count.ops, 0, 0, {}, {})
        /\ s[1] = Hook(s[0], a) /\ ~s[1].lost /\ s[2] = Hook(s[1], e) /\ ~s[2].lost
    BY <1>1, <1>5, <2>0 DEF Seeing, Each, CallOf
  <2>2. View(s[1], count.exits, c, count.ops, 0, 0, i, {}) /\ Tells(s[0], s[1], a, count.exits, 0)
    <3>1. /\ View(s[1], count.exits, count.calls + 1, count.ops, 0, 0, {[call |-> a.call, args |-> a.args]}, {})
          /\ Tells(s[0], s[1], a, count.exits, 0)
      BY <1>0, <1>2, <1>4, <2>1, ViewCall
    <3> QED
      BY <1>3, <3>1
  <2>3. View(s[2], count.exits, c, count.ops, 0, 0, i, {}) /\ Known(s[2]) /\ Tells(s[1], s[2], e, count.exits, 0)
    BY <1>2, <2>1, <2>2, ViewEntry
  <2>4. count'.exits = count.exits /\ count'.ops = count.ops /\ count'.calls = c
    BY <1>0, <1>1 DEF ToyTypes
  <2>5. TellsAll(s, es, 2, 0)
    <3>1. \A n \in 1 .. 2 : n = 1 \/ n = 2
      OBVIOUS
    <3> QED
      BY <1>5, <2>2, <2>3, <2>4, <3>1 DEF TellsAll
  <2> QED
    BY <1>1, <2>0, <2>3, <2>4, <2>5 DEF Ends, Seeing, CallOf, i
<1> QED
  BY <1>7, <1>8 DEF Follows

\* The command returns, or the record of its return closes it.
LEMMA ReturnStep ==
  ASSUME ToyInv, TraceInv, CommandReturns, count.ops # 0
  PROVE  TraceInv'
<1> DEFINE a == <<dev.command>>
           e == Ev("DEVICE_EXECUTE_COMMAND_RETURN", a, 0, a)
           es == <<e>>
<1>0. MapsInv /\ ToyTypes
  BY DEF TraceInv, ToyInv
<1>1. vmm.pc = "return" /\ vmm'.pc = "loop" /\ count' = count /\ Fire(count.ops, es)
  BY <1>0 DEF CommandReturns, ToyTypes
<1>2. e.hook = "DEVICE_EXECUTE_COMMAND_RETURN" /\ e.call = 0 /\ e.see = e.args
  BY EvFields
<1>3. Proper(e)
  BY <1>2 DEF Proper, WithArgs
<1> HIDE DEF e
<1>4. Len(es) = 1 /\ DOMAIN es = 1 .. 1 /\ es[1] = e /\ 1 \in 0 .. 5 /\ \A n \in 1 .. 1 : Proper(es[n])
  BY <1>3
<1> HIDE DEF es
<1>5. PICK s : Follows(s, es, 1, count.ops)
  BY <1>0, <1>1, <1>4, StepIsFollowed
<1>6. ASSUME ~bpf'.lost PROVE Ends(s[1]) /\ TellsAll(s, es, 1, count.ops)
  <2>0. Seeing(s[0]) /\ Each(s, es, 1) /\ Operation = count.ops /\ Operation' = 0 /\ InVcpu
    BY <1>1, <1>5, <1>6 DEF Follows, Operation, Executing, InVcpu
  <2>1. /\ View(s[0], count.exits, count.calls, count.ops, count.ops, count.ops, {}, {}) /\ Known(s[0])
        /\ s[1] = Hook(s[0], e) /\ ~s[1].lost
    BY <1>1, <1>4, <2>0 DEF Seeing, Each, CallOf
  <2>2. View(s[1], count.exits, count.calls, count.ops, 0, 0, {}, {}) /\ Tells(s[0], s[1], e, count.exits, count.ops)
    BY <1>2, <1>3, <2>1, ViewCommandReturn
  <2> QED
    BY <1>1, <1>4, <2>0, <2>2 DEF Ends, Seeing, CallOf, TellsAll, InVcpu, Executing
<1> QED
  BY <1>5, <1>6 DEF Follows

\* An exit that KVM handles: counted, then hooks that only tell, in the guest's thread.
LEMMA KernelExitStep ==
  ASSUME ToyInv, TraceInv, vmm.pc = "guest", NEW events, InKernel(events), NEW K \in 0 .. 3,
         \E S : events \in Seq(S), Len(events) = K,
         \A n \in 1 .. K : \E h \in {"KVM_APIC", "KVM_EOI", "KVM_ENTRY"} : events[n] = Plain(h)
  PROVE  TraceInv'
<1> DEFINE e == Plain("KVM_EXIT")
           es == <<e>> \o events
           L == K + 1
           x == count.exits + 1
           i == CallOf("guest", count.calls)
<1>0. MapsInv /\ ToyTypes /\ count.exits \in Nat
  BY DEF TraceInv, ToyInv, ToyTypes
<1>1. vmm' = vmm /\ count' = [count EXCEPT !.exits = @ + 1] /\ Fire(0, es)
  BY DEF InKernel
<1>2. Proper(e) /\ e.hook = "KVM_EXIT"
  BY PlainIs DEF Silent
<1> HIDE DEF e
<1>3. PICK S : events \in Seq(S)
  OBVIOUS
<1>4. /\ Len(es) = L /\ es[1] = e /\ \A n \in 1 .. K : es[1 + n] = events[n]
      /\ DOMAIN es = 1 .. L
  <2>1. <<e>> \in Seq({e}) /\ Len(<<e>>) = 1 /\ <<e>>[1] = e
    OBVIOUS
  <2>2. /\ es \in Seq({e} \cup S) /\ Len(es) = 1 + K
        /\ \A n \in 1 .. 1 : es[n] = <<e>>[n]
        /\ \A n \in 1 .. K : es[1 + n] = events[n]
    BY <1>3, <2>1, Concatenated
  <2> HIDE DEF es
  <2>3. 1 + K = L /\ 1 \in 1 .. 1
    OBVIOUS
  <2> QED
    BY <2>1, <2>2, <2>3
<1> HIDE DEF es
<1>5. ASSUME NEW n \in 2 .. L
      PROVE  Proper(es[n]) /\ es[n].hook \in {"KVM_APIC", "KVM_EOI", "KVM_ENTRY"}
  <2>1. n - 1 \in 1 .. K /\ 1 + (n - 1) = n
    OBVIOUS
  <2>2. PICK h \in {"KVM_APIC", "KVM_EOI", "KVM_ENTRY"} : es[n] = Plain(h)
    BY <1>4, <2>1
  <2> QED
    BY <2>2, PlainIs DEF Silent
<1>6. \A n \in 1 .. L : Proper(es[n])
  <2> TAKE n \in 1 .. L
  <2>1. n = 1 \/ n \in 2 .. L
    OBVIOUS
  <2> QED
    BY <1>2, <1>4, <1>5, <2>1
<1>7. L \in 1 .. 4 /\ L \in 0 .. 5
  OBVIOUS
<1>8. PICK s : Follows(s, es, L, 0)
  BY <1>0, <1>1, <1>4, <1>6, <1>7, StepIsFollowed
<1>9. ASSUME ~bpf'.lost PROVE Ends(s[L]) /\ TellsAll(s, es, L, 0)
  <2>0. Seeing(s[0]) /\ Each(s, es, L) /\ Operation = 0 /\ Operation' = 0 /\ InVcpu
    BY <1>1, <1>8, <1>9 DEF Follows, Operation, Executing, InVcpu
  <2> DEFINE G(n) == View(s[n], x, count.calls, count.ops, 0, 0, i, {}) /\ Known(s[n])
                       /\ Tells(s[n - 1], s[n], es[n], x, 0)
  <2>1. /\ View(s[0], count.exits, count.calls, count.ops, 0, 0, i, {}) /\ Known(s[0])
        /\ s[1] = Hook(s[0], e) /\ ~s[1].lost
    BY <1>4, <1>7, <2>0 DEF Seeing, Each
  <2>2. G(1)
    <3>1. /\ View(s[1], count.exits + 1, count.calls, count.ops, 0, 0, i, {})
          /\ StillKnown(s[0], s[1]) /\ Tells(s[0], s[1], e, count.exits + 1, 0)
      BY <1>0, <1>2, <2>1, ViewExit
    <3> QED
      BY <1>4, <2>1, <3>1 DEF StillKnown
  <2>3. ASSUME NEW n \in 2 .. 4, n <= L, G(n - 1) PROVE G(n)
    <3>1. n \in 2 .. L /\ n \in 1 .. L
      BY <2>3
    <3>2. /\ Proper(es[n]) /\ es[n].hook \in {"KVM_APIC", "KVM_EOI", "KVM_ENTRY"}
          /\ s[n] = Hook(s[n - 1], es[n]) /\ ~s[n].lost
      BY <1>5, <2>0, <3>1 DEF Each
    <3>3. CASE es[n].hook \in {"KVM_APIC", "KVM_EOI"}
      <4>1. /\ View(s[n], x, count.calls, count.ops, 0, 0, i, {})
            /\ StillKnown(s[n - 1], s[n]) /\ Tells(s[n - 1], s[n], es[n], x, 0)
        <5> HIDE DEF x, i
        <5> QED
          BY <2>3, <3>2, <3>3, ViewTold DEF VcpuHooks
      <4> QED
        BY <2>3, <4>1 DEF StillKnown
    <3>4. CASE es[n].hook = "KVM_ENTRY"
      <4> HIDE DEF x, i
      <4> QED
        BY <2>3, <3>2, <3>4, ViewEntry
    <3> QED
      BY <3>2, <3>3, <3>4
  <2> HIDE DEF G
  <2>4. (L >= 2 => G(2)) /\ (L >= 3 => G(3)) /\ (L >= 4 => G(4))
    <3>1. L >= 2 => G(2)
      <4>1. G(2 - 1)
        BY <2>2
      <4> QED
        BY <2>3, <4>1
    <3>2. L >= 3 => G(3)
      <4>1. L >= 3 => G(3 - 1)
        BY <3>1
      <4> QED
        BY <2>3, <4>1
    <3>3. L >= 4 => G(4)
      <4>1. L >= 4 => G(4 - 1)
        BY <3>2
      <4> QED
        BY <2>3, <4>1
    <3> QED
      BY <3>1, <3>2, <3>3
  <2>5. \A n \in 1 .. L : G(n)
    <3> HIDE DEF L
    <3>1. \A n \in 1 .. L : (n = 1) \/ (n = 2 /\ L >= 2) \/ (n = 3 /\ L >= 3) \/ (n = 4 /\ L >= 4)
      BY <1>7
    <3> QED
      BY <2>2, <2>4, <3>1
  <2>6. count'.exits = x /\ count'.calls = count.calls /\ count'.ops = count.ops
    BY <1>0, <1>1 DEF ToyTypes
  <2>7. TellsAll(s, es, L, 0)
    BY <2>5, <2>6 DEF TellsAll, G
  <2>8. View(s[L], x, count.calls, count.ops, 0, 0, i, {}) /\ Known(s[L])
    <3>1. L \in 1 .. L
      BY <1>7
    <3> HIDE DEF L
    <3> QED
      BY <2>5, <3>1 DEF G
  <2>9. Ends(s[L])
    BY <1>1, <2>0, <2>6, <2>8 DEF Ends, Seeing
  <2> QED
    BY <2>7, <2>9
<1> QED
  BY <1>8, <1>9 DEF Follows

LEMMA KernelExitSteps ==
  ASSUME ToyInv, TraceInv, ApicSetup \/ Halt \/ (IsrEoi /\ ~apicv)
  PROVE  TraceInv'
<1>0. vmm.pc = "guest"
  BY DEF ApicSetup, Halt, IsrEoi, At, InIsr
<1> DEFINE a == Plain("KVM_APIC")
           o == Plain("KVM_EOI")
           e == Plain("KVM_ENTRY")
           Hooks == {"KVM_APIC", "KVM_EOI", "KVM_ENTRY"}
<1> HIDE DEF a, o, e
<1>1. \A p \in {a, o, e} : \E h \in Hooks : p = Plain(h)
  BY DEF a, o, e
<1> HIDE DEF Hooks
<1>2. CASE Halt
  <2> DEFINE events == <<>>
  <2>1. InKernel(events)
    BY <1>2 DEF Halt
  <2>2. events \in Seq({}) /\ Len(events) = 0 /\ 0 \in 0 .. 3 /\ \A n \in 1 .. 0 : FALSE
    OBVIOUS
  <2> HIDE DEF events
  <2> QED
    BY <1>0, <2>1, <2>2, KernelExitStep
<1>3. CASE IsrEoi /\ ~apicv
  <2> DEFINE events == <<a, o, e>>
  <2>1. InKernel(events)
    BY <1>3 DEF IsrEoi, a, o, e
  <2>2. events \in Seq({a, o, e}) /\ Len(events) = 3 /\ 3 \in 0 .. 3 /\ \A n \in 1 .. 3 : events[n] \in {a, o, e}
    OBVIOUS
  <2> HIDE DEF events
  <2> QED
    BY <1>0, <1>1, <2>1, <2>2, KernelExitStep DEF Hooks
<1>4. CASE ApicSetup
  <2> DEFINE first == IF apicv THEN <<>> ELSE <<a>>
             events == first \o <<e>>
  <2>1. InKernel(events)
    BY <1>4 DEF ApicSetup, a, e
  <2>2. first \in {<<>>, <<a>>}
    OBVIOUS
  <2>3. events \in {<<e>>, <<a, e>>}
    <3>1. <<a>> \o <<e>> = <<a, e>>
      BY ShortLists
    <3>2. <<>> \o <<e>> = <<e>>
      <4>1. <<e>> \in Seq({e})
        OBVIOUS
      <4> HIDE DEF e
      <4> QED
        BY <4>1, ConcatEmptySeq
    <3> QED
      BY <2>2, <3>1, <3>2
  <2> HIDE DEF events
  <2>4. IsShort(events, a, e) \/ IsShort(events, e, e)
    BY <2>3, ShortLists
  <2>5. /\ events \in Seq({a, o, e}) /\ Len(events) \in 0 .. 3
        /\ \A n \in 1 .. Len(events) : events[n] \in {a, o, e}
    BY <2>4 DEF IsShort
  <2>6. \A n \in 1 .. Len(events) : \E h \in Hooks : events[n] = Plain(h)
    BY <1>1, <2>5
  <2> QED
    BY <1>0, <2>1, <2>5, <2>6, KernelExitStep DEF Hooks
<1> QED
  BY <1>2, <1>3, <1>4

\* An exit that KVM_RUN returns with.
LEMMA UserExitSteps ==
  ASSUME ToyInv, TraceInv, Marker \/ Command \/ SetGpa \/ Done \/ IsrStatus \/ IsrAck
  PROVE  TraceInv'
<1> DEFINE e == Plain("KVM_EXIT")
           f == Plain("KVM_USERSPACE_EXIT")
           z == Ev("SYS_EXIT_IOCTL", <<>>, count.calls, <<"KVM_RUN">>)
           es == <<e, f, z>>
           x == count.exits + 1
           i == CallOf("guest", count.calls)
<1>0. MapsInv /\ ToyTypes /\ count.exits \in Nat
  BY DEF TraceInv, ToyInv, ToyTypes
<1>1. /\ vmm.pc = "guest" /\ vmm'.pc = "exit" /\ count' = [count EXCEPT !.exits = @ + 1] /\ Fire(0, es)
  <2>1. PICK exit : ToUserspace(exit)
    BY DEF Marker, Command, SetGpa, Done, IsrStatus, IsrAck
  <2>2. vmm.pc = "guest"
    BY DEF Marker, Command, SetGpa, Done, IsrStatus, IsrAck, At, InIsr
  <2> QED
    BY <1>0, <2>1, <2>2 DEF ToUserspace, ToyTypes
<1>2. /\ Proper(e) /\ e.hook = "KVM_EXIT" /\ Proper(f) /\ f.hook = "KVM_USERSPACE_EXIT"
      /\ z.hook = "SYS_EXIT_IOCTL" /\ z.call = count.calls /\ z.args = <<"KVM_RUN">>
  BY PlainIs, EvFields DEF Silent
<1>3. Proper(z) /\ i = {[call |-> z.call, args |-> z.args]}
  BY <1>2 DEF Proper, CallOf, Calling
<1> HIDE DEF e, f, z, i
<1>4. Len(es) = 3 /\ DOMAIN es = 1 .. 3 /\ es[1] = e /\ es[2] = f /\ es[3] = z /\ 3 \in 0 .. 5
  OBVIOUS
<1> HIDE DEF es
<1>5. \A n \in 1 .. 3 : n = 1 \/ n = 2 \/ n = 3
  OBVIOUS
<1>6. \A n \in 1 .. 3 : Proper(es[n])
  BY <1>2, <1>3, <1>4, <1>5
<1>7. PICK s : Follows(s, es, 3, 0)
  BY <1>0, <1>1, <1>4, <1>6, StepIsFollowed
<1>8. ASSUME ~bpf'.lost PROVE Ends(s[3]) /\ TellsAll(s, es, 3, 0)
  <2>0. Seeing(s[0]) /\ Each(s, es, 3) /\ Operation = 0 /\ Operation' = 0 /\ InVcpu
    BY <1>1, <1>7, <1>8 DEF Follows, Operation, Executing, InVcpu
  <2>1. /\ View(s[0], count.exits, count.calls, count.ops, 0, 0, i, {}) /\ Known(s[0])
        /\ s[1] = Hook(s[0], e) /\ ~s[1].lost /\ s[2] = Hook(s[1], f) /\ ~s[2].lost
        /\ s[3] = Hook(s[2], z) /\ ~s[3].lost
    <3>1. /\ View(s[0], count.exits, count.calls, count.ops, 0, 0, i, {}) /\ Known(s[0])
      BY <1>1, <2>0 DEF Seeing, i
    <3>2. /\ s[1] = Hook(s[0], es[1]) /\ ~s[1].lost /\ s[2] = Hook(s[1], es[2]) /\ ~s[2].lost
          /\ s[3] = Hook(s[2], es[3]) /\ ~s[3].lost
      BY <2>0 DEF Each
    <3> QED
      BY <1>4, <3>1, <3>2
  <2>2. /\ View(s[1], x, count.calls, count.ops, 0, 0, i, {})
        /\ StillKnown(s[0], s[1]) /\ Tells(s[0], s[1], e, x, 0)
    BY <1>0, <1>2, <2>1, ViewExit
  <2>3. /\ View(s[2], x, count.calls, count.ops, 0, 0, i, {})
        /\ StillKnown(s[1], s[2]) /\ Tells(s[1], s[2], f, x, 0)
    <3> HIDE DEF x
    <3> QED
      BY <1>2, <2>1, <2>2, ViewTold
  <2>4. /\ View(s[3], x, count.calls, count.ops, 0, 0, {}, {})
        /\ StillKnown(s[2], s[3]) /\ Tells(s[2], s[3], z, x, 0)
    <3> HIDE DEF x
    <3> QED
      BY <1>2, <1>3, <2>1, <2>3, ViewReturn
  <2>5. count'.exits = x /\ count'.calls = count.calls /\ count'.ops = count.ops
    BY <1>0, <1>1 DEF ToyTypes
  <2>6. TellsAll(s, es, 3, 0)
    <3>1. Tells(s[0], s[1], es[1], x, 0) /\ Tells(s[1], s[2], es[2], x, 0) /\ Tells(s[2], s[3], es[3], x, 0)
      BY <1>4, <2>2, <2>3, <2>4
    <3>2. 1 - 1 = 0 /\ 2 - 1 = 1 /\ 3 - 1 = 2
      OBVIOUS
    <3>3. \A n \in 1 .. 3 : Tells(s[n - 1], s[n], es[n], x, 0)
      BY <1>5, <3>1, <3>2
    <3> QED
      BY <2>5, <3>3 DEF TellsAll
  <2>7. Known(s[3])
    BY <2>1, <2>2, <2>3, <2>4 DEF StillKnown
  <2> QED
    BY <1>1, <2>0, <2>4, <2>5, <2>6, <2>7 DEF Ends, Seeing, CallOf
<1> QED
  BY <1>7, <1>8 DEF Follows

\* The write of COMMAND and device_execute_command() up to the interrupt.
LEMMA CommandStep ==
  ASSUME ToyInv, TraceInv, CommandWrite
  PROVE  TraceInv'
<1> DEFINE c == run[4]
           wa == <<"REG_COMMAND", c>>
           w == Ev("DEVICE_MMIO_WRITE", wa, 0, wa)
           xa == <<c>>
           x == Ev("DEVICE_EXECUTE_COMMAND", xa, 0, xa)
           da == <<c, dev.dma_gpa>>
           d == Ev("DEVICE_DMA_TRANSFER", da, 0, da)
           r == Ev("DEVICE_DMA_TRANSFER_RETURN", <<>>, 0, da)
           dma == DmaEvents(c)
           es == <<w, x>> \o dma
           o == count.ops + 1
<1>0. MapsInv /\ ToyTypes /\ count.ops \in Nat
  BY DEF TraceInv, ToyInv, ToyTypes
<1>1. /\ vmm.pc = "exit" /\ vmm'.pc \in {"return", "msi", "assert"}
      /\ count' = [count EXCEPT !.ops = @ + 1] /\ Fire(count'.ops, es)
  BY <1>0 DEF CommandWrite, ToyTypes
<1>2. /\ w.hook = "DEVICE_MMIO_WRITE" /\ w.call = 0 /\ w.see = w.args /\ w.args[1] = "REG_COMMAND"
      /\ x.hook = "DEVICE_EXECUTE_COMMAND" /\ x.call = 0 /\ x.see = x.args
  <2>1. wa[1] = "REG_COMMAND"
    OBVIOUS
  <2> HIDE DEF wa, xa
  <2> QED
    BY <2>1, EvFields
<1>3. /\ d.hook = "DEVICE_DMA_TRANSFER" /\ d.call = 0 /\ d.see = d.args /\ d.args = da
      /\ r.hook = "DEVICE_DMA_TRANSFER_RETURN" /\ r.call = 0 /\ r.args = da
  <2> HIDE DEF da
  <2> QED
    BY EvFields
<1>4. Proper(w) /\ Proper(x) /\ Proper(d) /\ Proper(r)
  <2> HIDE DEF w, x, d, r
  <2> QED
    BY <1>2, <1>3 DEF Proper, WithArgs
<1>5. dma = <<>> \/ dma = <<d, r>>
  BY DEF DmaEvents
<1> HIDE DEF w, x, d, r, dma, wa, xa, da
<1>6. \E L \in {2, 4} :
         /\ Len(es) = L /\ DOMAIN es = 1 .. L /\ es[1] = w /\ es[2] = x
         /\ L = 4 => es[3] = d /\ es[4] = r
  <2> DEFINE p == <<w, x>>
  <2>2. p \in Seq({w, x}) /\ Len(p) = 2 /\ p[1] = w /\ p[2] = x
    OBVIOUS
  <2>3. es = p \o dma
    OBVIOUS
  <2> HIDE DEF p, es
  <2>4. CASE dma = <<>>
    <3>1. dma \in Seq({}) /\ Len(dma) = 0
      BY <2>4
    <3>2. Joins(es, p, dma)
      BY <2>2, <2>3, <3>1, JoinedLists
    <3>3. Len(es) = 2 /\ DOMAIN es = 1 .. 2 /\ es[1] = w /\ es[2] = x
      BY <2>2, <3>1, <3>2 DEF Joins
    <3> QED
      BY <3>3
  <2>5. CASE dma = <<d, r>>
    <3>1. dma \in Seq({d, r}) /\ Len(dma) = 2 /\ dma[1] = d /\ dma[2] = r
      BY <2>5
    <3>2. Joins(es, p, dma)
      BY <2>2, <2>3, <3>1, JoinedLists
    <3>3. Len(es) = 4 /\ DOMAIN es = 1 .. 4 /\ es[1] = w /\ es[2] = x /\ es[2 + 1] = d /\ es[2 + 2] = r
      BY <2>2, <3>1, <3>2 DEF Joins
    <3> QED
      BY <3>3
  <2> QED
    BY <1>5, <2>4, <2>5
<1> HIDE DEF es
<1>61. PICK L \in {2, 4} :
         /\ Len(es) = L /\ DOMAIN es = 1 .. L /\ es[1] = w /\ es[2] = x
         /\ L = 4 => es[3] = d /\ es[4] = r
  BY <1>6
<1>62. L \in 0 .. 5 /\ count'.ops = o /\ Fire(o, es)
  <2>1. count'.ops = o
    BY <1>0, <1>1 DEF ToyTypes
  <2>2. L \in 0 .. 5
    OBVIOUS
  <2> QED
    BY <1>1, <2>1, <2>2
<1>7. \A n \in 1 .. L : n = 1 \/ n = 2 \/ (n = 3 /\ L = 4) \/ (n = 4 /\ L = 4)
  BY <1>61
<1>8. \A n \in 1 .. L : Proper(es[n])
  BY <1>4, <1>61, <1>7
<1>9. PICK s : Follows(s, es, L, o)
  <2> HIDE DEF o
  <2> QED
    BY <1>0, <1>1, <1>61, <1>62, <1>8, StepIsFollowed
<1>10. ASSUME ~bpf'.lost PROVE Ends(s[L]) /\ TellsAll(s, es, L, o)
  <2>1. count'.exits = count.exits /\ count'.calls = count.calls /\ count'.ops = o /\ o \in Nat /\ o # 0
    BY <1>0, <1>1 DEF ToyTypes
  <2>0. Seeing(s[0]) /\ Each(s, es, L) /\ Operation = 0 /\ Operation' = o /\ InVcpu
    BY <1>1, <1>9, <1>10, <2>1 DEF Follows, Operation, Executing, InVcpu
  <2>2. View(s[0], count.exits, count.calls, count.ops, 0, 0, {}, {}) /\ Known(s[0])
    BY <1>1, <2>0 DEF Seeing, CallOf
  <2>3. /\ s[1] = Hook(s[0], w) /\ ~s[1].lost /\ s[2] = Hook(s[1], x) /\ ~s[2].lost
        /\ L = 4 => s[3] = Hook(s[2], d) /\ ~s[3].lost /\ s[4] = Hook(s[3], r) /\ ~s[4].lost
    <3>1. /\ s[1] = Hook(s[0], es[1]) /\ ~s[1].lost /\ s[2] = Hook(s[1], es[2]) /\ ~s[2].lost
          /\ L = 4 => s[3] = Hook(s[2], es[3]) /\ ~s[3].lost /\ s[4] = Hook(s[3], es[4]) /\ ~s[4].lost
      BY <1>61, <2>0 DEF Each
    <3> QED
      BY <1>61, <3>1
  <2>4. /\ View(s[1], count.exits, count.calls, o, o, 0, {}, {}) /\ StillKnown(s[0], s[1])
        /\ Tells(s[0], s[1], w, count.exits, o)
    BY <1>0, <1>2, <1>4, <2>2, <2>3, ViewCommand
  <2> HIDE DEF o
  <2>5. Known(s[1])
    BY <2>2, <2>4 DEF StillKnown
  <2>6. /\ View(s[2], count.exits, count.calls, o, o, o, {}, {}) /\ StillKnown(s[1], s[2])
        /\ Tells(s[1], s[2], x, count.exits, o)
    BY <1>2, <1>4, <2>1, <2>3, <2>4, <2>5, ViewExecute
  <2>7. Known(s[2])
    BY <2>5, <2>6 DEF StillKnown
  <2>8. ASSUME L = 4
        PROVE  /\ View(s[4], count.exits, count.calls, o, o, o, {}, {}) /\ Known(s[4])
               /\ Tells(s[2], s[3], d, count.exits, o) /\ Tells(s[3], s[4], r, count.exits, o)
    <3>0. /\ s[3] = Hook(s[2], d) /\ ~s[3].lost /\ s[4] = Hook(s[3], r) /\ ~s[4].lost
      BY <2>3, <2>8
    <3>1. /\ View(s[3], count.exits, count.calls, o, o, o, {}, {d.args}) /\ StillKnown(s[2], s[3])
          /\ Tells(s[2], s[3], d, count.exits, o)
      BY <1>3, <1>4, <2>6, <2>7, <3>0, ViewDma
    <3>2. Known(s[3]) /\ {d.args} = {r.args}
      BY <1>3, <2>7, <3>1 DEF StillKnown
    <3>3. View(s[3], count.exits, count.calls, o, o, o, {}, {r.args})
      BY <3>1, <3>2
    <3>4. /\ View(s[4], count.exits, count.calls, o, o, o, {}, {}) /\ StillKnown(s[3], s[4])
          /\ Tells(s[3], s[4], r, count.exits, o)
      BY <1>3, <1>4, <3>0, <3>2, <3>3, ViewDma
    <3> QED
      BY <3>1, <3>2, <3>4 DEF StillKnown
  <2>9. View(s[L], count.exits, count.calls, o, o, o, {}, {}) /\ Known(s[L])
    BY <1>61, <2>6, <2>7, <2>8
  <2>10. TellsAll(s, es, L, o)
    <3>1. /\ Tells(s[0], s[1], es[1], count.exits, o) /\ Tells(s[1], s[2], es[2], count.exits, o)
          /\ L = 4 => Tells(s[2], s[3], es[3], count.exits, o) /\ Tells(s[3], s[4], es[4], count.exits, o)
      BY <1>61, <2>4, <2>6, <2>8
    <3>2. 1 - 1 = 0 /\ 2 - 1 = 1 /\ 3 - 1 = 2 /\ 4 - 1 = 3
      OBVIOUS
    <3>3. \A n \in 1 .. L : Tells(s[n - 1], s[n], es[n], count.exits, o)
      BY <1>7, <3>1, <3>2
    <3> QED
      BY <2>1, <3>3 DEF TellsAll
  <2>11. Ends(s[L])
    <3>1. vmm'.pc # "guest"
      BY <1>1
    <3> QED
      BY <2>0, <2>1, <2>9, <3>1 DEF Ends, Seeing, CallOf
  <2> QED
    BY <2>10, <2>11
<1> QED
  BY <1>9, <1>10 DEF Follows

-----------------------------------------------------------------------------
\* What another virtual machine's thread writes is not the VMM's.
SameForVmm(b, u) ==
  /\ IsIo(u) /\ u.out = b.out /\ (~u.lost => ~b.lost)
  /\ ~u.lost => \A m \in IoMaps : Here(u, m, "vmm") = Here(b, m, "vmm")

LEMMA OtherKey ==
  ASSUME NEW b, IsIo(b), NEW m \in IoMaps, NEW k, k # "vmm", NEW v, NEW u, u = lab_map_update(b, m, k, v)
  PROVE  SameForVmm(b, u)
<1>1. DidUpdate(b, u, m, k, v)
  BY IoUpdate
<1>2. \A f \in IoMaps : f # m => Here(u, f, "vmm") = Here(b, f, "vmm")
  BY <1>1 DEF DidUpdate, Kept
<1>3. ~u.lost => Here(u, m, "vmm") = Here(b, m, "vmm")
  BY <1>1 DEF DidUpdate
<1> QED
  BY <1>1, <1>2, <1>3 DEF DidUpdate, SameForVmm

\* Steps that leave the machine alone, and with it the view of its thread.
LEMMA MachineRests ==
  ASSUME MapsInv, UNCHANGED machine, happened' = <<>>, NEW b, b.out = <<>>,
         \A m \in IoMaps : b[m] = bpf[m], b.lost = bpf.lost, SameForVmm(b, bpf')
  PROVE  TraceInv'
<1>1. IsIo(bpf') /\ bpf'.out = <<>> /\ (~bpf'.lost => ~bpf.lost)
  BY DEF SameForVmm
<1>2. TraceExact'
  BY <1>1 DEF TraceExact
<1>3. \A m \in IoMaps : Here(b, m, "vmm") = Here(bpf, m, "vmm")
  BY DEF Here
<1>4. ~bpf'.lost => \A m \in IoMaps : Here(bpf', m, "vmm") = Here(bpf, m, "vmm")
  BY <1>3 DEF SameForVmm
<1>5. ~bpf'.lost =>
        /\ Here(bpf', "vmexit_counters", "vmm") = Here(bpf, "vmexit_counters", "vmm")
        /\ Here(bpf', "current_vmexit", "vmm") = Here(bpf, "current_vmexit", "vmm")
        /\ Here(bpf', "ioctl_counters", "vmm") = Here(bpf, "ioctl_counters", "vmm")
        /\ Here(bpf', "operation_counters", "vmm") = Here(bpf, "operation_counters", "vmm")
        /\ Here(bpf', "active_operation", "vmm") = Here(bpf, "active_operation", "vmm")
        /\ Here(bpf', "command_calls", "vmm") = Here(bpf, "command_calls", "vmm")
        /\ Here(bpf', "dma_calls", "vmm") = Here(bpf, "dma_calls", "vmm")
        /\ Here(bpf', "ioctl_calls", "vmm") = Here(bpf, "ioctl_calls", "vmm")
        /\ Here(bpf', "current_vcpu", "vmm") = Here(bpf, "current_vcpu", "vmm")
  BY <1>4 DEF IoMaps
<1>6. vmm' = vmm /\ count' = count
  BY DEF machine
<1>7. MapsInv'
  BY <1>1, <1>5, <1>6 DEF MapsInv, Agree, Operation, Executing
<1> QED
  BY <1>2, <1>7 DEF TraceInv

LEMMA SurroundingSteps ==
  ASSUME TraceInv, (\E o \in Others : OtherVcpu(o)) \/ RingTurns
  PROVE  TraceInv'
<1>0. MapsInv /\ IsIo(bpf)
  BY DEF TraceInv, MapsInv
<1>1. CASE RingTurns
  <2> DEFINE b == [bpf EXCEPT !.out = <<>>]
  <2>1. b.out = <<>> /\ b.lost = bpf.lost /\ \A m \in IoMaps : b[m] = bpf[m]
    BY <1>0 DEF IsIo, IoMaps
  <2>2. /\ IsIo(bpf') /\ bpf'.out = <<>> /\ bpf'.lost = bpf.lost /\ \A m \in IoMaps : bpf'[m] = bpf[m]
    BY <1>0, <1>1 DEF IsIo, IoMaps, RingTurns
  <2> HIDE DEF b
  <2>3. SameForVmm(b, bpf')
    BY <2>1, <2>2 DEF SameForVmm, Here
  <2>4. UNCHANGED machine /\ happened' = <<>>
    BY <1>1 DEF RingTurns
  <2> QED
    BY <1>0, <2>1, <2>3, <2>4, MachineRests
<1>2. CASE \E o \in Others : OtherVcpu(o)
  <2>0. PICK o \in Others : OtherVcpu(o)
    BY <1>2
  <2>1. o # "vmm" /\ ~is_vmm_comm(o)
    BY ToyAssumption DEF is_vmm_comm
  <2> DEFINE b == [bpf EXCEPT !.out = <<>>]
             c == lab_map_update(b, "current_vcpu", o, o)
             n == Bump(c, "vmexit_counters", o)
             d == lab_map_update(c, "vmexit_counters", o, n)
             u == lab_map_update(d, "current_vmexit", o, n)
  <2>2. IsIo(b) /\ b.out = <<>> /\ b.lost = bpf.lost /\ \A m \in IoMaps : b[m] = bpf[m]
    BY <1>0 DEF IsIo, IoMaps
  <2>3. bpf' = u /\ UNCHANGED machine /\ happened' = <<>>
    <3>1. kvm_entry_snapshot(b, o) = c
      BY <2>1 DEF kvm_entry_snapshot
    <3>2. kvm_exit_snapshot(c, o) = u
      BY <2>1 DEF kvm_exit_snapshot
    <3> QED
      BY <2>0, <3>1, <3>2 DEF OtherVcpu
  <2>4. c = lab_map_update(b, "current_vcpu", o, o) /\ d = lab_map_update(c, "vmexit_counters", o, n)
        /\ u = lab_map_update(d, "current_vmexit", o, n)
    OBVIOUS
  <2>5. "current_vcpu" \in IoMaps /\ "vmexit_counters" \in IoMaps /\ "current_vmexit" \in IoMaps
    BY DEF IoMaps
  <2> HIDE DEF b, c, n, d, u
  <2>6. SameForVmm(b, c) /\ IsIo(c)
    <3>1. SameForVmm(b, c)
      BY <2>1, <2>2, <2>4, <2>5, OtherKey
    <3> QED
      BY <3>1 DEF SameForVmm
  <2>7. SameForVmm(c, d) /\ IsIo(d)
    BY <2>1, <2>4, <2>5, <2>6, OtherKey DEF SameForVmm
  <2>8. SameForVmm(d, u)
    BY <2>1, <2>4, <2>5, <2>7, OtherKey
  <2>9. SameForVmm(b, u)
    BY <2>6, <2>7, <2>8 DEF SameForVmm
  <2> QED
    BY <1>0, <2>2, <2>3, <2>9, MachineRests
<1> QED
  BY <1>1, <1>2

-----------------------------------------------------------------------------
\* A command that runs has been counted.
Busy == Executing => count.ops # 0

LEMMA BusyIsInductive ==
  ASSUME ToyInv, Busy, [ToyNext]_toy_vars
  PROVE  Busy'
<1>0. ToyTypes
  BY DEF ToyInv
<1>1. CASE CommandWrite
  BY <1>0, <1>1 DEF CommandWrite, ToyTypes, Busy
<1>2. CASE \E ok \in BOOLEAN : device_signal_msi(ok) \/ \E level \in 0 .. 1 : device_raise_legacy_irq(level, ok)
  BY <1>0, <1>2 DEF device_signal_msi, device_raise_legacy_irq, ToyTypes, Busy, Executing
<1>3. CASE \/ \E ok \in BOOLEAN : SetUp(ok) \/ KvmRun(ok)
           \/ device_mmio_read \/ RegisterWrite \/ CommandReturns \/ PortWrite
  <2>1. vmm'.pc \in {"setup", "failed", "loop", "guest", "done"}
    BY <1>0, <1>3 DEF SetUp, KvmRun, device_mmio_read, RegisterWrite, CommandReturns, PortWrite, ToyTypes
  <2> QED
    BY <2>1 DEF Busy, Executing
<1>4. CASE GuestStep
  <2>1. vmm'.pc \in {"guest", "exit"}
    <3>1. vmm.pc = "guest"
      BY <1>4 DEF GuestStep, ApicSetup, StiCli, Marker, Command, SetGpa, WaitEnds, Verify, Done, Halt,
         Inject, IsrStatus, IsrAck, IsrEoi, At, InIsr
    <3>2. vmm' = vmm \/ vmm' = [vmm EXCEPT !.pc = "exit"]
      BY <1>4 DEF GuestStep, ApicSetup, StiCli, Marker, Command, SetGpa, WaitEnds, Verify, Done, Halt,
         Inject, IsrStatus, IsrAck, IsrEoi, InKernel, ToUserspace, NoExit
    <3> QED
      BY <1>0, <3>1, <3>2 DEF ToyTypes
  <2> QED
    BY <2>1 DEF Busy, Executing
<1>5. CASE UNCHANGED machine
  BY <1>5 DEF machine, Busy, Executing
<1> QED
  BY <1>1, <1>2, <1>3, <1>4, <1>5 DEF ToyNext, VmmStep, OtherVcpu, RingTurns, toy_vars

LEMMA TraceIsInductive ==
  ASSUME ToyInv, Busy, TraceInv, [ToyNext]_toy_vars
  PROVE  TraceInv'
<1>1. CASE VmmStep
  <2>1. ASSUME NEW ok \in BOOLEAN, SetUp(ok) PROVE TraceInv'
    BY <2>1, UnseenSteps, CallSteps
  <2>2. ASSUME NEW ok \in BOOLEAN, KvmRun(ok) PROVE TraceInv'
    BY <2>2, EnterStep, CallSteps
  <2>3. ASSUME NEW ok \in BOOLEAN,
               device_signal_msi(ok) \/ \E level \in 0 .. 1 : device_raise_legacy_irq(level, ok)
        PROVE  TraceInv'
    BY <2>3, CallSteps
  <2>4. CASE CommandReturns
    <3>1. count.ops # 0
      BY <2>4 DEF CommandReturns, Busy, Executing
    <3> QED
      BY <2>4, <3>1, ReturnStep
  <2>5. CASE device_mmio_read \/ PortWrite
    BY <2>5, UnseenSteps
  <2>6. CASE RegisterWrite
    BY <2>6, ToldSteps
  <2>7. CASE CommandWrite
    BY <2>7, CommandStep
  <2> QED
    BY <1>1, <2>1, <2>2, <2>3, <2>4, <2>5, <2>6, <2>7 DEF VmmStep
<1>2. CASE GuestStep
  <2>1. CASE ApicSetup \/ Halt \/ (IsrEoi /\ ~apicv)
    BY <2>1, KernelExitSteps
  <2>2. CASE Marker \/ Command \/ SetGpa \/ Done \/ IsrStatus \/ IsrAck
    BY <2>2, UserExitSteps
  <2>3. CASE StiCli \/ WaitEnds \/ Verify \/ ((Inject \/ IsrEoi) /\ apicv)
    BY <2>3, UnseenSteps
  <2>4. CASE Inject /\ ~apicv
    BY <2>4, ToldSteps
  <2> QED
    BY <1>2, <2>1, <2>2, <2>3, <2>4 DEF GuestStep
<1>3. CASE (\E o \in Others : OtherVcpu(o)) \/ RingTurns
  BY <1>3, SurroundingSteps
<1>4. CASE UNCHANGED toy_vars
  BY <1>4 DEF toy_vars, machine, TraceInv, MapsInv, TraceExact, Agree, Operation, Executing
<1> QED
  BY <1>1, <1>2, <1>3, <1>4 DEF ToyNext

LEMMA TraceAtStart ==
  ASSUME ToyInit
  PROVE  TraceInv /\ Busy
<1>0. bpf = Loaded(IoMaps) /\ happened = <<>>
  BY DEF ToyInit
<1>1. /\ DOMAIN bpf = IoMaps \cup {"out", "full", "lost"} /\ bpf.out = <<>> /\ bpf.lost = FALSE
      /\ \A m \in IoMaps : bpf[m] = Empty
  BY <1>0 DEF Loaded, IoMaps
<1>2. \A m \in IoMaps : Here(bpf, m, "vmm") = {}
  BY <1>1, FreshMap
<1>3. vmm.pc = "setup" /\ count.exits = 0 /\ count.calls = 0 /\ count.ops = 0
  BY DEF ToyInit
<1>4. Agree(bpf, 0, 0, 0, 0)
  BY <1>2 DEF Agree, Counted, IoMaps
<1>5. Here(bpf, "ioctl_calls", "vmm") = {}
  BY <1>2 DEF IoMaps
<1>6. ~Executing /\ Operation = 0
  BY <1>3 DEF Executing, Operation
<1>7. MapsInv
  BY <1>1, <1>3, <1>4, <1>5, <1>6 DEF MapsInv, IsIo
<1> QED
  BY <1>0, <1>1, <1>6, <1>7 DEF TraceInv, TraceExact, Busy

(* The programs of io.bpf.c, with maps of any size, whatever system calls fail, while other
   virtual machines run and however slowly the ring is drained: unless a drop or a failed update
   was counted, the records of a step are exactly those of what happened in it, in order, with
   the VM exit, the device command, the ioctl and the saved arguments they belong to. *)
THEOREM ToyTraceIsExact == ToySpec => []TraceExact
<1>1. ToyInit => ToyInv /\ Busy /\ TraceInv
  BY ToyInvAtStart, TraceAtStart
<1>2. ToyInv /\ Busy /\ TraceInv /\ [ToyNext]_toy_vars => (ToyInv /\ Busy /\ TraceInv)'
  BY ToyInvIsInductive, BusyIsInductive, TraceIsInductive
<1>3. TraceInv => TraceExact
  BY DEF TraceInv
<1> QED
  BY <1>1, <1>2, <1>3, PTL DEF ToySpec
=============================================================================
