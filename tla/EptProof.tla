------------------------------ MODULE EptProof ------------------------------
(***************************************************************************)
(* The virt-ept experiment, whatever calls fail and whatever the ring and  *)
(* the other machines do: the guest keeps its memory while the VMM         *)
(* replaces what is behind it.                                             *)
(***************************************************************************)
EXTENDS EptVmm, TLAPS

-----------------------------------------------------------------------------
(* The layout and the programs *)

Memories == {"guest", "replacement", "huge"}
Pairs    == Memories \X {0, 1}

LEMMA ThreeLevels ==
  /\ Levels = 3 /\ Gfns = 0 .. 7 /\ Span(1) = 1 /\ Span(2) = 2 /\ Span(3) = 4
  /\ MaxFaults \in Nat
<1>1. Levels = 3 /\ MaxFaults \in Nat
  BY EptAssumption
<1>2. 2 ^ 0 = 1 /\ 2 ^ 1 = 2 /\ 2 ^ 2 = 4 /\ 2 ^ 3 = 8
  OBVIOUS
<1>3. Span(1) = 2 ^ 0 /\ Span(2) = 2 ^ 1 /\ Span(3) = 2 ^ 2
  BY DEF Span
<1>4. Gfns = 0 .. 8 - 1
  BY <1>1, <1>2 DEF Gfns
<1> QED
  BY <1>1, <1>2, <1>3, <1>4

LEMMA Instructions ==
  /\ Program[1] = Op("cpuid", 0) /\ Program[2] = Op("write", 1) /\ Program[3] = Op("control", 1)
  /\ Program[4] = Op("write", 1) /\ Program[5] = Op("control", 2) /\ Program[6] = Op("write", 1)
  /\ Program[7] = Op("control", 3) /\ Program[8] = Op("write", 1) /\ Program[9] = Op("mmio", 3)
  /\ Program[10] = Op("control", 4) /\ Program[11] = Op("write", 4) /\ Program[12] = Op("control", 5)
  /\ Program[13] = Op("write", 5) /\ Program[14] = Op("close", 0)
BY DEF Program, DATA_GFN, MMIO_GFN, HUGE_GFN

LEMMA SetUpCalls ==
  /\ Len(Calls) = 13 /\ Calls[6] = "fopen" /\ Calls[7] = "region"
  /\ \A i \in 1 .. 13 : i # 6 => Calls[i] # "fopen"
  /\ \A i \in 1 .. 13 : i # 7 => Calls[i] # "region"
<1>1. Len(Calls) = 13 /\ Calls[6] = "fopen" /\ Calls[7] = "region"
  BY DEF Calls
<1>2. /\ Calls[1] = "open" /\ Calls[2] = "KVM_GET_API_VERSION" /\ Calls[3] = "KVM_CREATE_VM"
      /\ Calls[4] = "mmap" /\ Calls[5] = "mmap" /\ Calls[8] = "KVM_CREATE_VCPU"
      /\ Calls[9] = "KVM_GET_VCPU_MMAP_SIZE" /\ Calls[10] = "mmap" /\ Calls[11] = "KVM_GET_SREGS"
      /\ Calls[12] = "KVM_SET_SREGS" /\ Calls[13] = "KVM_SET_REGS"
  BY DEF Calls
<1>3. ASSUME NEW i \in 1 .. 13
      PROVE  i \in {1, 2, 3, 4, 5} \/ i \in {6, 7} \/ i \in {8, 9, 10, 11, 12, 13}
  OBVIOUS
<1> QED
  BY <1>1, <1>2, <1>3

\* What is left of a list of up to four steps.
LEMMA Rest1 == \A a : Head(<<a>>) = a /\ Tail(<<a>>) = <<>>
OBVIOUS

LEMMA Rest2 == \A a, b : Head(<<a, b>>) = a /\ Tail(<<a, b>>) = <<b>>
OBVIOUS

LEMMA Rest3 == \A a, b, c : Head(<<a, b, c>>) = a /\ Tail(<<a, b, c>>) = <<b, c>>
OBVIOUS

LEMMA Rest4 == \A a, b, c, d : Head(<<a, b, c, d>>) = a /\ Tail(<<a, b, c, d>>) = <<b, c, d>>
OBVIOUS

-----------------------------------------------------------------------------
(***************************************************************************)
(* The guest's memory.                                                     *)
(*                                                                         *)
(* GuestMemorySurvives speaks of the moments at which the guest runs.      *)
(* Between them a command works on the slots, so MemoryInv follows every   *)
(* step of it: which slots there are and what is behind them is a function *)
(* of the step (SlotsInv), the frames of the three memories are distinct   *)
(* and a frame not yet used is zero (FramesInv), active_mem holds what the *)
(* guest must find (ContentInv), and the EPT translates nothing but what   *)
(* is behind an existing slot (FlatInv).  A run in which a call failed is  *)
(* over (Stopped).                                                         *)
(***************************************************************************)

Drop      == <<Call("dontneed")>>
Move1     == <<Call("memcpy"), Region(0, "none", FALSE), Region(0, "replacement", FALSE), Call("switch")>>
Move2     == <<Region(0, "none", FALSE), Region(0, "replacement", FALSE), Call("switch")>>
Move3     == <<Region(0, "replacement", FALSE), Call("switch")>>
Move4     == <<Call("switch")>>
Log1(mem) == <<Region(0, mem, TRUE), Call("clear")>>
Log2      == <<Call("clear")>>
Huge1     == <<Call("mmap"), Call("align"), Call("hugepage"), Region(1, "huge", FALSE)>>
Huge2     == <<Call("align"), Call("hugepage"), Region(1, "huge", FALSE)>>
Huge3     == <<Call("hugepage"), Region(1, "huge", FALSE)>>
Huge4     == <<Region(1, "huge", FALSE)>>
Split1    == <<Region(1, "huge", TRUE)>>

VmmFields   == {"pc", "i", "command", "op", "todo", "failed"}
CountFields == {"ioctl", "madvise", "mmap", "ops", "entries"}

\* The run is over, or about to be after a failed command.
Stopped ==
  \/ vmm.pc \in {"failed", "done"}
  \/ vmm.pc = "control" /\ vmm.failed /\ vmm.todo = <<>>

InCommand ==
  \/ guest = 4 /\ vmm.todo \in {Drop, <<>>}
  \/ guest = 6 /\ vmm.todo \in {Move1, Move2, Move3, Move4, <<>>}
  \/ guest = 8 /\ vmm.todo \in {Log1(active_mem), Log2, <<>>}
  \/ guest = 11 /\ vmm.todo \in {Huge1, Huge2, Huge3, Huge4, <<>>}
  \/ guest = 13 /\ vmm.todo \in {Split1, <<>>}

PlaceInv ==
  /\ DOMAIN vmm = VmmFields /\ DOMAIN count = CountFields
  /\ vmm.failed = FALSE
  /\ vmm.i \in 1 .. 13
  /\ \/ vmm.pc = "loader" /\ vmm.i = 1 /\ guest = 1
     \/ vmm.pc = "setup" /\ guest = 1
     \/ vmm.pc = "loop" /\ guest \in {1, 4, 6, 8, 10, 11, 13}
     \/ vmm.pc = "guest" /\ guest \in 1 .. 14
     \/ vmm.pc = "exit" /\ guest \in {4, 6, 8, 10, 11, 13, 15}
     \/ vmm.pc = "control" /\ InCommand

Before(i) == vmm.pc = "loader" \/ (vmm.pc = "setup" /\ vmm.i <= i)

\* The command of this place is in progress with n steps to come.
Doing(place, n) == vmm.pc = "control" /\ guest = place /\ Len(vmm.todo) = n
Copied == Doing(6, 3) \/ Doing(6, 2) \/ Doing(6, 1)

\* madvise(MADV_DONTNEED) is the first of the two calls.
MadviseInv ==
  /\ count.madvise \in Nat
  /\ count.madvise = 0 <=>
       \/ guest < 4
       \/ (guest = 4 /\ vmm.pc = "exit") \/ Doing(4, 1)
  /\ active_mem \in {"guest", "replacement"}
  /\ guest < 6 => active_mem = "guest"

\* The second slot is there after the fourth command.
HasHuge == \/ guest >= 12
           \/ guest = 11 /\ (vmm.pc \in {"loop", "guest"} \/ Doing(11, 0))

SlotsInv ==
  /\ DOMAIN slots \subseteq {0, 1}
  /\ 0 \in DOMAIN slots <=> ~Before(7) /\ ~Doing(6, 2)
  /\ 0 \in DOMAIN slots => slots[0].mem = IF Doing(6, 1) THEN "replacement" ELSE active_mem
  /\ 1 \in DOMAIN slots <=> HasHuge
  /\ 1 \in DOMAIN slots => slots[1].mem = "huge"

FramesInv ==
  /\ host \in [Pairs -> 0 .. 8] /\ page \in [1 .. 8 -> Nat]
  /\ host[<<"guest", 0>>] \in {0, 1} /\ host[<<"guest", 1>>] \in {0, 2, 3}
  /\ host[<<"replacement", 0>>] \in {0, 4} /\ host[<<"replacement", 1>>] \in {0, 5}
  /\ host[<<"huge", 0>>] \in {0, 6} /\ host[<<"huge", 1>>] \in {0, 7, 8}
  /\ ~Before(6) => host[<<"guest", 0>>] = 1
  /\ active_mem = "replacement" \/ Copied =>
       host[<<"replacement", 0>>] = 4 /\ host[<<"replacement", 1>>] = 5
  /\ 4 \in DOMAIN expected =>
       host[<<"huge", 0>>] = 6 /\ host[<<"huge", 1>>] # 0 /\ (thp => host[<<"huge", 1>>] = 7)
  /\ count.madvise = 0 => page[3] = ZERO /\ host[<<"guest", 1>>] # 3
  /\ host[<<"guest", 1>>] = 0 => page[IF count.madvise = 0 THEN 2 ELSE 3] = ZERO

Keeps(mem) == expected[0] = Contents(mem, 0) /\ expected[1] = Contents(mem, 1)

ContentInv ==
  /\ DOMAIN expected = IF HasHuge \/ Doing(11, 1) THEN {0, 1, 4, 5} ELSE {0, 1}
  /\ \A g \in DOMAIN expected : expected[g] \in Nat
  /\ Before(6) => expected[0] = CODE /\ expected[1] = ZERO /\ \A x \in Pairs : host[x] = 0
  /\ ~Before(6) => Keeps(active_mem)
  /\ Copied => Keeps("replacement")
  /\ 4 \in DOMAIN expected => expected[4] = Contents("huge", 0) /\ expected[5] = Contents("huge", 1)

\* Frame g with translation f, when s are the slots, h the host frames and l the use of large pages.
Translates(f, g, s, h, l) ==
  /\ f.mapped \in BOOLEAN
  /\ f.mapped => /\ SlotOf(g) \in DOMAIN s /\ f.pfn # 0
                 /\ f.pfn = h[<<s[SlotOf(g)].mem, PageOf(g)>>]
  /\ f.level = 2 => f.mapped /\ l /\ g > 1

FlatInv ==
  /\ DOMAIN ept = {"tree", "flat"} /\ DOMAIN ept.flat = Gfns
  /\ thp \in BOOLEAN
  /\ \A g \in Backed : Translates(ept.flat[g], g, slots, host, thp)

GoodInv == PlaceInv /\ MadviseInv /\ SlotsInv /\ FramesInv /\ ContentInv /\ FlatInv
MemoryInv == Stopped \/ GoodInv

LEMMA Lengths ==
  /\ Len(<<>>) = 0 /\ Len(Drop) = 1
  /\ Len(Move1) = 4 /\ Len(Move2) = 3 /\ Len(Move3) = 2 /\ Len(Move4) = 1
  /\ \A mem : Len(Log1(mem)) = 2
  /\ Len(Log2) = 1
  /\ Len(Huge1) = 4 /\ Len(Huge2) = 3 /\ Len(Huge3) = 2 /\ Len(Huge4) = 1 /\ Len(Split1) = 1
BY DEF Drop, Move1, Move2, Move3, Move4, Log1, Log2, Huge1, Huge2, Huge3, Huge4, Split1

LEMMA CallsOf ==
  /\ \A c : Call(c).call = c
  /\ \A s, m, l : /\ Region(s, m, l).call = "region" /\ Region(s, m, l).slot = s
                  /\ Region(s, m, l).mem = m /\ Region(s, m, l).log = l
BY DEF Call, Region

\* What the first step of a list is, and what comes after it.
LEMMA FirstSteps ==
  /\ Head(Drop) = Call("dontneed") /\ Tail(Drop) = <<>>
  /\ Head(Move1) = Call("memcpy") /\ Tail(Move1) = Move2
  /\ Head(Move2) = Region(0, "none", FALSE) /\ Tail(Move2) = Move3
  /\ Head(Move3) = Region(0, "replacement", FALSE) /\ Tail(Move3) = Move4
  /\ Head(Move4) = Call("switch") /\ Tail(Move4) = <<>>
  /\ \A mem : Head(Log1(mem)) = Region(0, mem, TRUE) /\ Tail(Log1(mem)) = Log2
  /\ Head(Log2) = Call("clear") /\ Tail(Log2) = <<>>
  /\ Head(Huge1) = Call("mmap") /\ Tail(Huge1) = Huge2
  /\ Head(Huge2) = Call("align") /\ Tail(Huge2) = Huge3
  /\ Head(Huge3) = Call("hugepage") /\ Tail(Huge3) = Huge4
  /\ Head(Huge4) = Region(1, "huge", FALSE) /\ Tail(Huge4) = <<>>
  /\ Head(Split1) = Region(1, "huge", TRUE) /\ Tail(Split1) = <<>>
<1>1. Head(Drop) = Call("dontneed") /\ Tail(Drop) = <<>>
  BY Rest1, Zenon DEF Drop
<1>2. Head(Move1) = Call("memcpy") /\ Tail(Move1) = Move2
  BY Rest4, Zenon DEF Move1, Move2
<1>3. Head(Move2) = Region(0, "none", FALSE) /\ Tail(Move2) = Move3
  BY Rest3, Zenon DEF Move2, Move3
<1>4. Head(Move3) = Region(0, "replacement", FALSE) /\ Tail(Move3) = Move4
  BY Rest2, Zenon DEF Move3, Move4
<1>5. Head(Move4) = Call("switch") /\ Tail(Move4) = <<>>
  BY Rest1, Zenon DEF Move4
<1>6. Head(Log2) = Call("clear") /\ Tail(Log2) = <<>>
  BY Rest1, Zenon DEF Log2
<1>7. Head(Huge1) = Call("mmap") /\ Tail(Huge1) = Huge2
  BY Rest4, Zenon DEF Huge1, Huge2
<1>8. Head(Huge2) = Call("align") /\ Tail(Huge2) = Huge3
  BY Rest3, Zenon DEF Huge2, Huge3
<1>9. Head(Huge3) = Call("hugepage") /\ Tail(Huge3) = Huge4
  BY Rest2, Zenon DEF Huge3, Huge4
<1>10. Head(Huge4) = Region(1, "huge", FALSE) /\ Tail(Huge4) = <<>>
  BY Rest1, Zenon DEF Huge4
<1>11. Head(Split1) = Region(1, "huge", TRUE) /\ Tail(Split1) = <<>>
  BY Rest1, Zenon DEF Split1
<1>12. \A mem : Head(Log1(mem)) = Region(0, mem, TRUE) /\ Tail(Log1(mem)) = Log2
  BY Rest2, Zenon DEF Log1, Log2
<1> QED
  BY <1>1, <1>2, <1>3, <1>4, <1>5, <1>6, <1>7, <1>8, <1>9, <1>10, <1>11, <1>12

LEMMA Kinds ==
  /\ Head(Drop).call = "dontneed" /\ Head(Move1).call = "memcpy" /\ Head(Move2).call = "region"
  /\ Head(Move3).call = "region" /\ Head(Move4).call = "switch"
  /\ \A mem : Head(Log1(mem)).call = "region"
  /\ Head(Log2).call = "clear" /\ Head(Huge1).call = "mmap" /\ Head(Huge2).call = "align"
  /\ Head(Huge3).call = "hugepage" /\ Head(Huge4).call = "region" /\ Head(Split1).call = "region"
<1>1. \A c : Call(c).call = c
  BY CallsOf
<1>2. \A s, m, l : Region(s, m, l).call = "region"
  BY CallsOf
<1>3. Head(Drop).call = "dontneed"
  BY <1>1, FirstSteps, Zenon
<1>4. Head(Move1).call = "memcpy"
  BY <1>1, FirstSteps, Zenon
<1>5. Head(Move2).call = "region"
  BY <1>2, FirstSteps, Zenon
<1>6. Head(Move3).call = "region"
  BY <1>2, FirstSteps, Zenon
<1>7. Head(Move4).call = "switch"
  BY <1>1, FirstSteps, Zenon
<1>8. Head(Log2).call = "clear"
  BY <1>1, FirstSteps, Zenon
<1>9. Head(Huge1).call = "mmap"
  BY <1>1, FirstSteps, Zenon
<1>10. Head(Huge2).call = "align"
  BY <1>1, FirstSteps, Zenon
<1>11. Head(Huge3).call = "hugepage"
  BY <1>1, FirstSteps, Zenon
<1>12. Head(Huge4).call = "region"
  BY <1>2, FirstSteps, Zenon
<1>13. Head(Split1).call = "region"
  BY <1>2, FirstSteps, Zenon
<1>14. ASSUME NEW mem
       PROVE  Head(Log1(mem)).call = "region"
  <2>1. Head(Log1(mem)) = Region(0, mem, TRUE)
    BY FirstSteps
  <2> QED
    BY <1>2, <2>1, Zenon
<1> QED
  BY <1>3, <1>4, <1>5, <1>6, <1>7, <1>8, <1>9, <1>10, <1>11, <1>12, <1>13, <1>14

\* Which step of which command is next when it is a step of this kind.
LEMMA NextStep ==
  ASSUME PlaceInv, NEW c, AtStep(c)
  PROVE  /\ c = "dontneed" => guest = 4 /\ vmm.todo = Drop
         /\ c = "memcpy" => guest = 6 /\ vmm.todo = Move1
         /\ c = "switch" => guest = 6 /\ vmm.todo = Move4
         /\ c = "clear" => guest = 8 /\ vmm.todo = Log2
         /\ c = "mmap" => guest = 11 /\ vmm.todo = Huge1
         /\ c = "align" => guest = 11 /\ vmm.todo = Huge2
         /\ c = "hugepage" => guest = 11 /\ vmm.todo = Huge3
         /\ c = "region" => \/ guest = 6 /\ vmm.todo \in {Move2, Move3}
                            \/ guest = 8 /\ vmm.todo = Log1(active_mem)
                            \/ guest = 11 /\ vmm.todo = Huge4
                            \/ guest = 13 /\ vmm.todo = Split1
<1>1. vmm.pc = "control" /\ InCommand /\ vmm.todo # <<>> /\ Head(vmm.todo).call = c
  BY DEF PlaceInv, AtStep
<1>2. CASE guest = 4
  BY <1>1, <1>2, Kinds DEF InCommand
<1>3. CASE guest = 6
  BY <1>1, <1>3, Kinds DEF InCommand
<1>4. CASE guest = 8
  BY <1>1, <1>4, Kinds DEF InCommand
<1>5. CASE guest = 11
  BY <1>1, <1>5, Kinds DEF InCommand
<1>6. CASE guest = 13
  BY <1>1, <1>6, Kinds DEF InCommand
<1> QED
  BY <1>1, <1>2, <1>3, <1>4, <1>5, <1>6 DEF InCommand

\* A step that leaves the memory alone.
LEMMA MemoryStays ==
  ASSUME GoodInv, PlaceInv', MadviseInv', UNCHANGED <<slots, active_mem, thp, host, page, ept, expected>>,
         Before(6)' <=> Before(6), Before(7)' <=> Before(7), HasHuge' <=> HasHuge,
         Doing(6, 3)' <=> Doing(6, 3), Doing(6, 2)' <=> Doing(6, 2), Doing(6, 1)' <=> Doing(6, 1),
         Doing(11, 1)' <=> Doing(11, 1), (count.madvise = 0)' <=> count.madvise = 0
  PROVE  GoodInv'
<1>1. SlotsInv'
  BY DEF GoodInv, SlotsInv
<1>2. Copied' <=> Copied
  BY DEF Copied
<1>3. FramesInv'
  BY <1>2 DEF GoodInv, FramesInv
<1>4. Keeps(active_mem)' <=> Keeps(active_mem)
  BY DEF Keeps, Contents
<1>5. Keeps("replacement")' <=> Keeps("replacement")
  BY DEF Keeps, Contents
<1>6. Contents("huge", 0)' = Contents("huge", 0) /\ Contents("huge", 1)' = Contents("huge", 1)
  BY DEF Contents
<1>7. ContentInv'
  BY <1>2, <1>4, <1>5, <1>6 DEF GoodInv, ContentInv
<1>8. FlatInv'
  BY DEF GoodInv, FlatInv, Translates
<1> QED
  BY <1>1, <1>3, <1>7, <1>8 DEF GoodInv

NoLeaf(f) == f.mapped = FALSE /\ f.level = 0

LEMMA UnmappedTranslates ==
  /\ NoLeaf(Unmapped)
  /\ \A f, g, s, h, l : NoLeaf(f) => Translates(f, g, s, h, l)
<1>1. NoLeaf(Unmapped)
  BY DEF Unmapped, NoLeaf
<1>2. ASSUME NEW f, NoLeaf(f)
      PROVE  f.mapped \in BOOLEAN /\ ~f.mapped /\ ~(f.level = 2)
  <2>1. ~(f.level = 2)
    BY <1>2 DEF NoLeaf
  <2>2. f.mapped \in BOOLEAN /\ ~f.mapped
    BY <1>2, Zenon DEF NoLeaf
  <2> QED
    BY <2>1, <2>2
<1>3. \A f, g, s, h, l : NoLeaf(f) => Translates(f, g, s, h, l)
  BY <1>2, Zenon DEF Translates
<1> QED
  BY <1>1, <1>3

LEMMA MemoryAtStart == EptInit => GoodInv
<1> SUFFICES ASSUME EptInit PROVE GoodInv
  OBVIOUS
<1> USE DEF EptInit
<1>0. Before(6) /\ Before(7) /\ ~Copied /\ ~HasHuge /\ ~Doing(11, 1) /\ ~Doing(6, 2) /\ ~Doing(6, 1) /\ ~Doing(4, 1)
  BY DEF Before, Copied, HasHuge, Doing
<1>1. PlaceInv
  BY DEF PlaceInv, VmmFields, CountFields
<1>2. MadviseInv
  BY DEF MadviseInv
<1>3. SlotsInv
  BY <1>0 DEF SlotsInv, Empty
<1>4. host \in [Pairs -> {0}] /\ page \in [1 .. 8 -> {0}] /\ \A x \in Pairs : host[x] = 0
  BY DEF Pairs, Memories, ZERO
<1>5. DOMAIN expected = {0, 1} /\ expected[0] = CODE /\ expected[1] = ZERO
  BY DEF DATA_GFN
<1>6. FramesInv
  <2>1. host[<<"guest", 0>>] = 0 /\ host[<<"guest", 1>>] = 0 /\ host[<<"replacement", 0>>] = 0
        /\ host[<<"replacement", 1>>] = 0 /\ host[<<"huge", 0>>] = 0 /\ host[<<"huge", 1>>] = 0
    BY <1>4 DEF Pairs, Memories
  <2>2. page \in [1 .. 8 -> Nat] /\ host \in [Pairs -> 0 .. 8]
    BY <1>4
  <2>3. active_mem # "replacement"
    OBVIOUS
  <2> HIDE DEF EptInit
  <2>4. 4 \notin DOMAIN expected
    BY <1>5
  <2> QED
    BY <1>0, <1>4, <2>1, <2>2, <2>3, <2>4 DEF FramesInv, ZERO
<1>7. ContentInv
  <2> HIDE DEF EptInit
  <2>1. \A g \in DOMAIN expected : expected[g] \in Nat
    BY <1>5 DEF ZERO, CODE
  <2>2. 4 \notin DOMAIN expected
    BY <1>5
  <2> QED
    BY <1>0, <1>4, <1>5, <2>1, <2>2 DEF ContentInv
<1>8. FlatInv
  <2>0. thp \in BOOLEAN
    OBVIOUS
  <2>1. DOMAIN ept = {"tree", "flat"} /\ DOMAIN ept.flat = Gfns /\ \A g \in Gfns : ept.flat[g] = Unmapped
    OBVIOUS
  <2> HIDE DEF EptInit
  <2>2. Backed \subseteq Gfns
    BY ThreeLevels DEF Backed, DATA_GFN, HUGE_GFN
  <2> QED
    BY <2>0, <2>1, <2>2, UnmappedTranslates DEF FlatInv
<1> QED
  BY <1>1, <1>2, <1>3, <1>6, <1>7, <1>8 DEF GoodInv

\* Once over, it stays over.
LEMMA StoppedStays ==
  ASSUME Stopped, [EptNext]_ept_vars
  PROVE  Stopped'
<1>1. CASE UNCHANGED vmm
  BY <1>1 DEF Stopped
<1>2. ASSUME NEW c
      PROVE  ~AtStep(c)
  BY DEF Stopped, AtStep
<1>3. CASE VmmStep
  <2>1. CASE vmm.pc \in {"failed", "done"}
    BY <1>2, <1>3, <2>1 DEF VmmStep, SetUp, SetUpRegion, KvmRun, DontNeed, ClearDirtyLog, MmapHuge, Align,
       HugePage, SlotStep, Loader, ControlBegin, Memcpy, Switch, ControlEnd, Exit
  <2>2. CASE vmm.pc = "control" /\ vmm.failed /\ vmm.todo = <<>>
    <3>1. ControlEnd
      BY <1>2, <1>3, <2>2 DEF VmmStep, SetUp, SetUpRegion, KvmRun, DontNeed, ClearDirtyLog, MmapHuge, Align,
         HugePage, SlotStep, Loader, ControlBegin, Memcpy, Switch, Exit
    <3>2. vmm' = [vmm EXCEPT !.pc = "failed", !.command = 0]
      BY <2>2, <3>1 DEF ControlEnd
    <3> QED
      BY <3>2 DEF Stopped
  <2> QED
    BY <2>1, <2>2 DEF Stopped
<1>4. CASE GuestStep
  BY <1>4 DEF Stopped, GuestStep, Cpuid, Write, Out, MmioAccess, PageFault, Ready, At
<1>5. CASE OtherVm \/ RingTurns
  BY <1>1, <1>5 DEF OtherVm, RingTurns
<1> QED
  BY <1>1, <1>3, <1>4, <1>5 DEF EptNext, ept_vars

-----------------------------------------------------------------------------
(* The steps that leave the memory alone *)

\* Where the VMM can be.
LEMMA Places ==
  ASSUME PlaceInv
  PROVE  /\ DOMAIN vmm = VmmFields /\ DOMAIN count = CountFields /\ vmm.failed = FALSE /\ vmm.i \in 1 .. 13
         /\ vmm.pc \in {"loader", "setup"} => guest = 1
         /\ vmm.pc = "loader" => vmm.i = 1
         /\ vmm.pc = "loop" => guest \in {1, 4, 6, 8, 10, 11, 13}
         /\ vmm.pc = "guest" => guest \in 1 .. 14
         /\ vmm.pc = "exit" => guest \in {4, 6, 8, 10, 11, 13, 15}
         /\ vmm.pc = "control" => InCommand /\ guest \in {4, 6, 8, 11, 13}
BY DEF PlaceInv, InCommand

\* Nothing but the place changes, and it is outside a command before and after.
LEMMA OutsideCommands ==
  ASSUME GoodInv, PlaceInv', UNCHANGED <<slots, active_mem, thp, host, page, ept, expected>>,
         count'.madvise = count.madvise, vmm.pc # "control", vmm'.pc # "control",
         Before(6)' <=> Before(6), Before(7)' <=> Before(7), HasHuge' <=> HasHuge,
         (guest' < 4 \/ (guest' = 4 /\ vmm'.pc = "exit")) <=> (guest < 4 \/ (guest = 4 /\ vmm.pc = "exit")),
         guest' < 6 => guest < 6
  PROVE  GoodInv'
<1>1. \A g, n : ~Doing(g, n) /\ ~Doing(g, n)'
  BY DEF Doing
<1>2. MadviseInv'
  BY <1>1 DEF GoodInv, MadviseInv
<1> QED
  BY <1>1, <1>2, MemoryStays

LEMMA LoaderKeeps ==
  ASSUME GoodInv, Loader
  PROVE  GoodInv'
<1>1. /\ vmm.pc = "loader" /\ UNCHANGED <<guest, slots, active_mem, thp, host, page, ept, count, expected>>
      /\ vmm' = vmm \/ vmm' = [vmm EXCEPT !.pc = "setup"]
  BY DEF Loader
<1>2. PlaceInv /\ guest = 1 /\ vmm.i = 1 /\ DOMAIN vmm = VmmFields
  BY <1>1, Places DEF GoodInv
<1>3. DOMAIN vmm' = VmmFields /\ vmm'.pc \in {"loader", "setup"} /\ vmm'.i = vmm.i /\ vmm'.failed = vmm.failed
  BY <1>1, <1>2 DEF VmmFields
<1>4. PlaceInv'
  BY <1>1, <1>2, <1>3 DEF PlaceInv
<1>5. Before(6) /\ Before(7) /\ Before(6)' /\ Before(7)' /\ ~HasHuge /\ ~HasHuge'
  BY <1>1, <1>2, <1>3 DEF Before, HasHuge
<1> QED
  BY <1>1, <1>2, <1>3, <1>4, <1>5, OutsideCommands

\* Where the next call of main() leads.
LEMMA SetUpPlace ==
  ASSUME PlaceInv, vmm.pc = "setup", NEW ok \in BOOLEAN, SetUpMoves(ok), guest' = guest, DOMAIN count' = CountFields
  PROVE  /\ ~ok => Stopped'
         /\ ok => /\ PlaceInv' /\ guest = 1 /\ vmm'.pc \in {"setup", "loop"}
                  /\ vmm'.pc = "setup" <=> vmm.i # 13
                  /\ vmm'.pc = "setup" => vmm'.i = vmm.i + 1
<1>1. DOMAIN vmm = VmmFields /\ vmm.failed = FALSE /\ vmm.i \in 1 .. 13 /\ guest = 1
  BY Places
<1>2. CASE ~ok
  <2>1. vmm' = [vmm EXCEPT !.pc = "failed"]
    BY <1>2 DEF SetUpMoves
  <2> QED
    BY <1>1, <1>2, <2>1 DEF Stopped, VmmFields
<1>3. CASE ok /\ vmm.i = 13
  <2>1. vmm' = [vmm EXCEPT !.pc = "loop"]
    BY <1>3, SetUpCalls DEF SetUpMoves
  <2> QED
    BY <1>1, <1>3, <2>1 DEF PlaceInv, VmmFields
<1>4. CASE ok /\ vmm.i # 13
  <2>1. vmm' = [vmm EXCEPT !.i = vmm.i + 1]
    BY <1>4, SetUpCalls DEF SetUpMoves
  <2>2. DOMAIN vmm' = VmmFields /\ vmm'.pc = "setup" /\ vmm'.failed = FALSE /\ vmm'.i = vmm.i + 1
    BY <1>1, <2>1 DEF VmmFields
  <2>3. vmm'.i \in 1 .. 13
    BY <1>1, <1>4, <2>2
  <2> QED
    BY <1>1, <1>4, <2>2, <2>3 DEF PlaceInv
<1> QED
  BY <1>1, <1>2, <1>3, <1>4

LEMMA KvmRunKeeps ==
  ASSUME GoodInv, NEW ok \in BOOLEAN, KvmRun(ok)
  PROVE  MemoryInv'
<1>1. /\ vmm.pc = "loop" /\ UNCHANGED <<guest, slots, active_mem, thp, host, page, ept, expected>>
      /\ vmm' = [vmm EXCEPT !.pc = IF ok THEN "guest" ELSE "failed"]
      /\ count' = [count EXCEPT !.ioctl = @ + 1, !.entries = IF ok THEN 1 ELSE @]
  BY DEF KvmRun
<1>2. /\ DOMAIN vmm = VmmFields /\ DOMAIN count = CountFields /\ vmm.failed = FALSE /\ vmm.i \in 1 .. 13
      /\ guest \in {1, 4, 6, 8, 10, 11, 13}
  BY <1>1, Places DEF GoodInv
<1>3. /\ DOMAIN vmm' = VmmFields /\ vmm'.pc = (IF ok THEN "guest" ELSE "failed") /\ vmm'.i = vmm.i
      /\ vmm'.failed = FALSE
  BY <1>1, <1>2 DEF VmmFields
<1>4. DOMAIN count' = CountFields /\ count'.madvise = count.madvise
  BY <1>1, <1>2 DEF CountFields
<1>5. CASE ok
  <2>1. PlaceInv'
    BY <1>1, <1>2, <1>3, <1>4, <1>5 DEF PlaceInv
  <2>2. ~Before(6) /\ ~Before(7) /\ ~Before(6)' /\ ~Before(7)' /\ (HasHuge' <=> HasHuge)
    BY <1>1, <1>3, <1>5 DEF Before, HasHuge, Doing
  <2>3. GoodInv'
    BY <1>1, <1>2, <1>3, <1>4, <1>5, <2>1, <2>2, OutsideCommands
  <2> QED
    BY <2>3 DEF MemoryInv
<1>6. CASE ~ok
  BY <1>3, <1>6 DEF MemoryInv, Stopped
<1> QED
  BY <1>5, <1>6

LEMMA ExitKeeps ==
  ASSUME GoodInv, Exit
  PROVE  MemoryInv'
<1> DEFINE op == Program[guest - 1].op
<1>1. /\ vmm.pc = "exit" /\ UNCHANGED <<guest, slots, active_mem, thp, host, page, ept, count, expected>>
      /\ op \in {"mmio", "close"}
      /\ vmm' = [vmm EXCEPT !.pc = IF op = "close" THEN "done" ELSE "loop"]
  BY DEF Exit
<1>2. /\ DOMAIN vmm = VmmFields /\ DOMAIN count = CountFields /\ vmm.failed = FALSE /\ vmm.i \in 1 .. 13
      /\ guest \in {4, 6, 8, 10, 11, 13, 15}
  BY <1>1, Places DEF GoodInv
<1>3. op = "mmio" => guest = 10
  BY <1>1, <1>2, Instructions DEF Op
<1> HIDE DEF op
<1>4. CASE op = "close"
  BY <1>1, <1>2, <1>4 DEF MemoryInv, Stopped, VmmFields
<1>5. CASE op = "mmio"
  <2>1. /\ DOMAIN vmm' = VmmFields /\ vmm'.pc = "loop" /\ vmm'.i = vmm.i /\ vmm'.failed = FALSE /\ guest = 10
    BY <1>1, <1>2, <1>3, <1>5 DEF VmmFields
  <2>2. PlaceInv'
    BY <1>1, <1>2, <2>1 DEF PlaceInv
  <2>3. ~Before(6) /\ ~Before(7) /\ ~Before(6)' /\ ~Before(7)' /\ ~HasHuge' /\ ~HasHuge
    BY <1>1, <2>1 DEF Before, HasHuge, Doing
  <2>4. GoodInv'
    BY <1>1, <2>1, <2>2, <2>3, OutsideCommands
  <2> QED
    BY <2>4 DEF MemoryInv
<1> QED
  BY <1>1, <1>4, <1>5

LEMMA CommandSteps ==
  /\ handle_control_command(1) = Drop /\ handle_control_command(2) = Move1
  /\ handle_control_command(3) = Log1(active_mem) /\ handle_control_command(4) = Huge1
  /\ handle_control_command(5) = Split1
BY DEF handle_control_command, Steps, Drop, Move1, Log1, Huge1, Split1

LEMMA ControlBeginKeeps ==
  ASSUME GoodInv, ControlBegin
  PROVE  GoodInv'
<1> DEFINE at == Program[guest - 1]
<1>1. /\ vmm.pc = "exit" /\ at.op = "control"
      /\ vmm' = [vmm EXCEPT !.pc = "control", !.command = at.arg, !.op = count.ops + 1,
                            !.todo = handle_control_command(at.arg), !.failed = FALSE]
      /\ count' = [count EXCEPT !.ops = @ + 1]
      /\ UNCHANGED <<guest, slots, active_mem, thp, host, page, ept, expected>>
  BY DEF ControlBegin
<1>2. /\ DOMAIN vmm = VmmFields /\ DOMAIN count = CountFields /\ vmm.failed = FALSE /\ vmm.i \in 1 .. 13
      /\ guest \in {4, 6, 8, 10, 11, 13, 15}
  BY <1>1, Places DEF GoodInv
<1>3. /\ guest \in {4, 6, 8, 11, 13}
      /\ guest = 4 => at.arg = 1
      /\ guest = 6 => at.arg = 2
      /\ guest = 8 => at.arg = 3
      /\ guest = 11 => at.arg = 4
      /\ guest = 13 => at.arg = 5
  BY <1>1, <1>2, Instructions DEF Op
<1> HIDE DEF at
<1>4. /\ DOMAIN vmm' = VmmFields /\ vmm'.pc = "control" /\ vmm'.i = vmm.i /\ vmm'.failed = FALSE
      /\ vmm'.todo = handle_control_command(at.arg)
  BY <1>1, <1>2 DEF VmmFields
<1>5. DOMAIN count' = CountFields /\ count'.madvise = count.madvise
  BY <1>1, <1>2 DEF CountFields
<1>6. /\ guest = 4 => vmm'.todo = Drop
      /\ guest = 6 => vmm'.todo = Move1
      /\ guest = 8 => vmm'.todo = Log1(active_mem)
      /\ guest = 11 => vmm'.todo = Huge1
      /\ guest = 13 => vmm'.todo = Split1
  BY <1>3, <1>4, CommandSteps
<1>7. InCommand'
  BY <1>1, <1>3, <1>6 DEF InCommand, Log1
<1>8. PlaceInv'
  BY <1>1, <1>2, <1>4, <1>5, <1>7 DEF PlaceInv
<1>9. \A g, n : ~Doing(g, n)
  BY <1>1 DEF Doing
<1>10. /\ Doing(4, 1)' <=> guest = 4
       /\ ~Doing(6, 3)' /\ ~Doing(6, 2)' /\ ~Doing(6, 1)' /\ ~Doing(11, 1)' /\ ~Doing(11, 0)'
  BY <1>1, <1>3, <1>4, <1>6, Lengths DEF Doing
<1>11. ~Before(6) /\ ~Before(7) /\ ~Before(6)' /\ ~Before(7)' /\ (HasHuge' <=> HasHuge)
  BY <1>1, <1>4, <1>9, <1>10 DEF Before, HasHuge
<1>12. MadviseInv'
  BY <1>1, <1>4, <1>5, <1>9, <1>10 DEF GoodInv, MadviseInv
<1> QED
  BY <1>1, <1>5, <1>8, <1>9, <1>10, <1>11, <1>12, MemoryStays

LEMMA ControlEndKeeps ==
  ASSUME GoodInv, ControlEnd
  PROVE  GoodInv'
<1>1. /\ vmm.pc = "control" /\ vmm.todo = <<>>
      /\ vmm' = [vmm EXCEPT !.pc = IF vmm.failed THEN "failed" ELSE "loop", !.command = 0]
      /\ UNCHANGED <<guest, slots, active_mem, thp, host, page, ept, count, expected>>
  BY DEF ControlEnd
<1>2. /\ DOMAIN vmm = VmmFields /\ DOMAIN count = CountFields /\ vmm.failed = FALSE /\ vmm.i \in 1 .. 13
      /\ guest \in {4, 6, 8, 11, 13}
  BY <1>1, Places DEF GoodInv
<1>3. /\ DOMAIN vmm' = VmmFields /\ vmm'.pc = "loop" /\ vmm'.i = vmm.i /\ vmm'.failed = FALSE
  BY <1>1, <1>2 DEF VmmFields
<1>4. PlaceInv'
  BY <1>1, <1>2, <1>3 DEF PlaceInv
<1>5. /\ \A g, n : ~Doing(g, n)'
      /\ \A g : ~Doing(g, 1) /\ ~Doing(g, 2) /\ ~Doing(g, 3)
      /\ Doing(11, 0) <=> guest = 11
  BY <1>1, <1>3, Lengths DEF Doing
<1>6. ~Before(6) /\ ~Before(7) /\ ~Before(6)' /\ ~Before(7)' /\ (HasHuge' <=> HasHuge)
  BY <1>1, <1>3, <1>5 DEF Before, HasHuge
<1>7. MadviseInv'
  BY <1>1, <1>3, <1>5 DEF GoodInv, MadviseInv
<1> QED
  BY <1>1, <1>4, <1>5, <1>6, <1>7, MemoryStays

\* The guest's own steps outside memory.
LEMMA CpuidKeeps ==
  ASSUME GoodInv, Cpuid
  PROVE  GoodInv'
<1>1. /\ vmm.pc = "guest" /\ Program[guest].op = "cpuid" /\ guest' = guest + 1
      /\ UNCHANGED <<vmm, slots, active_mem, thp, host, page, ept, count, expected>>
  BY DEF Cpuid, Ready, At
<1>2. PlaceInv /\ guest \in 1 .. 14
  BY <1>1, Places DEF GoodInv
<1>3. guest = 1
  BY <1>1, <1>2, Instructions DEF Op
<1>4. PlaceInv'
  BY <1>1, <1>2, <1>3 DEF PlaceInv
<1>5. ~Before(6) /\ ~Before(7) /\ ~Before(6)' /\ ~Before(7)' /\ ~HasHuge' /\ ~HasHuge
  BY <1>1, <1>3 DEF Before, HasHuge, Doing
<1> QED
  BY <1>1, <1>3, <1>4, <1>5, OutsideCommands

LEMMA OutKeeps ==
  ASSUME GoodInv, Out
  PROVE  GoodInv'
<1>1. /\ vmm.pc = "guest" /\ Program[guest].op \in {"control", "close"} /\ guest' = guest + 1
      /\ vmm' = [vmm EXCEPT !.pc = "exit"]
      /\ UNCHANGED <<slots, active_mem, thp, host, page, ept, count, expected>>
  BY DEF Out, Ready, At, ToUserspace
<1>2. /\ PlaceInv /\ DOMAIN vmm = VmmFields /\ DOMAIN count = CountFields /\ vmm.failed = FALSE
      /\ vmm.i \in 1 .. 13 /\ guest \in 1 .. 14
  BY <1>1, Places DEF GoodInv
<1>3. guest \in {3, 5, 7, 10, 12, 14}
  BY <1>1, <1>2, Instructions DEF Op
<1>4. DOMAIN vmm' = VmmFields /\ vmm'.pc = "exit" /\ vmm'.i = vmm.i /\ vmm'.failed = FALSE
  BY <1>1, <1>2 DEF VmmFields
<1>5. PlaceInv'
  BY <1>1, <1>2, <1>3, <1>4 DEF PlaceInv
<1>6. ~Before(6) /\ ~Before(7) /\ ~Before(6)' /\ ~Before(7)' /\ (HasHuge' <=> HasHuge)
  BY <1>1, <1>3, <1>4 DEF Before, HasHuge, Doing
<1> QED
  BY <1>1, <1>2, <1>3, <1>4, <1>5, <1>6, OutsideCommands

\* A failing step of a command ends it.
LEMMA FailureStops ==
  ASSUME PlaceInv, vmm.pc = "control", Step(FALSE)
  PROVE  Stopped'
<1>1. vmm' = [vmm EXCEPT !.todo = <<>>, !.failed = TRUE] /\ DOMAIN vmm = VmmFields
  BY Places DEF Step
<1>2. vmm'.pc = "control" /\ vmm'.failed = TRUE /\ vmm'.todo = <<>>
  BY <1>1 DEF VmmFields
<1> QED
  BY <1>2 DEF Stopped

\* The command goes on.
LEMMA Proceeds ==
  ASSUME PlaceInv, vmm.pc = "control", Step(TRUE), guest' = guest, DOMAIN count' = CountFields,
         NEW rest, rest = Tail(vmm.todo), active_mem' = active_mem \/ guest # 8,
         \/ guest = 4 /\ rest = <<>>
         \/ guest = 6 /\ rest \in {Move2, Move3, Move4, <<>>}
         \/ guest = 8 /\ rest \in {Log2, <<>>}
         \/ guest = 11 /\ rest \in {Huge2, Huge3, Huge4, <<>>}
         \/ guest = 13 /\ rest = <<>>
  PROVE  PlaceInv' /\ vmm'.pc = "control" /\ vmm'.todo = rest
<1>1. vmm' = [vmm EXCEPT !.todo = rest] /\ DOMAIN vmm = VmmFields /\ vmm.failed = FALSE /\ vmm.i \in 1 .. 13
  BY Places DEF Step
<1>2. vmm'.pc = "control" /\ vmm'.failed = FALSE /\ vmm'.todo = rest /\ vmm'.i = vmm.i /\ DOMAIN vmm' = VmmFields
  BY <1>1 DEF VmmFields
<1>3. InCommand'
  BY <1>2 DEF InCommand
<1> QED
  BY <1>1, <1>2, <1>3 DEF PlaceInv

LEMMA LongLists ==
  /\ Len(Huge1) # 1 /\ Len(Huge1) # 0 /\ Len(Huge2) # 1 /\ Len(Huge2) # 0
  /\ Len(Huge3) # 1 /\ Len(Huge3) # 0
BY Lengths

\* The three steps that only make a call.
LEMMA CallKeeps ==
  ASSUME GoodInv, vmm.pc = "control", Step(TRUE), guest' = guest, DOMAIN count' = CountFields,
         count'.madvise = count.madvise, UNCHANGED <<slots, active_mem, thp, host, page, ept, expected>>,
         \/ guest = 8 /\ vmm.todo = Log2
         \/ guest = 11 /\ vmm.todo \in {Huge1, Huge2}
  PROVE  GoodInv'
<1>1. PlaceInv' /\ vmm'.pc = "control" /\ vmm'.todo = Tail(vmm.todo)
  BY FirstSteps, Proceeds DEF GoodInv
<1>2. guest = 11 => /\ Len(vmm.todo) # 1 /\ Len(vmm.todo) # 0
                    /\ Len(vmm'.todo) # 1 /\ Len(vmm'.todo) # 0
  <2>1. CASE guest = 8
    BY <2>1
  <2>2. CASE guest = 11 /\ vmm.todo = Huge1
    <3>1. vmm'.todo = Huge2
      BY <1>1, <2>2, FirstSteps
    <3> QED
      BY <2>2, <3>1, LongLists
  <2>3. CASE guest = 11 /\ vmm.todo = Huge2
    <3>1. vmm'.todo = Huge3
      BY <1>1, <2>3, FirstSteps
    <3> QED
      BY <2>3, <3>1, LongLists
  <2> QED
    BY <2>1, <2>2, <2>3
<1>3. \A n : /\ ~Doing(6, n) /\ ~Doing(6, n)' /\ ~Doing(4, n) /\ ~Doing(4, n)'
  BY DEF Doing
<1>4. ~Doing(11, 1) /\ ~Doing(11, 0) /\ ~Doing(11, 1)' /\ ~Doing(11, 0)'
  <2>1. CASE guest = 8
    BY <2>1 DEF Doing
  <2>2. CASE guest = 11
    BY <1>2, <2>2 DEF Doing
  <2> QED
    BY <2>1, <2>2
<1>5. ~Before(6) /\ ~Before(7) /\ ~Before(6)' /\ ~Before(7)' /\ (HasHuge' <=> HasHuge)
  BY <1>1, <1>4 DEF Before, HasHuge
<1>6. MadviseInv'
  BY <1>1, <1>3 DEF GoodInv, MadviseInv
<1> QED
  BY <1>1, <1>3, <1>4, <1>5, <1>6, MemoryStays

LEMMA PlainCallsKeep ==
  ASSUME GoodInv, NEW ok \in BOOLEAN, ClearDirtyLog(ok) \/ MmapHuge(ok) \/ Align(ok)
  PROVE  MemoryInv'
<1>1. /\ vmm.pc = "control" /\ Step(ok) /\ UNCHANGED <<guest, slots, active_mem, thp, host, page, ept, expected>>
      /\ AtStep("clear") \/ AtStep("mmap") \/ AtStep("align")
  BY DEF ClearDirtyLog, MmapHuge, Align, AtStep
<1>2. \/ count' = [count EXCEPT !.ioctl = @ + 1]
      \/ count' = [count EXCEPT !.mmap = @ + 1]
      \/ count' = count
  BY DEF ClearDirtyLog, MmapHuge, Align
<1>3. PlaceInv /\ DOMAIN count = CountFields
  BY Places DEF GoodInv
<1>4. DOMAIN count' = CountFields /\ count'.madvise = count.madvise
  BY <1>2, <1>3 DEF CountFields
<1>5. \/ guest = 8 /\ vmm.todo = Log2
      \/ guest = 11 /\ vmm.todo \in {Huge1, Huge2}
  BY <1>1, <1>3, NextStep
<1>6. CASE ok
  <2>1. GoodInv'
    BY <1>1, <1>4, <1>5, <1>6, CallKeeps
  <2> QED
    BY <2>1 DEF MemoryInv
<1>7. CASE ~ok
  BY <1>1, <1>3, <1>7, FailureStops DEF MemoryInv
<1> QED
  BY <1>6, <1>7

-----------------------------------------------------------------------------
(* The page table as the processor sees it *)

LEMMA BackedFrames ==
  /\ Backed = {0, 1, 4, 5} /\ Backed \subseteq Gfns
  /\ SlotOf(0) = 0 /\ SlotOf(1) = 0 /\ SlotOf(4) = 1 /\ SlotOf(5) = 1
  /\ PageOf(0) = 0 /\ PageOf(1) = 1 /\ PageOf(4) = 0 /\ PageOf(5) = 1
BY ThreeLevels DEF Backed, DATA_GFN, HUGE_GFN, SlotOf, PageOf

LEMMA SameNode ==
  ASSUME NEW x \in Gfns, NEW g \in Gfns
  PROVE  /\ Node(1, x) = Node(1, g) <=> x = g
         /\ Node(2, x) = Node(2, g) <=> x \div 2 = g \div 2
<1>1. Node(1, x) = <<1, x \div 1>> /\ Node(1, g) = <<1, g \div 1>>
  BY ThreeLevels DEF Node
<1>2. Node(2, x) = <<2, x \div 2>> /\ Node(2, g) = <<2, g \div 2>>
  BY ThreeLevels DEF Node
<1>3. x \div 1 = x /\ g \div 1 = g
  BY ThreeLevels
<1> QED
  BY <1>1, <1>2, <1>3

LeafAt(level, pfn) == [mapped |-> TRUE, mmio |-> FALSE, level |-> level, pfn |-> pfn]

LEMMA LeafFields ==
  /\ \A l, p : LeafAt(l, p).mapped = TRUE /\ LeafAt(l, p).level = l /\ LeafAt(l, p).pfn = p
  /\ NoLeaf(Unmapped) /\ NoLeaf([Unmapped EXCEPT !.mmio = TRUE])
BY DEF LeafAt, NoLeaf, Unmapped

\* What an entry made by KVM changes of the translation: what it covers, and at most the loss of other frames.
Remapped(u, e, g, level, kind, pfn) ==
  /\ DOMAIN u = {"tree", "flat"} /\ DOMAIN u.flat = Gfns
  /\ \A x \in Gfns : Node(level, x) # Node(level, g) => u.flat[x] = Unmapped \/ u.flat[x] = e.flat[x]
  /\ \A x \in Gfns : Node(level, x) = Node(level, g) /\ kind = "leaf" =>
                       u.flat[x] = LeafAt(level, pfn + (x % Span(level)))
  /\ \A x \in Gfns : Node(level, x) = Node(level, g) /\ kind = "mmio" => NoLeaf(u.flat[x])

LEMMA MapsOnly ==
  ASSUME NEW e, NEW g \in Gfns, NEW level, NEW kind \in {"leaf", "mmio"}, NEW pfn
  PROVE  Remapped(MapAt(e, g, level, kind, pfn), e, g, level, kind, pfn)
<1> SUFFICES ASSUME NEW u, u = MapAt(e, g, level, kind, pfn)
             PROVE  Remapped(u, e, g, level, kind, pfn)
  OBVIOUS
<1> DEFINE fresh(l) == \E k \in l .. Levels : e.tree[Node(k, g)].kind # "table"
           covered == {x \in Gfns : Node(level, x) = Node(level, g)}
           cut     == {x \in Gfns : \E l \in level .. Levels - 1 :
                         Node(l + 1, x) = Node(l + 1, g) /\ fresh(l + 1)}
           flat == [x \in Gfns |->
        CASE x \in covered /\ kind = "leaf" ->
               [mapped |-> TRUE, mmio |-> FALSE, level |-> level, pfn |-> pfn + (x % Span(level))]
          [] x \in covered /\ kind = "mmio" -> [Unmapped EXCEPT !.mmio = TRUE]
          [] x \in cut \ covered -> Unmapped
          [] OTHER -> e.flat[x]]
<1>1. DOMAIN u = {"tree", "flat"} /\ u.flat = flat
  BY DEF MapAt
<1> HIDE DEF cut, fresh
<1>2. ASSUME NEW x \in Gfns, x \notin covered
      PROVE  flat[x] = Unmapped \/ flat[x] = e.flat[x]
  BY <1>2
<1>3. ASSUME NEW x \in Gfns, x \in covered, kind = "leaf"
      PROVE  flat[x] = LeafAt(level, pfn + (x % Span(level)))
  BY <1>3 DEF LeafAt
<1>4. ASSUME NEW x \in Gfns, x \in covered, kind = "mmio"
      PROVE  flat[x] = [Unmapped EXCEPT !.mmio = TRUE]
  BY <1>4
<1>5. DOMAIN flat = Gfns
  OBVIOUS
<1>6. \A x \in Gfns : x \in covered <=> Node(level, x) = Node(level, g)
  OBVIOUS
<1> HIDE DEF flat, covered
<1> QED
  BY <1>1, <1>2, <1>3, <1>4, <1>5, <1>6, LeafFields DEF Remapped

\* An entry of the last level changes one frame, and may cut off others.
Leafed(u, e, g, pfn) ==
  /\ DOMAIN u = {"tree", "flat"} /\ DOMAIN u.flat = Gfns /\ u.flat[g] = LeafAt(1, pfn)
  /\ \A x \in Gfns : x # g => u.flat[x] = Unmapped \/ u.flat[x] = e.flat[x]

LEMMA SmallLeaf ==
  ASSUME NEW e, NEW g \in Gfns, NEW pfn \in Nat
  PROVE  Leafed(MapAt(e, g, 1, "leaf", pfn), e, g, pfn)
<1> SUFFICES ASSUME NEW u, u = MapAt(e, g, 1, "leaf", pfn)
             PROVE  Leafed(u, e, g, pfn)
  OBVIOUS
<1>1. Remapped(MapAt(e, g, 1, "leaf", pfn), e, g, 1, "leaf", pfn)
  BY MapsOnly
<1>2. Remapped(u, e, g, 1, "leaf", pfn)
  BY <1>1
<1>3. /\ DOMAIN u = {"tree", "flat"} /\ DOMAIN u.flat = Gfns
      /\ \A x \in Gfns : Node(1, x) # Node(1, g) => u.flat[x] = Unmapped \/ u.flat[x] = e.flat[x]
      /\ u.flat[g] = LeafAt(1, pfn + (g % Span(1)))
  BY <1>2 DEF Remapped
<1>4. pfn + (g % Span(1)) = pfn
  BY ThreeLevels
<1>5. u.flat[g] = LeafAt(1, pfn)
  BY <1>3, <1>4
<1>6. \A x \in Gfns : x # g => Node(1, x) # Node(1, g)
  BY SameNode
<1> QED
  BY <1>3, <1>5, <1>6 DEF Leafed

\* One of the level above it changes the two frames of the large page.
LeafedTwice(u, e, pfn) ==
  /\ DOMAIN u = {"tree", "flat"} /\ DOMAIN u.flat = Gfns
  /\ u.flat[4] = LeafAt(2, pfn) /\ u.flat[5] = LeafAt(2, pfn + 1)
  /\ \A x \in {0, 1} : u.flat[x] = Unmapped \/ u.flat[x] = e.flat[x]

LEMMA LargeLeaf ==
  ASSUME NEW e, NEW g \in {4, 5}, NEW pfn \in Nat
  PROVE  LeafedTwice(MapAt(e, g, 2, "leaf", pfn), e, pfn)
<1> SUFFICES ASSUME NEW u, u = MapAt(e, g, 2, "leaf", pfn)
             PROVE  LeafedTwice(u, e, pfn)
  OBVIOUS
<1>0. {0, 1, 4, 5} \subseteq Gfns /\ g \in Gfns
  BY ThreeLevels
<1>1. Remapped(MapAt(e, g, 2, "leaf", pfn), e, g, 2, "leaf", pfn)
  BY <1>0, MapsOnly
<1>2. Remapped(u, e, g, 2, "leaf", pfn)
  BY <1>1
<1>3. \A x \in {0, 1} : x \div 2 = 0
  OBVIOUS
<1>4. \A x \in {4, 5} : x \div 2 = 2
  OBVIOUS
<1>5. \A x \in {0, 1} : Node(2, x) # Node(2, g)
  BY <1>0, <1>3, <1>4, SameNode
<1>6. \A x \in {4, 5} : Node(2, x) = Node(2, g)
  BY <1>0, <1>4, SameNode
<1>7. pfn + (4 % Span(2)) = pfn /\ pfn + (5 % Span(2)) = pfn + 1
  BY ThreeLevels
<1>8. /\ DOMAIN u = {"tree", "flat"} /\ DOMAIN u.flat = Gfns
      /\ \A x \in {0, 1} : u.flat[x] = Unmapped \/ u.flat[x] = e.flat[x]
      /\ u.flat[4] = LeafAt(2, pfn + (4 % Span(2))) /\ u.flat[5] = LeafAt(2, pfn + (5 % Span(2)))
  BY <1>0, <1>2, <1>5, <1>6 DEF Remapped
<1> QED
  BY <1>7, <1>8 DEF LeafedTwice

Dropped(u, e, g) ==
  /\ DOMAIN u = {"tree", "flat"} /\ DOMAIN u.flat = Gfns
  /\ \A x \in Gfns : x # g => u.flat[x] = e.flat[x]
  /\ u.flat[g].mapped = FALSE
  /\ u.flat[g] = Unmapped \/ u.flat[g] = e.flat[g]

LEMMA ZapOnly ==
  ASSUME NEW e, DOMAIN e = {"tree", "flat"}, DOMAIN e.flat = Gfns, NEW g \in Gfns,
         e.flat[g].mapped \in BOOLEAN
  PROVE  Dropped(Zap(e, g), e, g)
<1>1. CASE e.flat[g].mapped = FALSE
  BY <1>1 DEF Zap, Dropped
<1>2. CASE e.flat[g].mapped = TRUE
  BY <1>2 DEF Zap, Unmapped, Dropped
<1> QED
  BY <1>1, <1>2

LEMMA ZapAllOnly ==
  ASSUME NEW e, NEW u, u = ZapAll(e)
  PROVE  DOMAIN u = {"tree", "flat"} /\ DOMAIN u.flat = Gfns /\ \A x \in Gfns : u.flat[x] = Unmapped
BY DEF ZapAll

\* A frame that is not in the way keeps its translation.
LEMMA TranslatesStill ==
  ASSUME NEW f, NEW g, NEW s, NEW h, NEW l, Translates(f, g, s, h, l), NEW s1, NEW h1,
         SlotOf(g) \in DOMAIN s => /\ SlotOf(g) \in DOMAIN s1 /\ s1[SlotOf(g)].mem = s[SlotOf(g)].mem
                                   /\ h1[<<s[SlotOf(g)].mem, PageOf(g)>>] = h[<<s[SlotOf(g)].mem, PageOf(g)>>]
  PROVE  Translates(f, g, s1, h1, l)
BY DEF Translates

LEMMA LeafTranslates ==
  ASSUME NEW f, NEW g, NEW s, NEW h, NEW l, NEW level \in {1, 2}, NEW pfn, f = LeafAt(level, pfn),
         level = 2 => l /\ g > 1, SlotOf(g) \in DOMAIN s, pfn # 0, pfn = h[<<s[SlotOf(g)].mem, PageOf(g)>>]
  PROVE  Translates(f, g, s, h, l)
<1>1. f.mapped = TRUE /\ f.level = level /\ f.pfn = pfn
  BY LeafFields
<1>2. f.mapped \in BOOLEAN /\ f.mapped
  BY <1>1, Zenon
<1> QED
  BY <1>1, <1>2, Zenon DEF Translates

-----------------------------------------------------------------------------
(* The steps that change the memory *)

\* The six pages a memory can have.
LEMMA SixPairs ==
  /\ Pairs = {<<"guest", 0>>, <<"guest", 1>>, <<"replacement", 0>>, <<"replacement", 1>>, <<"huge", 0>>, <<"huge", 1>>}
  /\ \A mem \in Memories, p \in {0, 1} : <<mem, p>> \in Pairs
BY DEF Pairs, Memories

\* While the guest runs, slot 0 is active_mem, and slot 1 is there if the guest is that far.
LEMMA SlotsOfGuest ==
  ASSUME GoodInv, vmm.pc = "guest"
  PROVE  /\ 0 \in DOMAIN slots /\ slots[0].mem = active_mem /\ active_mem \in {"guest", "replacement"}
         /\ guest >= 11 => 1 \in DOMAIN slots
         /\ 1 \in DOMAIN slots => slots[1].mem = "huge" /\ DOMAIN expected = {0, 1, 4, 5}
         /\ 1 \notin DOMAIN slots => DOMAIN expected = {0, 1}
         /\ guest \in 1 .. 14 /\ host[<<"guest", 0>>] = 1 /\ Keeps(active_mem)
<1>1. ~Before(6) /\ ~Before(7) /\ \A g, n : ~Doing(g, n)
  BY DEF Before, Doing
<1>2. guest \in 1 .. 14
  BY Places DEF GoodInv
<1>3. guest >= 11 => HasHuge
  BY <1>2 DEF HasHuge
<1>4. 0 \in DOMAIN slots /\ slots[0].mem = active_mem /\ active_mem \in {"guest", "replacement"}
  BY <1>1 DEF GoodInv, SlotsInv, MadviseInv
<1>5. 1 \in DOMAIN slots <=> HasHuge
  BY DEF GoodInv, SlotsInv
<1>6. 1 \in DOMAIN slots => slots[1].mem = "huge"
  BY DEF GoodInv, SlotsInv
<1>7. DOMAIN expected = (IF HasHuge THEN {0, 1, 4, 5} ELSE {0, 1}) /\ Keeps(active_mem)
  BY <1>1 DEF GoodInv, ContentInv
<1>8. host[<<"guest", 0>>] = 1
  BY <1>1 DEF GoodInv, FramesInv
<1> QED
  BY <1>2, <1>3, <1>4, <1>5, <1>6, <1>7, <1>8

\* What the run promises, at last.
LEMMA MemoryFound == MemoryInv => GuestMemorySurvives
<1> SUFFICES ASSUME MemoryInv, vmm.pc = "guest", NEW g \in DOMAIN expected
             PROVE  /\ SlotOf(g) \in DOMAIN slots
                    /\ expected[g] = IF ept.flat[g].mapped THEN page[ept.flat[g].pfn]
                                     ELSE Contents(slots[SlotOf(g)].mem, PageOf(g))
  BY DEF GuestMemorySurvives
<1>1. GoodInv
  BY DEF MemoryInv, Stopped
<1>2. SlotOf(g) \in DOMAIN slots /\ g \in Backed
  BY <1>1, SlotsOfGuest, BackedFrames
<1>3. expected[g] = Contents(slots[SlotOf(g)].mem, PageOf(g))
  <2>1. CASE g \in {0, 1}
    BY <1>1, <2>1, SlotsOfGuest, BackedFrames DEF Keeps
  <2>2. CASE g \in {4, 5}
    <3>1. 4 \in DOMAIN expected /\ slots[1].mem = "huge"
      BY <1>1, <2>2, SlotsOfGuest
    <3> QED
      BY <1>1, <2>2, <3>1, BackedFrames DEF GoodInv, ContentInv
  <2> QED
    BY <1>2, <2>1, <2>2, BackedFrames
<1>4. Translates(ept.flat[g], g, slots, host, thp)
  BY <1>1, <1>2 DEF GoodInv, FlatInv
<1>5. CASE ept.flat[g].mapped
  <2>1. ept.flat[g].pfn = host[<<slots[SlotOf(g)].mem, PageOf(g)>>] /\ ept.flat[g].pfn # 0
    BY <1>4, <1>5 DEF Translates
  <2> QED
    BY <1>2, <1>3, <1>5, <2>1 DEF Contents
<1>6. CASE ~ept.flat[g].mapped
  BY <1>2, <1>3, <1>6
<1> QED
  BY <1>5, <1>6

\* fread() of the image into the guest's first page.
LEMMA SetUpKeeps ==
  ASSUME GoodInv, NEW ok \in BOOLEAN, SetUp(ok)
  PROVE  MemoryInv'
<1>1. /\ vmm.pc = "setup" /\ Calls[vmm.i] # "region" /\ SetUpMoves(ok)
      /\ UNCHANGED <<guest, slots, active_mem, thp, ept, expected>>
      /\ \/ count' = [count EXCEPT !.mmap = @ + 1]
         \/ count' = count
         \/ count' = [count EXCEPT !.ioctl = @ + 1]
      /\ IF Calls[vmm.i] = "fopen" /\ ok
         THEN /\ host' = [host EXCEPT ![<<"guest", 0>>] = 1]
              /\ page' = [page EXCEPT ![1] = CODE]
         ELSE UNCHANGED <<host, page>>
  BY DEF SetUp
<1>2. PlaceInv /\ DOMAIN count = CountFields /\ vmm.i \in 1 .. 13 /\ guest = 1
  BY <1>1, Places DEF GoodInv
<1>3. DOMAIN count' = CountFields /\ count'.madvise = count.madvise
  BY <1>1, <1>2 DEF CountFields
<1>4. CASE ~ok
  BY <1>1, <1>2, <1>3, <1>4, SetUpPlace DEF MemoryInv
<1>5. CASE ok
  <2>1. /\ PlaceInv' /\ vmm'.pc \in {"setup", "loop"} /\ (vmm'.pc = "setup" <=> vmm.i # 13)
        /\ vmm'.pc = "setup" => vmm'.i = vmm.i + 1
    BY <1>1, <1>2, <1>3, <1>5, SetUpPlace
  <2>2. /\ \A g, n : ~Doing(g, n) /\ ~Doing(g, n)'
        /\ ~HasHuge /\ ~HasHuge' /\ vmm.i # 7 /\ (vmm.i = 6 <=> Calls[vmm.i] = "fopen")
    BY <1>1, <1>2, <2>1, SetUpCalls DEF Doing, HasHuge
  <2>3. Before(7)' <=> Before(7)
    BY <1>1, <1>2, <2>1, <2>2 DEF Before
  <2>4. MadviseInv'
    BY <1>1, <1>2, <1>3, <2>2 DEF GoodInv, MadviseInv
  <2>5. CASE vmm.i # 6
    <3>1. Before(6)' <=> Before(6)
      BY <1>1, <1>2, <2>1, <2>5 DEF Before
    <3>2. UNCHANGED <<host, page>>
      BY <1>1, <2>2, <2>5
    <3>3. GoodInv'
      BY <1>1, <1>3, <2>1, <2>2, <2>3, <2>4, <3>1, <3>2, MemoryStays
    <3> QED
      BY <3>3 DEF MemoryInv
  <2>6. CASE vmm.i = 6
    <3>1. Before(6) /\ ~Before(6)'
      BY <1>1, <1>2, <2>1, <2>6 DEF Before
    <3>2. host' = [host EXCEPT ![<<"guest", 0>>] = 1] /\ page' = [page EXCEPT ![1] = CODE]
      BY <1>1, <1>5, <2>2, <2>6
    <3>3. /\ active_mem = "guest" /\ DOMAIN expected = {0, 1} /\ expected[0] = CODE /\ expected[1] = ZERO
          /\ \A x \in Pairs : host[x] = 0
          /\ \A g \in DOMAIN expected : expected[g] \in Nat
      BY <1>2, <2>2, <3>1 DEF GoodInv, MadviseInv, ContentInv
    <3>4. /\ host' \in [Pairs -> 0 .. 8] /\ host'[<<"guest", 0>>] = 1
          /\ \A x \in Pairs : x # <<"guest", 0>> => host'[x] = 0
          /\ page' \in [1 .. 8 -> Nat] /\ page'[1] = CODE /\ \A n \in 2 .. 8 : page'[n] = page[n]
      BY <3>2, <3>3, SixPairs DEF GoodInv, FramesInv, CODE
    <3>5. /\ host'[<<"guest", 1>>] = 0 /\ host'[<<"replacement", 0>>] = 0 /\ host'[<<"replacement", 1>>] = 0
          /\ host'[<<"huge", 0>>] = 0 /\ host'[<<"huge", 1>>] = 0
      BY <3>4, SixPairs
    <3>6. FramesInv'
      <4>1. host[<<"guest", 1>>] = 0
        BY <3>3, SixPairs
      <4>2. ~Copied' /\ 4 \notin DOMAIN expected'
        BY <1>1, <2>2, <3>3 DEF Copied
      <4> QED
        BY <1>1, <1>3, <3>1, <3>3, <3>4, <3>5, <4>1, <4>2 DEF GoodInv, FramesInv
    <3>7. SlotsInv'
      BY <1>1, <2>2, <2>3 DEF GoodInv, SlotsInv
    <3>8. ContentInv'
      <4>1. Contents("guest", 0)' = CODE /\ Contents("guest", 1)' = ZERO
        BY <3>4, <3>5 DEF Contents
      <4>2. Keeps(active_mem)'
        BY <1>1, <3>3, <4>1 DEF Keeps
      <4>3. ~Copied' /\ 4 \notin DOMAIN expected'
        BY <1>1, <2>2, <3>3 DEF Copied
      <4> QED
        BY <1>1, <2>2, <3>1, <3>3, <4>2, <4>3 DEF ContentInv
    <3>9. FlatInv'
      <4>1. DOMAIN slots = {}
        <5>1. Before(7)
          BY <1>1, <2>6 DEF Before
        <5>2. 0 \notin DOMAIN slots /\ 1 \notin DOMAIN slots /\ DOMAIN slots \subseteq {0, 1}
          BY <2>2, <5>1 DEF GoodInv, SlotsInv
        <5> QED
          BY <5>2
      <4>2. \A g \in Backed : Translates(ept.flat[g], g, slots, host', thp)
        BY <4>1, TranslatesStill DEF GoodInv, FlatInv
      <4> QED
        BY <1>1, <4>2 DEF GoodInv, FlatInv
    <3> QED
      BY <2>1, <2>4, <3>6, <3>7, <3>8, <3>9 DEF GoodInv, MemoryInv
  <2> QED
    BY <2>5, <2>6
<1> QED
  BY <1>4, <1>5

\* KVM_SET_USER_MEMORY_REGION.
LEMMA SlotAfter ==
  ASSUME NEW r, r.slot \in {0, 1}, DOMAIN slots \subseteq {0, 1}
  PROVE  /\ r.mem = "none" => /\ DOMAIN Applied(r) = DOMAIN slots \ {r.slot}
                              /\ \A s \in DOMAIN slots : s # r.slot => Applied(r)[s] = slots[s]
         /\ r.mem # "none" => /\ DOMAIN Applied(r) = DOMAIN slots \cup {r.slot}
                              /\ Applied(r)[r.slot].mem = r.mem
                              /\ \A s \in DOMAIN slots : s # r.slot => Applied(r)[s] = slots[s]
BY DEF Applied

LEMMA SetUpRegionKeeps ==
  ASSUME GoodInv, NEW ok \in BOOLEAN, SetUpRegion(ok)
  PROVE  MemoryInv'
<1> DEFINE r == Region(0, active_mem, FALSE)
<1>1. /\ vmm.pc = "setup" /\ Calls[vmm.i] = "region" /\ SetUpMoves(ok)
      /\ UNCHANGED <<guest, active_mem, thp, host, page, expected>>
      /\ SetRegion(r, ok, FALSE)
  BY DEF SetUpRegion
<1> HIDE DEF r
<1>2. PlaceInv /\ DOMAIN count = CountFields /\ vmm.i \in 1 .. 13 /\ guest = 1
  BY <1>1, Places DEF GoodInv
<1>3. /\ slots' = (IF ok THEN Applied(r) ELSE slots) /\ ept' = (IF ok THEN Reshaped(r, FALSE) ELSE ept)
      /\ count' = [count EXCEPT !.ioctl = @ + 1, !.ops = @ + 1]
  BY <1>1 DEF SetRegion
<1>4. DOMAIN count' = CountFields /\ count'.madvise = count.madvise
  BY <1>2, <1>3 DEF CountFields
<1>5. vmm.i = 7
  BY <1>1, <1>2, SetUpCalls
<1>6. CASE ~ok
  BY <1>1, <1>2, <1>4, <1>6, SetUpPlace DEF MemoryInv
<1>7. CASE ok
  <2>1. PlaceInv' /\ vmm'.pc = "setup" /\ vmm'.i = 8
    <3>1. /\ PlaceInv' /\ (vmm'.pc = "setup" <=> vmm.i # 13)
          /\ vmm'.pc = "setup" => vmm'.i = vmm.i + 1
      BY <1>1, <1>2, <1>4, <1>7, SetUpPlace
    <3> QED
      BY <1>5, <3>1
  <2>2. \A g, n : ~Doing(g, n) /\ ~Doing(g, n)'
    BY <1>1, <2>1 DEF Doing
  <2>3. ~HasHuge /\ ~HasHuge'
    BY <1>1, <1>2, <2>2 DEF HasHuge
  <2>4. ~Before(6) /\ Before(7) /\ ~Before(6)' /\ ~Before(7)'
    BY <1>1, <1>5, <2>1 DEF Before
  <2>5. MadviseInv' /\ active_mem = "guest"
    BY <1>1, <1>2, <1>4, <2>2 DEF GoodInv, MadviseInv
  <2>6. r.slot = 0 /\ r.mem = "guest" /\ r.log = FALSE
    BY <2>5 DEF r, Region
  <2>7. DOMAIN slots = {}
    <3>1. 0 \notin DOMAIN slots /\ 1 \notin DOMAIN slots /\ DOMAIN slots \subseteq {0, 1}
      BY <2>3, <2>4 DEF GoodInv, SlotsInv
    <3> QED
      BY <3>1
  <2>8. DOMAIN slots' = {0} /\ slots'[0].mem = "guest"
    BY <1>3, <1>7, <2>6, <2>7, SlotAfter
  <2>9. SlotsInv'
    BY <1>1, <2>2, <2>3, <2>4, <2>5, <2>8 DEF SlotsInv
  <2>10. ept' = ept
    BY <1>3, <1>7, <2>6 DEF Reshaped
  <2>11. FramesInv'
    BY <1>1, <1>4, <2>2, <2>4 DEF GoodInv, FramesInv, Copied
  <2>12. Keeps(active_mem)' <=> Keeps(active_mem)
    BY <1>1 DEF Keeps, Contents
  <2>13. Contents("huge", 0)' = Contents("huge", 0) /\ Contents("huge", 1)' = Contents("huge", 1)
    BY <1>1 DEF Contents
  <2>14. ContentInv'
    BY <1>1, <2>2, <2>3, <2>4, <2>12, <2>13 DEF GoodInv, ContentInv, Copied
  <2>15. FlatInv'
    <3>1. \A g \in Backed : Translates(ept.flat[g], g, slots', host, thp)
      BY <2>7, TranslatesStill DEF GoodInv, FlatInv
    <3> QED
      BY <1>1, <2>10, <3>1 DEF GoodInv, FlatInv
  <2> QED
    BY <2>1, <2>5, <2>9, <2>11, <2>14, <2>15 DEF GoodInv, MemoryInv
<1> QED
  BY <1>6, <1>7

\* madvise(MADV_DONTNEED): the page is zero again, and not translated.
LEMMA DontNeedKeeps ==
  ASSUME GoodInv, NEW ok \in BOOLEAN, DontNeed(ok)
  PROVE  MemoryInv'
<1>1. /\ AtStep("dontneed") /\ vmm.pc = "control" /\ Step(ok)
      /\ host' = (IF ok THEN [host EXCEPT ![<<active_mem, 1>>] = 0] ELSE host)
      /\ expected' = (IF ok THEN [expected EXCEPT ![1] = ZERO] ELSE expected)
      /\ ept' = (IF ok THEN Zap(ept, 1) ELSE ept)
      /\ count' = [count EXCEPT !.madvise = @ + 1]
      /\ UNCHANGED <<guest, slots, active_mem, thp, page>>
  BY DEF DontNeed, DATA_GFN, AtStep
<1>2. PlaceInv /\ DOMAIN count = CountFields /\ guest = 4 /\ vmm.todo = Drop
  BY <1>1, Places, NextStep DEF GoodInv
<1>3. CASE ~ok
  BY <1>1, <1>2, <1>3, FailureStops DEF MemoryInv
<1>4. CASE ok
  <2>1. Doing(4, 1) /\ ~Before(6) /\ ~Before(7) /\ ~HasHuge /\ ~Copied /\ ~Doing(6, 1) /\ ~Doing(6, 2) /\ ~Doing(11, 1)
    BY <1>1, <1>2, Lengths DEF Doing, Before, HasHuge, Copied
  <2>2. active_mem = "guest" /\ count.madvise = 0
    BY <1>2, <2>1 DEF GoodInv, MadviseInv
  <2>3. DOMAIN count' = CountFields /\ count'.madvise = 1
    BY <1>1, <1>2, <2>2 DEF CountFields
  <2>4. PlaceInv' /\ vmm'.pc = "control" /\ vmm'.todo = <<>>
    BY <1>1, <1>2, <1>4, <2>3, FirstSteps, Proceeds
  <2>5. /\ ~Doing(4, 1)' /\ ~Before(6)' /\ ~Before(7)' /\ ~HasHuge' /\ ~Copied' /\ ~Doing(6, 1)' /\ ~Doing(6, 2)'
        /\ ~Doing(11, 1)'
    BY <1>1, <1>2, <2>4, Lengths DEF Doing, Before, HasHuge, Copied
  <2>6. MadviseInv'
    BY <1>1, <1>2, <2>2, <2>3, <2>4, <2>5 DEF MadviseInv
  <2>7. SlotsInv'
    BY <1>1, <2>1, <2>5 DEF GoodInv, SlotsInv
  <2>8. /\ host' \in [Pairs -> 0 .. 8] /\ host'[<<"guest", 1>>] = 0
        /\ \A x \in Pairs : x # <<"guest", 1>> => host'[x] = host[x]
    BY <1>1, <1>4, <2>2, SixPairs DEF GoodInv, FramesInv
  <2>9. DOMAIN expected = {0, 1} /\ DOMAIN expected' = {0, 1} /\ expected'[1] = ZERO /\ expected'[0] = expected[0]
    BY <1>1, <1>4, <2>1 DEF GoodInv, ContentInv
  <2>10. /\ host'[<<"guest", 0>>] = host[<<"guest", 0>>] /\ host'[<<"replacement", 0>>] = host[<<"replacement", 0>>]
         /\ host'[<<"replacement", 1>>] = host[<<"replacement", 1>>]
         /\ host'[<<"huge", 0>>] = host[<<"huge", 0>>] /\ host'[<<"huge", 1>>] = host[<<"huge", 1>>]
    BY <2>8, SixPairs
  <2>11. FramesInv'
    BY <1>1, <2>1, <2>2, <2>3, <2>5, <2>8, <2>9, <2>10 DEF GoodInv, FramesInv
  <2>12. ContentInv'
    <3>1. Contents("guest", 0)' = Contents("guest", 0) /\ Contents("guest", 1)' = ZERO
      BY <1>1, <2>8, <2>10 DEF Contents
    <3>2. Keeps(active_mem)'
      BY <1>1, <2>1, <2>2, <2>9, <3>1 DEF GoodInv, ContentInv, Keeps
    <3>3. \A g \in DOMAIN expected' : expected'[g] \in Nat
      BY <2>9 DEF GoodInv, ContentInv, ZERO
    <3> QED
      BY <2>5, <2>9, <3>2, <3>3 DEF ContentInv
  <2>13. FlatInv'
    <3>1. /\ DOMAIN ept' = {"tree", "flat"} /\ DOMAIN ept'.flat = Gfns
          /\ \A x \in Gfns : x # 1 => ept'.flat[x] = ept.flat[x]
          /\ ept'.flat[1].mapped = FALSE
          /\ ept'.flat[1] = Unmapped \/ ept'.flat[1] = ept.flat[1]
      <4>1. 1 \in Gfns /\ DOMAIN ept = {"tree", "flat"} /\ DOMAIN ept.flat = Gfns /\ 1 \in Backed
        BY BackedFrames DEF GoodInv, FlatInv
      <4>2. ept.flat[1].mapped \in BOOLEAN
        BY <4>1 DEF GoodInv, FlatInv, Translates
      <4> QED
        <5>1. ept' = Zap(ept, 1)
          BY <1>1, <1>4
        <5>2. Dropped(Zap(ept, 1), ept, 1)
          BY <4>1, <4>2, ZapOnly
        <5>3. Dropped(ept', ept, 1)
          BY <5>1, <5>2
        <5> QED
          BY <5>3 DEF Dropped
    <3>2. ASSUME NEW g \in {0, 4, 5}
          PROVE  Translates(ept'.flat[g], g, slots, host', thp)
      <4>1. Translates(ept.flat[g], g, slots, host, thp) /\ ept'.flat[g] = ept.flat[g]
        BY <3>1, <3>2, BackedFrames DEF GoodInv, FlatInv
      <4>2. SlotOf(g) \in DOMAIN slots => slots[SlotOf(g)].mem \in {"guest", "huge"}
        BY <2>1, <2>2, BackedFrames DEF GoodInv, SlotsInv
      <4>3. SlotOf(g) \in DOMAIN slots =>
              host'[<<slots[SlotOf(g)].mem, PageOf(g)>>] = host[<<slots[SlotOf(g)].mem, PageOf(g)>>]
        <5>1. CASE g = 0
          BY <2>1, <2>2, <2>10, <5>1, BackedFrames DEF GoodInv, SlotsInv
        <5>2. CASE g \in {4, 5}
          BY <2>10, <5>2, BackedFrames DEF GoodInv, SlotsInv
        <5> QED
          BY <5>1, <5>2
      <4> QED
        BY <4>1, <4>3, TranslatesStill
    <3>3. Translates(ept'.flat[1], 1, slots, host', thp)
      <4>1. ~(ept'.flat[1].level = 2)
        <5>1. ept.flat[1].level # 2
          BY BackedFrames DEF GoodInv, FlatInv, Translates
        <5> QED
          BY <3>1, <5>1, UnmappedTranslates DEF NoLeaf
      <4>2. ept'.flat[1].mapped \in BOOLEAN /\ ~ept'.flat[1].mapped
        BY <3>1, Zenon
      <4> QED
        BY <4>1, <4>2, Zenon DEF Translates
    <3>4. \A g \in Backed : Translates(ept'.flat[g], g, slots, host', thp)
      BY <3>2, <3>3, BackedFrames
    <3> QED
      BY <1>1, <3>1, <3>4 DEF GoodInv, FlatInv
  <2> QED
    BY <2>4, <2>6, <2>7, <2>11, <2>12, <2>13 DEF GoodInv, MemoryInv
<1> QED
  BY <1>3, <1>4

\* memcpy() of the guest's two pages into the replacement.
LEMMA MemcpyKeeps ==
  ASSUME GoodInv, Memcpy
  PROVE  GoodInv'
<1>1. /\ AtStep("memcpy") /\ vmm.pc = "control" /\ Step(TRUE)
      /\ host' = [host EXCEPT ![<<"replacement", 0>>] = 4, ![<<"replacement", 1>>] = 5]
      /\ page' = [page EXCEPT ![4] = Contents(active_mem, 0), ![5] = Contents(active_mem, 1)]
      /\ UNCHANGED <<guest, slots, active_mem, thp, ept, count, expected>>
  BY DEF Memcpy, AtStep
<1>2. PlaceInv /\ DOMAIN count = CountFields /\ guest = 6 /\ vmm.todo = Move1
  BY <1>1, Places, NextStep DEF GoodInv
<1>3. PlaceInv' /\ vmm'.pc = "control" /\ vmm'.todo = Move2
  BY <1>1, <1>2, FirstSteps, Proceeds
<1>4. ~Before(6) /\ ~Before(7) /\ ~HasHuge /\ ~Copied /\ ~Doing(6, 1) /\ ~Doing(6, 2) /\ ~Doing(11, 1) /\ ~Doing(4, 1)
  BY <1>1, <1>2, Lengths DEF Doing, Before, HasHuge, Copied
<1>5. /\ ~Before(6)' /\ ~Before(7)' /\ ~HasHuge' /\ ~Doing(6, 1)' /\ ~Doing(6, 2)' /\ ~Doing(11, 1)' /\ ~Doing(4, 1)'
  BY <1>1, <1>2, <1>3, Lengths DEF Doing, Before, HasHuge
<1>6. MadviseInv'
  BY <1>1, <1>2, <1>4, <1>5 DEF GoodInv, MadviseInv
<1>7. SlotsInv'
  BY <1>1, <1>4, <1>5 DEF GoodInv, SlotsInv
<1>8. /\ host' \in [Pairs -> 0 .. 8] /\ host'[<<"replacement", 0>>] = 4 /\ host'[<<"replacement", 1>>] = 5
      /\ host'[<<"guest", 0>>] = host[<<"guest", 0>>] /\ host'[<<"guest", 1>>] = host[<<"guest", 1>>]
      /\ host'[<<"huge", 0>>] = host[<<"huge", 0>>] /\ host'[<<"huge", 1>>] = host[<<"huge", 1>>]
  BY <1>1, SixPairs DEF GoodInv, FramesInv
<1>9. active_mem \in {"guest", "replacement"} /\ DOMAIN expected = {0, 1} /\ Keeps(active_mem)
  BY <1>4 DEF GoodInv, MadviseInv, ContentInv
<1>10. Contents(active_mem, 0) = expected[0] /\ Contents(active_mem, 1) = expected[1]
  BY <1>9 DEF Keeps
<1>11. expected[0] \in Nat /\ expected[1] \in Nat
  BY <1>9 DEF GoodInv, ContentInv
<1>12. /\ page' \in [1 .. 8 -> Nat] /\ page'[4] = expected[0] /\ page'[5] = expected[1]
       /\ \A n \in 1 .. 8 : n \notin {4, 5} => page'[n] = page[n]
  <2>1. page \in [1 .. 8 -> Nat]
    BY DEF GoodInv, FramesInv
  <2> HIDE DEF Contents
  <2> QED
    BY <1>1, <1>10, <1>11, <2>1
<1>13. FramesInv'
  BY <1>1, <1>4, <1>5, <1>8, <1>9, <1>12 DEF GoodInv, FramesInv
<1>14. Keeps("replacement")'
  <2>1. Contents("replacement", 0)' = page'[4] /\ Contents("replacement", 1)' = page'[5]
    BY <1>8 DEF Contents
  <2>2. expected' = expected
    BY <1>1
  <2>3. Keeps("replacement")' <=> expected'[0] = Contents("replacement", 0)' /\ expected'[1] = Contents("replacement", 1)'
    BY DEF Keeps
  <2> HIDE DEF Contents, Keeps
  <2> QED
    BY <1>12, <2>1, <2>2, <2>3
<1>15. Keeps(active_mem)'
  <2>1. CASE active_mem = "replacement"
    BY <1>1, <1>14, <2>1 DEF Keeps
  <2>2. CASE active_mem = "guest"
    <3>1. Contents("guest", 0)' = Contents("guest", 0) /\ Contents("guest", 1)' = Contents("guest", 1)
      BY <1>8, <1>12 DEF Contents, GoodInv, FramesInv
    <3> QED
      BY <1>1, <1>9, <2>2, <3>1 DEF Keeps
  <2> QED
    BY <1>9, <2>1, <2>2
<1>16. ContentInv'
  BY <1>1, <1>4, <1>5, <1>9, <1>14, <1>15 DEF GoodInv, ContentInv
<1>17. FlatInv'
  <2>1. ASSUME NEW g \in Backed
        PROVE  Translates(ept.flat[g], g, slots, host', thp)
    <3>1. SlotOf(g) \in DOMAIN slots =>
            host'[<<slots[SlotOf(g)].mem, PageOf(g)>>] = host[<<slots[SlotOf(g)].mem, PageOf(g)>>]
      <4>1. g \in {0, 1} => slots[SlotOf(g)].mem = active_mem
        BY <1>4, BackedFrames DEF GoodInv, SlotsInv
      <4>2. SlotOf(g) \in DOMAIN slots => g \in {0, 1}
        BY <1>4, BackedFrames DEF GoodInv, SlotsInv
      <4>3. active_mem = "replacement" => host[<<"replacement", 0>>] = 4 /\ host[<<"replacement", 1>>] = 5
        BY DEF GoodInv, FramesInv
      <4> QED
        BY <1>8, <1>9, <4>1, <4>2, <4>3, BackedFrames
    <3> QED
      BY <3>1, TranslatesStill DEF GoodInv, FlatInv
  <2> QED
    BY <1>1, <2>1 DEF GoodInv, FlatInv
<1> QED
  BY <1>3, <1>6, <1>7, <1>13, <1>16, <1>17 DEF GoodInv

\* active_mem = replacement_mem.
LEMMA SwitchKeeps ==
  ASSUME GoodInv, Switch
  PROVE  GoodInv'
<1>1. /\ AtStep("switch") /\ vmm.pc = "control" /\ Step(TRUE) /\ active_mem' = "replacement"
      /\ UNCHANGED <<guest, slots, thp, host, page, ept, count, expected>>
  BY DEF Switch, AtStep
<1>2. PlaceInv /\ DOMAIN count = CountFields /\ guest = 6 /\ vmm.todo = Move4
  BY <1>1, Places, NextStep DEF GoodInv
<1>3. PlaceInv' /\ vmm'.pc = "control" /\ vmm'.todo = <<>>
  <2>1. Tail(vmm.todo) = <<>>
    BY <1>2, FirstSteps
  <2>2. guest # 8 /\ guest' = guest /\ DOMAIN count' = CountFields
    BY <1>1, <1>2
  <2> QED
    BY <1>1, <1>2, <2>1, <2>2, Proceeds
<1>4. ~Before(6) /\ ~Before(7) /\ ~HasHuge /\ Copied /\ Doing(6, 1) /\ ~Doing(6, 2) /\ ~Doing(11, 1) /\ ~Doing(4, 1)
  BY <1>1, <1>2, Lengths DEF Doing, Before, HasHuge, Copied
<1>5. /\ ~Before(6)' /\ ~Before(7)' /\ ~HasHuge' /\ ~Copied' /\ ~Doing(6, 1)' /\ ~Doing(6, 2)' /\ ~Doing(11, 1)'
      /\ ~Doing(4, 1)'
  BY <1>1, <1>2, <1>3, Lengths DEF Doing, Before, HasHuge, Copied
<1>6. MadviseInv'
  BY <1>1, <1>2, <1>4, <1>5 DEF GoodInv, MadviseInv
<1>7. SlotsInv'
  BY <1>1, <1>4, <1>5 DEF GoodInv, SlotsInv
<1>8. FramesInv'
  BY <1>1, <1>4, <1>5 DEF GoodInv, FramesInv
<1>9. Keeps("replacement") /\ Keeps(active_mem)'
  BY <1>1, <1>4 DEF GoodInv, ContentInv, Keeps, Contents
<1>10. ContentInv'
  BY <1>1, <1>4, <1>5, <1>9 DEF GoodInv, ContentInv
<1>11. FlatInv'
  BY <1>1 DEF GoodInv, FlatInv
<1> QED
  BY <1>3, <1>6, <1>7, <1>8, <1>10, <1>11 DEF GoodInv

\* The large page is advised, and written once.
LEMMA HugePageKeeps ==
  ASSUME GoodInv, NEW ok \in BOOLEAN, HugePage(ok)
  PROVE  GoodInv'
<1>1. /\ AtStep("hugepage") /\ vmm.pc = "control" /\ Step(TRUE) /\ thp' = (ok /\ thp)
      /\ host' = [host EXCEPT ![<<"huge", 0>>] = 6, ![<<"huge", 1>>] = IF thp' THEN 7 ELSE 8]
      /\ page' = [page EXCEPT ![6] = FILL, ![IF thp' THEN 7 ELSE 8] = FILL]
      /\ expected' = [g \in DOMAIN expected \cup {4, 5} |-> IF g \in {4, 5} THEN FILL ELSE expected[g]]
      /\ count' = [count EXCEPT !.madvise = @ + 1]
      /\ UNCHANGED <<guest, slots, active_mem, ept>>
  <2>1. HUGE_GFN = 4 /\ HUGE_GFN + 1 = 5
    BY DEF HUGE_GFN
  <2>2. AtStep("hugepage") /\ vmm.pc = "control" /\ Step(TRUE)
    BY DEF HugePage, AtStep
  <2>3. thp' = (ok /\ thp)
    BY Zenon DEF HugePage
  <2>4. /\ host' = [host EXCEPT ![<<"huge", 0>>] = 6, ![<<"huge", 1>>] = IF thp' THEN 7 ELSE 8]
        /\ page' = [page EXCEPT ![6] = FILL, ![IF thp' THEN 7 ELSE 8] = FILL]
        /\ count' = [count EXCEPT !.madvise = @ + 1]
        /\ UNCHANGED <<guest, slots, active_mem, ept>>
    BY Zenon DEF HugePage
  <2>5. expected' = [g \in DOMAIN expected \cup {HUGE_GFN, HUGE_GFN + 1} |->
                       IF g \in {HUGE_GFN, HUGE_GFN + 1} THEN FILL ELSE expected[g]]
    BY Zenon DEF HugePage
  <2>6. expected' = [g \in DOMAIN expected \cup {4, 5} |-> IF g \in {4, 5} THEN FILL ELSE expected[g]]
    BY <2>1, <2>5
  <2> QED
    BY <2>2, <2>3, <2>4, <2>6
<1>2. PlaceInv /\ DOMAIN count = CountFields /\ guest = 11 /\ vmm.todo = Huge3
  BY <1>1, Places, NextStep DEF GoodInv
<1>3. DOMAIN count' = CountFields /\ count'.madvise = count.madvise + 1 /\ count.madvise \in Nat /\ count.madvise # 0
  BY <1>1, <1>2 DEF CountFields, GoodInv, MadviseInv, Doing
<1>4. PlaceInv' /\ vmm'.pc = "control" /\ vmm'.todo = Huge4
  BY <1>1, <1>2, <1>3, FirstSteps, Proceeds
<1>5. ~Before(6) /\ ~Before(7) /\ ~HasHuge /\ ~Copied /\ ~Doing(6, 1) /\ ~Doing(6, 2) /\ ~Doing(11, 1)
  BY <1>1, <1>2, Lengths DEF Doing, Before, HasHuge, Copied
<1>6. /\ ~Before(6)' /\ ~Before(7)' /\ ~HasHuge' /\ ~Copied' /\ ~Doing(6, 1)' /\ ~Doing(6, 2)' /\ Doing(11, 1)'
      /\ ~Doing(4, 1)'
  BY <1>1, <1>2, <1>4, Lengths DEF Doing, Before, HasHuge, Copied
<1>7. MadviseInv'
  BY <1>1, <1>2, <1>3, <1>4, <1>6 DEF GoodInv, MadviseInv
<1>8. SlotsInv'
  BY <1>1, <1>5, <1>6 DEF GoodInv, SlotsInv
<1>9. thp \in BOOLEAN /\ thp' \in BOOLEAN
  BY <1>1 DEF GoodInv, FlatInv
<1>10. /\ host' \in [Pairs -> 0 .. 8] /\ host'[<<"huge", 0>>] = 6
       /\ host'[<<"huge", 1>>] = (IF thp' THEN 7 ELSE 8)
       /\ host'[<<"guest", 0>>] = host[<<"guest", 0>>] /\ host'[<<"guest", 1>>] = host[<<"guest", 1>>]
       /\ host'[<<"replacement", 0>>] = host[<<"replacement", 0>>]
       /\ host'[<<"replacement", 1>>] = host[<<"replacement", 1>>]
  BY <1>1, <1>9, SixPairs DEF GoodInv, FramesInv
<1>11. /\ page' \in [1 .. 8 -> Nat] /\ page'[6] = FILL /\ page'[IF thp' THEN 7 ELSE 8] = FILL
       /\ \A n \in 1 .. 5 : page'[n] = page[n]
  BY <1>1, <1>9 DEF GoodInv, FramesInv, FILL
<1>12. /\ DOMAIN expected = {0, 1} /\ DOMAIN expected' = {0, 1, 4, 5} /\ expected'[4] = FILL /\ expected'[5] = FILL
       /\ expected'[0] = expected[0] /\ expected'[1] = expected[1] /\ Keeps(active_mem)
       /\ expected[0] \in Nat /\ expected[1] \in Nat
  BY <1>1, <1>5 DEF GoodInv, ContentInv
<1>13. FramesInv'
  BY <1>1, <1>3, <1>5, <1>6, <1>10, <1>11, <1>12 DEF GoodInv, FramesInv
<1>14. ContentInv'
  <2>1. active_mem \in {"guest", "replacement"}
    BY DEF GoodInv, MadviseInv
  <2>2. \A p \in {0, 1} : host[<<active_mem, p>>] \in 0 .. 5 /\ host'[<<active_mem, p>>] = host[<<active_mem, p>>]
    BY <1>10, <2>1 DEF GoodInv, FramesInv
  <2>3. \A p \in {0, 1} : Contents(active_mem, p)' = Contents(active_mem, p)
    BY <1>1, <1>11, <2>2 DEF Contents
  <2>4. Keeps(active_mem)'
    BY <1>12, <2>3 DEF Keeps
  <2>5. Contents("huge", 0)' = FILL /\ Contents("huge", 1)' = FILL
    BY <1>9, <1>10, <1>11 DEF Contents
  <2>6. \A g \in DOMAIN expected' : expected'[g] \in Nat
    BY <1>12 DEF FILL
  <2> QED
    BY <1>6, <1>12, <2>4, <2>5, <2>6 DEF ContentInv
<1>15. FlatInv'
  <2>1. ASSUME NEW g \in {0, 1}
        PROVE  Translates(ept.flat[g], g, slots, host', thp')
    <3>1. Translates(ept.flat[g], g, slots, host, thp)
      BY BackedFrames DEF GoodInv, FlatInv
    <3>2. 0 \in DOMAIN slots => slots[0].mem \in {"guest", "replacement"}
      BY DEF GoodInv, SlotsInv, MadviseInv
    <3>3. Translates(ept.flat[g], g, slots, host', thp)
      BY <1>10, <3>1, <3>2, BackedFrames, TranslatesStill
    <3> QED
      BY <3>3 DEF Translates
  <2>2. ASSUME NEW g \in {4, 5}
        PROVE  Translates(ept.flat[g], g, slots, host', thp')
    <3>1. Translates(ept.flat[g], g, slots, host, thp)
      BY BackedFrames DEF GoodInv, FlatInv
    <3>2. SlotOf(g) \notin DOMAIN slots
      BY <1>5, BackedFrames DEF GoodInv, SlotsInv
    <3>3. ept.flat[g].mapped \in BOOLEAN /\ ~ept.flat[g].mapped /\ ~(ept.flat[g].level = 2)
      BY <3>1, <3>2, Zenon DEF Translates
    <3> QED
      BY <3>3, Zenon DEF Translates
  <2>3. \A g \in Backed : Translates(ept.flat[g], g, slots, host', thp')
    BY <2>1, <2>2, BackedFrames
  <2> QED
    BY <1>1, <1>9, <2>3 DEF GoodInv, FlatInv
<1> QED
  BY <1>4, <1>7, <1>8, <1>13, <1>14, <1>15 DEF GoodInv

-----------------------------------------------------------------------------
(* The regions of the commands *)

\* A region that KVM took, as a step of a command.
Registered(r, eager) ==
  /\ vmm.pc = "control" /\ Head(vmm.todo) = r /\ Step(TRUE)
  /\ slots' = Applied(r) /\ ept' = Reshaped(r, eager)
  /\ DOMAIN count' = CountFields /\ count'.madvise = count.madvise
  /\ UNCHANGED <<guest, active_mem, thp, host, page, expected>>

LEMMA SlotStepIs ==
  ASSUME GoodInv, NEW ok \in BOOLEAN, NEW eager \in BOOLEAN, SlotStep(ok, eager)
  PROVE  \/ Stopped'
         \/ Registered(Head(vmm.todo), eager)
<1> DEFINE r == Head(vmm.todo)
<1>1. /\ vmm.pc = "control" /\ Step(ok) /\ UNCHANGED <<guest, active_mem, thp, host, page, expected>>
      /\ SetRegion(r, ok, eager)
  BY DEF SlotStep, AtStep
<1> HIDE DEF r
<1>2. PlaceInv /\ DOMAIN count = CountFields
  BY Places DEF GoodInv
<1>3. /\ slots' = (IF ok THEN Applied(r) ELSE slots) /\ ept' = (IF ok THEN Reshaped(r, eager) ELSE ept)
      /\ count' = [count EXCEPT !.ioctl = @ + 1, !.ops = @ + 1]
  BY <1>1 DEF SetRegion
<1>4. DOMAIN count' = CountFields /\ count'.madvise = count.madvise
  BY <1>2, <1>3 DEF CountFields
<1>5. CASE ~ok
  BY <1>1, <1>2, <1>5, FailureStops
<1>6. CASE ok
  BY <1>1, <1>3, <1>4, <1>6 DEF Registered, r
<1> QED
  BY <1>5, <1>6

\* The pages stay what they were.
LEMMA PagesStay ==
  ASSUME GoodInv, PlaceInv', MadviseInv', SlotsInv', FlatInv', UNCHANGED <<active_mem, thp, host, page, expected>>,
         count'.madvise = count.madvise, ~Before(6), ~Before(6)', Copied' => Copied,
         (HasHuge \/ Doing(11, 1))' <=> (HasHuge \/ Doing(11, 1))
  PROVE  GoodInv'
<1>1. FramesInv'
  BY DEF GoodInv, FramesInv
<1>2. \A mem, p : Contents(mem, p)' = Contents(mem, p)
  BY DEF Contents
<1>3. Keeps(active_mem)' <=> Keeps(active_mem)
  BY <1>2 DEF Keeps
<1>4. Keeps("replacement")' <=> Keeps("replacement")
  BY <1>2 DEF Keeps
<1>5. ContentInv'
  <2> HIDE DEF Contents, Keeps
  <2> QED
    BY <1>2, <1>3, <1>4 DEF GoodInv, ContentInv
<1> QED
  BY <1>1, <1>5 DEF GoodInv

\* A slot that comes, stays or goes.
Took(t, s, r) ==
  /\ DOMAIN t = DOMAIN s \cup {r.slot} /\ t[r.slot].mem = r.mem
  /\ \A n \in DOMAIN s : n # r.slot => t[n] = s[n]

LEMMA SlotTaken ==
  ASSUME NEW r, r.mem # "none"
  PROVE  Took(Applied(r), slots, r)
BY DEF Applied, Took

LEMMA SlotGone ==
  ASSUME NEW r, r.slot \in {0, 1}, r.mem = "none", DOMAIN slots \subseteq {0, 1}, slots' = Applied(r)
  PROVE  DOMAIN slots' = DOMAIN slots \ {r.slot}
<1>1. DOMAIN Applied(r) = DOMAIN slots \ {r.slot}
  BY DEF Applied
<1> HIDE DEF Applied
<1> QED
  BY <1>1

\* The slot goes, and with it every translation.
LEMMA DeleteKeeps ==
  ASSUME GoodInv, NEW eager \in BOOLEAN, guest = 6, vmm.todo = Move2, Registered(Head(vmm.todo), eager)
  PROVE  GoodInv'
<1> DEFINE r == Region(0, "none", FALSE)
<1>1. /\ vmm.pc = "control" /\ Step(TRUE) /\ slots' = Applied(r) /\ ept' = Reshaped(r, eager)
      /\ DOMAIN count' = CountFields /\ count'.madvise = count.madvise
      /\ UNCHANGED <<guest, active_mem, thp, host, page, expected>>
  BY FirstSteps DEF Registered
<1>2. r.slot = 0 /\ r.mem = "none"
  BY DEF Region
<1> HIDE DEF r
<1>3. PlaceInv' /\ vmm'.pc = "control" /\ vmm'.todo = Move3
  BY <1>1, FirstSteps, Proceeds DEF GoodInv
<1>4. ~Before(6) /\ Copied /\ ~HasHuge /\ ~Doing(11, 1) /\ ~Doing(4, 1)
  BY <1>1, Lengths DEF Doing, Before, HasHuge, Copied
<1>5. ~Before(6)' /\ ~Before(7)' /\ ~HasHuge' /\ ~Doing(6, 1)' /\ Doing(6, 2)' /\ ~Doing(11, 1)' /\ ~Doing(4, 1)'
  BY <1>1, <1>3, Lengths DEF Doing, Before, HasHuge
<1>6. MadviseInv'
  BY <1>1, <1>4, <1>5 DEF GoodInv, MadviseInv
<1>7. DOMAIN slots \subseteq {0, 1} /\ 1 \notin DOMAIN slots
  BY <1>4 DEF GoodInv, SlotsInv
<1>8. DOMAIN slots' = {}
  <2>1. slots' = Applied(r)
    BY <1>1
  <2>2. DOMAIN slots' = DOMAIN slots \ {r.slot}
    BY <1>2, <1>7, <2>1, SlotGone
  <2> QED
    BY <1>2, <1>7, <2>2
<1>9. SlotsInv'
  BY <1>5, <1>8 DEF SlotsInv
<1>10. ept' = ZapAll(ept)
  BY <1>1, <1>2 DEF Reshaped
<1>11. FlatInv'
  <2>1. DOMAIN ept' = {"tree", "flat"} /\ DOMAIN ept'.flat = Gfns /\ \A x \in Gfns : ept'.flat[x] = Unmapped
    BY <1>10, ZapAllOnly
  <2>2. \A g \in Backed : Translates(ept'.flat[g], g, slots', host', thp')
    BY <2>1, BackedFrames, UnmappedTranslates
  <2> QED
    BY <1>1, <2>1, <2>2 DEF GoodInv, FlatInv
<1> QED
  BY <1>1, <1>3, <1>4, <1>5, <1>6, <1>9, <1>11, PagesStay

\* The replacement takes the slot's place.
LEMMA ReplaceKeeps ==
  ASSUME GoodInv, NEW eager \in BOOLEAN, guest = 6, vmm.todo = Move3, Registered(Head(vmm.todo), eager)
  PROVE  GoodInv'
<1> DEFINE r == Region(0, "replacement", FALSE)
<1>1. /\ vmm.pc = "control" /\ Step(TRUE) /\ slots' = Applied(r) /\ ept' = Reshaped(r, eager)
      /\ DOMAIN count' = CountFields /\ count'.madvise = count.madvise
      /\ UNCHANGED <<guest, active_mem, thp, host, page, expected>>
  BY FirstSteps DEF Registered
<1>2. r.slot = 0 /\ r.mem = "replacement" /\ r.log = FALSE
  BY DEF Region
<1> HIDE DEF r
<1>3. PlaceInv' /\ vmm'.pc = "control" /\ vmm'.todo = Move4
  BY <1>1, FirstSteps, Proceeds DEF GoodInv
<1>4. ~Before(6) /\ Copied /\ Doing(6, 2) /\ ~HasHuge /\ ~Doing(11, 1) /\ ~Doing(4, 1)
  BY <1>1, Lengths DEF Doing, Before, HasHuge, Copied
<1>5. ~Before(6)' /\ ~Before(7)' /\ ~HasHuge' /\ Doing(6, 1)' /\ ~Doing(6, 2)' /\ ~Doing(11, 1)' /\ ~Doing(4, 1)'
  BY <1>1, <1>3, Lengths DEF Doing, Before, HasHuge
<1>6. MadviseInv'
  BY <1>1, <1>4, <1>5 DEF GoodInv, MadviseInv
<1>7. DOMAIN slots = {}
  <2>1. DOMAIN slots \subseteq {0, 1} /\ 0 \notin DOMAIN slots /\ 1 \notin DOMAIN slots
    BY <1>4 DEF GoodInv, SlotsInv
  <2> QED
    BY <2>1
<1>8. DOMAIN slots' = {0} /\ slots'[0].mem = "replacement"
  <2>1. slots' = Applied(r)
    BY <1>1
  <2>2. Took(Applied(r), slots, r)
    BY <1>2, SlotTaken
  <2>3. Took(slots', slots, r)
    BY <2>1, <2>2
  <2> QED
    BY <1>2, <1>7, <2>3 DEF Took
<1>9. SlotsInv'
  BY <1>5, <1>8 DEF SlotsInv
<1>10. ept' = ept
  BY <1>1, <1>2 DEF Reshaped
<1>11. FlatInv'
  <2>1. \A g \in Backed : Translates(ept.flat[g], g, slots', host, thp)
    BY <1>7, TranslatesStill DEF GoodInv, FlatInv
  <2> QED
    BY <1>1, <1>10, <2>1 DEF GoodInv, FlatInv
<1> QED
  BY <1>1, <1>3, <1>4, <1>5, <1>6, <1>9, <1>11, PagesStay

\* Dirty logging of slot 0: the flags change, the memory does not.
LEMMA LogKeeps ==
  ASSUME GoodInv, NEW eager \in BOOLEAN, guest = 8, vmm.todo = Log1(active_mem), Registered(Head(vmm.todo), eager)
  PROVE  GoodInv'
<1> DEFINE r == Region(0, active_mem, TRUE)
<1>1. /\ vmm.pc = "control" /\ Step(TRUE) /\ slots' = Applied(r) /\ ept' = Reshaped(r, eager)
      /\ DOMAIN count' = CountFields /\ count'.madvise = count.madvise
      /\ UNCHANGED <<guest, active_mem, thp, host, page, expected>>
  BY FirstSteps DEF Registered
<1>2. r.slot = 0 /\ r.mem = active_mem
  BY DEF Region
<1> HIDE DEF r
<1>3. PlaceInv' /\ vmm'.pc = "control" /\ vmm'.todo = Log2
  BY <1>1, FirstSteps, Proceeds DEF GoodInv
<1>4. ~Before(6) /\ ~Before(7) /\ ~HasHuge /\ ~Doing(6, 1) /\ ~Doing(6, 2) /\ ~Doing(11, 1) /\ ~Doing(4, 1)
  BY <1>1, Lengths DEF Doing, Before, HasHuge
<1>5. /\ ~Before(6)' /\ ~Before(7)' /\ ~HasHuge' /\ ~Doing(6, 1)' /\ ~Doing(6, 2)' /\ ~Doing(11, 1)' /\ ~Doing(4, 1)'
      /\ ~Copied'
  BY <1>1, <1>3, Lengths DEF Doing, Before, HasHuge, Copied
<1>6. MadviseInv' /\ active_mem \in {"guest", "replacement"}
  BY <1>1, <1>4, <1>5 DEF GoodInv, MadviseInv
<1>7. 0 \in DOMAIN slots /\ 1 \notin DOMAIN slots /\ slots[0].mem = active_mem /\ DOMAIN slots \subseteq {0, 1}
  BY <1>4 DEF GoodInv, SlotsInv
<1>8. DOMAIN slots' = {0} /\ DOMAIN slots = {0} /\ slots'[0].mem = active_mem
  <2>1. DOMAIN slots = {0}
    BY <1>7
  <2>2. r.mem # "none"
    BY <1>2, <1>6
  <2>3. slots' = Applied(r)
    BY <1>1
  <2>4. Took(Applied(r), slots, r)
    BY <2>2, SlotTaken
  <2>5. Took(slots', slots, r)
    BY <2>3, <2>4
  <2> QED
    BY <1>2, <2>1, <2>5 DEF Took
<1>9. SlotsInv'
  BY <1>1, <1>5, <1>8 DEF SlotsInv
<1>10. ept' = ept
  BY <1>1, <1>2, <1>6 DEF Reshaped
<1>11. FlatInv'
  <2>1. ASSUME NEW g \in Backed
        PROVE  Translates(ept.flat[g], g, slots', host, thp)
    <3>1. Translates(ept.flat[g], g, slots, host, thp)
      BY DEF GoodInv, FlatInv
    <3> QED
      BY <1>7, <1>8, <3>1, TranslatesStill
  <2> QED
    BY <1>1, <1>10, <2>1 DEF GoodInv, FlatInv
<1> QED
  BY <1>1, <1>3, <1>4, <1>5, <1>6, <1>9, <1>11, PagesStay

\* The large page becomes slot 1.
LEMMA HugeSlotKeeps ==
  ASSUME GoodInv, NEW eager \in BOOLEAN, guest = 11, vmm.todo = Huge4, Registered(Head(vmm.todo), eager)
  PROVE  GoodInv'
<1> DEFINE r == Region(1, "huge", FALSE)
<1>1. /\ vmm.pc = "control" /\ Step(TRUE) /\ slots' = Applied(r) /\ ept' = Reshaped(r, eager)
      /\ DOMAIN count' = CountFields /\ count'.madvise = count.madvise
      /\ UNCHANGED <<guest, active_mem, thp, host, page, expected>>
  BY FirstSteps DEF Registered
<1>2. r.slot = 1 /\ r.mem = "huge" /\ r.log = FALSE
  BY DEF Region
<1> HIDE DEF r
<1>3. PlaceInv' /\ vmm'.pc = "control" /\ vmm'.todo = <<>>
  BY <1>1, FirstSteps, Proceeds DEF GoodInv
<1>4. ~Before(6) /\ ~Before(7) /\ ~HasHuge /\ ~Doing(6, 1) /\ ~Doing(6, 2) /\ Doing(11, 1) /\ ~Doing(4, 1)
  BY <1>1, Lengths DEF Doing, Before, HasHuge
<1>5. ~Before(6)' /\ ~Before(7)' /\ HasHuge' /\ ~Doing(6, 1)' /\ ~Doing(6, 2)' /\ ~Doing(4, 1)' /\ ~Copied'
  BY <1>1, <1>3, Lengths DEF Doing, Before, HasHuge, Copied
<1>6. MadviseInv'
  BY <1>1, <1>4, <1>5 DEF GoodInv, MadviseInv
<1>7. 0 \in DOMAIN slots /\ slots[0].mem = active_mem /\ DOMAIN slots = {0}
  <2>1. 0 \in DOMAIN slots /\ slots[0].mem = active_mem /\ DOMAIN slots \subseteq {0, 1} /\ 1 \notin DOMAIN slots
    BY <1>4 DEF GoodInv, SlotsInv
  <2> QED
    BY <2>1
<1>8. DOMAIN slots' = {0, 1} /\ slots'[1].mem = "huge" /\ slots'[0] = slots[0]
  <2>1. slots' = Applied(r)
    BY <1>1
  <2>2. Took(Applied(r), slots, r)
    BY <1>2, SlotTaken
  <2>3. Took(slots', slots, r)
    BY <2>1, <2>2
  <2> QED
    BY <1>2, <1>7, <2>3 DEF Took
<1>9. SlotsInv'
  BY <1>1, <1>5, <1>7, <1>8 DEF SlotsInv
<1>10. ept' = ept
  BY <1>1, <1>2 DEF Reshaped
<1>11. FlatInv'
  <2>1. ASSUME NEW g \in Backed
        PROVE  Translates(ept.flat[g], g, slots', host, thp)
    <3>1. Translates(ept.flat[g], g, slots, host, thp)
      BY DEF GoodInv, FlatInv
    <3> QED
      BY <1>7, <1>8, <3>1, TranslatesStill
  <2> QED
    BY <1>1, <1>10, <2>1 DEF GoodInv, FlatInv
<1> QED
  BY <1>1, <1>3, <1>4, <1>5, <1>6, <1>9, <1>11, PagesStay

\* A large leaf that is split translates to the same frames.
LEMMA SplitTranslates ==
  ASSUME NEW e, NEW s, NEW h, NEW l, DOMAIN e = {"tree", "flat"}, DOMAIN e.flat = Gfns,
         \A g \in Backed : Translates(e.flat[g], g, s, h, l),
         1 \in DOMAIN s, s[1].mem = "huge", h[<<"huge", 0>>] = 6, h[<<"huge", 1>>] = 7, e.flat[4].level = 2,
         NEW u, u = Split(e)
  PROVE  /\ DOMAIN u = {"tree", "flat"} /\ DOMAIN u.flat = Gfns
         /\ \A g \in Backed : Translates(u.flat[g], g, s, h, l)
<1> DEFINE m == MapAt(e, 4, 1, "leaf", 6)
<1>1. e.flat[4].pfn = 6 /\ l
  <2>1. Translates(e.flat[4], 4, s, h, l)
    BY BackedFrames
  <2>2. e.flat[4].mapped /\ l
    BY <2>1 DEF Translates
  <2> QED
    BY <2>1, <2>2, BackedFrames DEF Translates
<1>2. u = MapAt(m, 5, 1, "leaf", 7)
  <2>1. HUGE_GFN = 4 /\ HUGE_GFN + 1 = 5
    BY DEF HUGE_GFN
  <2> QED
    BY <1>1, <2>1 DEF Split
<1> HIDE DEF m
<1>3. 4 \in Gfns /\ 5 \in Gfns /\ 0 \in Gfns /\ 1 \in Gfns
  BY ThreeLevels
<1>4. m = MapAt(e, 4, 1, "leaf", 6)
  BY DEF m
<1>5. m.flat[4] = LeafAt(1, 6) /\ \A x \in Gfns : x # 4 => m.flat[x] = Unmapped \/ m.flat[x] = e.flat[x]
  <2>1. Leafed(MapAt(e, 4, 1, "leaf", 6), e, 4, 6)
    BY <1>3, SmallLeaf
  <2>2. Leafed(m, e, 4, 6)
    BY <1>4, <2>1
  <2> QED
    BY <2>2 DEF Leafed
<1>6. /\ DOMAIN u = {"tree", "flat"} /\ DOMAIN u.flat = Gfns /\ u.flat[5] = LeafAt(1, 7)
      /\ \A x \in Gfns : x # 5 => u.flat[x] = Unmapped \/ u.flat[x] = m.flat[x]
  <2>1. Leafed(MapAt(m, 5, 1, "leaf", 7), m, 5, 7)
    BY <1>3, SmallLeaf
  <2>2. Leafed(u, m, 5, 7)
    BY <1>2, <2>1
  <2> QED
    BY <2>2 DEF Leafed
<1>7. /\ SlotOf(4) \in DOMAIN s /\ h[<<s[SlotOf(4)].mem, PageOf(4)>>] = 6
      /\ SlotOf(5) \in DOMAIN s /\ h[<<s[SlotOf(5)].mem, PageOf(5)>>] = 7
  BY BackedFrames
<1>8. Translates(u.flat[5], 5, s, h, l)
  <2>1. 1 \in {1, 2} /\ 1 # 2 /\ 7 # 0
    OBVIOUS
  <2> QED
    BY <1>6, <1>7, <2>1, LeafTranslates, Zenon
<1>9. Translates(m.flat[4], 4, s, h, l)
  <2>1. 1 \in {1, 2} /\ 1 # 2 /\ 6 # 0
    OBVIOUS
  <2> QED
    BY <1>5, <1>7, <2>1, LeafTranslates, Zenon
<1>10. Translates(u.flat[4], 4, s, h, l)
  BY <1>3, <1>6, <1>9, UnmappedTranslates
<1>11. ASSUME NEW g \in {0, 1}
       PROVE  Translates(u.flat[g], g, s, h, l)
  BY <1>3, <1>5, <1>6, <1>11, UnmappedTranslates, BackedFrames
<1> QED
  BY <1>6, <1>8, <1>10, <1>11, BackedFrames

\* Dirty logging of slot 1, which may split the large page at once.
LEMMA SplitKeeps ==
  ASSUME GoodInv, NEW eager \in BOOLEAN, guest = 13, vmm.todo = Split1, Registered(Head(vmm.todo), eager)
  PROVE  GoodInv'
<1> DEFINE r == Region(1, "huge", TRUE)
<1>1. /\ vmm.pc = "control" /\ Step(TRUE) /\ slots' = Applied(r) /\ ept' = Reshaped(r, eager)
      /\ DOMAIN count' = CountFields /\ count'.madvise = count.madvise
      /\ UNCHANGED <<guest, active_mem, thp, host, page, expected>>
  BY FirstSteps DEF Registered
<1>2. r.slot = 1 /\ r.mem = "huge"
  BY DEF Region
<1> HIDE DEF r
<1>3. PlaceInv' /\ vmm'.pc = "control" /\ vmm'.todo = <<>>
  BY <1>1, FirstSteps, Proceeds DEF GoodInv
<1>4. ~Before(6) /\ ~Before(7) /\ HasHuge /\ ~Doing(6, 1) /\ ~Doing(6, 2) /\ ~Doing(4, 1)
  BY <1>1, Lengths DEF Doing, Before, HasHuge
<1>5. ~Before(6)' /\ ~Before(7)' /\ HasHuge' /\ ~Doing(6, 1)' /\ ~Doing(6, 2)' /\ ~Doing(4, 1)' /\ ~Copied'
  BY <1>1, <1>3, Lengths DEF Doing, Before, HasHuge, Copied
<1>6. MadviseInv'
  BY <1>1, <1>4, <1>5 DEF GoodInv, MadviseInv
<1>7. 0 \in DOMAIN slots /\ slots[0].mem = active_mem /\ DOMAIN slots = {0, 1} /\ slots[1].mem = "huge"
  <2>1. /\ 0 \in DOMAIN slots /\ slots[0].mem = active_mem /\ DOMAIN slots \subseteq {0, 1} /\ 1 \in DOMAIN slots
        /\ slots[1].mem = "huge"
    BY <1>4 DEF GoodInv, SlotsInv
  <2> QED
    BY <2>1
<1>8. DOMAIN slots' = {0, 1} /\ slots'[1].mem = "huge" /\ slots'[0] = slots[0]
  <2>1. slots' = Applied(r)
    BY <1>1
  <2>2. Took(Applied(r), slots, r)
    BY <1>2, SlotTaken
  <2>3. Took(slots', slots, r)
    BY <2>1, <2>2
  <2> QED
    BY <1>2, <1>7, <2>3 DEF Took
<1>9. SlotsInv'
  BY <1>1, <1>5, <1>7, <1>8 DEF SlotsInv
<1>10. \A g \in Backed : Translates(ept.flat[g], g, slots', host, thp)
  <2>1. ASSUME NEW g \in Backed
        PROVE  Translates(ept.flat[g], g, slots', host, thp)
    <3>1. Translates(ept.flat[g], g, slots, host, thp)
      BY DEF GoodInv, FlatInv
    <3> QED
      BY <1>7, <1>8, <3>1, TranslatesStill
  <2> QED
    BY <2>1
<1>11. DOMAIN ept = {"tree", "flat"} /\ DOMAIN ept.flat = Gfns /\ thp \in BOOLEAN
  BY DEF GoodInv, FlatInv
<1>12. ept' = ept \/ (ept' = Split(ept) /\ ept.flat[4].level = 2)
  BY <1>1, <1>2 DEF Reshaped, HUGE_GFN
<1>13. CASE ept' = ept
  <2>1. FlatInv'
    BY <1>1, <1>10, <1>11, <1>13 DEF FlatInv
  <2> QED
    BY <1>1, <1>3, <1>4, <1>5, <1>6, <1>9, <2>1, PagesStay
<1>14. CASE ept' = Split(ept) /\ ept.flat[4].level = 2
  <2>1. thp
    <3>1. Translates(ept.flat[4], 4, slots', host, thp)
      BY <1>10, BackedFrames
    <3> QED
      BY <1>14, <3>1 DEF Translates
  <2>2. host[<<"huge", 0>>] = 6 /\ host[<<"huge", 1>>] = 7
    <3>1. 4 \in DOMAIN expected
      BY <1>4 DEF GoodInv, ContentInv
    <3> QED
      BY <2>1, <3>1 DEF GoodInv, FramesInv
  <2>3. /\ DOMAIN ept' = {"tree", "flat"} /\ DOMAIN ept'.flat = Gfns
        /\ \A g \in Backed : Translates(ept'.flat[g], g, slots', host, thp)
    BY <1>8, <1>10, <1>11, <1>14, <2>2, SplitTranslates
  <2>4. FlatInv'
    BY <1>1, <1>11, <2>3 DEF FlatInv
  <2> QED
    BY <1>1, <1>3, <1>4, <1>5, <1>6, <1>9, <2>4, PagesStay
<1> QED
  BY <1>12, <1>13, <1>14

LEMMA SlotStepKeeps ==
  ASSUME GoodInv, NEW ok \in BOOLEAN, NEW eager \in BOOLEAN, SlotStep(ok, eager)
  PROVE  MemoryInv'
<1>1. CASE Stopped'
  BY <1>1 DEF MemoryInv
<1>2. CASE Registered(Head(vmm.todo), eager)
  <2>1. \/ guest = 6 /\ vmm.todo \in {Move2, Move3}
        \/ guest = 8 /\ vmm.todo = Log1(active_mem)
        \/ guest = 11 /\ vmm.todo = Huge4
        \/ guest = 13 /\ vmm.todo = Split1
    BY NextStep DEF GoodInv, SlotStep
  <2>2. GoodInv'
    BY <1>2, <2>1, DeleteKeeps, ReplaceKeeps, LogKeeps, HugeSlotKeeps, SplitKeeps
  <2> QED
    BY <2>2 DEF MemoryInv
<1> QED
  BY <1>1, <1>2, SlotStepIs

-----------------------------------------------------------------------------
(* The guest *)

\* No two pages share a frame.
LEMMA FramesDistinct ==
  ASSUME FramesInv, NEW x \in Pairs, NEW y \in Pairs, host[x] = host[y], host[x] # 0
  PROVE  x = y
BY SixPairs DEF FramesInv

\* The frames that an instruction needs are the guest's, and only the data page can lack a host frame.
LEMMA NeededFrames ==
  ASSUME GoodInv, vmm.pc = "guest", NEW g \in Needs, NEW mem, mem = slots[SlotOf(g)].mem
  PROVE  /\ g \in Backed /\ SlotOf(g) \in DOMAIN slots /\ mem \in Memories /\ PageOf(g) \in {0, 1}
         /\ g \in DOMAIN expected
         /\ g \in {0, 1} => mem = active_mem
         /\ g \in {4, 5} => mem = "huge"
         /\ host[<<mem, PageOf(g)>>] = 0 => mem = "guest" /\ PageOf(g) = 1 /\ g = 1
         /\ Program[guest].op = "write" => guest \in {2, 4, 6, 8, 11, 13} /\ Program[guest].arg \in {1, 4, 5}
<1>1. guest \in 1 .. 14
  BY Places DEF GoodInv
<1>2. Program[guest].op = "write" =>
        /\ guest \in {2, 4, 6, 8, 11, 13}
        /\ Program[guest].arg \in {1, 4, 5}
        /\ Program[guest].arg # 1 => guest >= 11
  BY <1>1, Instructions DEF Op
<1>3. g = 0 \/ g = 1 \/ (g \in {4, 5} /\ guest >= 11)
  BY <1>2 DEF Needs
<1>4. /\ 0 \in DOMAIN slots /\ slots[0].mem = active_mem /\ active_mem \in {"guest", "replacement"}
      /\ guest >= 11 => 1 \in DOMAIN slots
      /\ 1 \in DOMAIN slots => slots[1].mem = "huge" /\ DOMAIN expected = {0, 1, 4, 5}
      /\ 1 \notin DOMAIN slots => DOMAIN expected = {0, 1}
      /\ host[<<"guest", 0>>] = 1
  BY SlotsOfGuest
<1>5. /\ active_mem = "replacement" => host[<<"replacement", 0>>] = 4 /\ host[<<"replacement", 1>>] = 5
      /\ 4 \in DOMAIN expected => host[<<"huge", 0>>] = 6 /\ host[<<"huge", 1>>] # 0
  BY DEF GoodInv, FramesInv
<1>6. CASE g = 0
  BY <1>2, <1>4, <1>5, <1>6, BackedFrames DEF Memories
<1>7. CASE g = 1
  BY <1>2, <1>4, <1>5, <1>7, BackedFrames DEF Memories
<1>8. CASE g \in {4, 5} /\ guest >= 11
  <2>1. SlotOf(g) = 1 /\ PageOf(g) \in {0, 1} /\ mem = "huge" /\ g \in Backed
    BY <1>4, <1>8, BackedFrames
  <2>2. host[<<"huge", PageOf(g)>>] # 0
    BY <1>4, <1>5, <1>8, <2>1
  <2> QED
    BY <1>2, <1>4, <1>8, <2>1, <2>2 DEF Memories
<1> QED
  BY <1>3, <1>6, <1>7, <1>8

LEMMA WriteKeeps ==
  ASSUME GoodInv, Write
  PROVE  GoodInv'
<1>0. PICK g, mem, pfn : g = Program[guest].arg /\ mem = slots[SlotOf(g)].mem /\ pfn = ept.flat[g].pfn
  OBVIOUS
<1>1. /\ vmm.pc = "guest" /\ Program[guest].op = "write" /\ \A x \in Needs : Writable(x)
      /\ guest' = guest + 1 /\ page' = [page EXCEPT ![pfn] = guest] /\ expected' = [expected EXCEPT ![g] = guest]
      /\ UNCHANGED <<vmm, slots, active_mem, thp, host, ept, count>>
  BY <1>0 DEF Write, Ready, At
<1>2. g \in Needs
  BY <1>0, <1>1 DEF Needs
<1>3. ept.flat[g].mapped
  BY <1>1, <1>2 DEF Writable
<1>4. /\ g \in Backed /\ SlotOf(g) \in DOMAIN slots /\ mem \in Memories /\ PageOf(g) \in {0, 1} /\ g \in DOMAIN expected
      /\ g \in {0, 1} => mem = active_mem
      /\ g \in {4, 5} => mem = "huge"
      /\ guest \in {2, 4, 6, 8, 11, 13} /\ g \in {1, 4, 5}
  BY <1>0, <1>1, <1>2, NeededFrames
<1>5. pfn = host[<<mem, PageOf(g)>>] /\ pfn # 0
  <2>1. Translates(ept.flat[g], g, slots, host, thp)
    BY <1>4 DEF GoodInv, FlatInv
  <2> QED
    BY <1>0, <1>3, <2>1 DEF Translates
<1>6. <<mem, PageOf(g)>> \in Pairs
  BY <1>4, SixPairs
<1>7. host \in [Pairs -> 0 .. 8] /\ page \in [1 .. 8 -> Nat]
  BY DEF GoodInv, FramesInv
<1>8. pfn \in 1 .. 8
  <2>1. host[<<mem, PageOf(g)>>] \in 0 .. 8
    BY <1>6, <1>7
  <2> QED
    BY <1>5, <2>1
<1>9. page' \in [1 .. 8 -> Nat] /\ page'[pfn] = guest /\ \A n \in 1 .. 8 : n # pfn => page'[n] = page[n]
  BY <1>1, <1>4, <1>7, <1>8
<1>10. /\ DOMAIN expected' = DOMAIN expected /\ expected'[g] = guest
       /\ \A x \in DOMAIN expected : x # g => expected'[x] = expected[x]
  BY <1>1, <1>4
<1>11. Contents(mem, PageOf(g))' = guest
  BY <1>1, <1>5, <1>9 DEF Contents
<1>12. ASSUME NEW m \in Memories, NEW p \in {0, 1}, <<m, p>> # <<mem, PageOf(g)>>
       PROVE  host[<<m, p>>] # pfn /\ Contents(m, p)' = Contents(m, p)
  <2>1. <<m, p>> \in Pairs
    BY SixPairs
  <2>2. host[<<m, p>>] # pfn
    BY <1>5, <1>6, <1>12, <2>1, FramesDistinct DEF GoodInv
  <2>3. host[<<m, p>>] \in 0 .. 8
    BY <1>7, <2>1
  <2> QED
    BY <1>1, <1>9, <2>2, <2>3 DEF Contents
<1>13. \A m, n : ~Doing(m, n) /\ ~Doing(m, n)'
  BY <1>1 DEF Doing
<1>14. ~Before(6) /\ ~Before(7) /\ ~Before(6)' /\ ~Before(7)' /\ ~Copied /\ ~Copied'
  BY <1>1, <1>13 DEF Before, Copied
<1>15. HasHuge' <=> HasHuge
  BY <1>1, <1>4, <1>13 DEF HasHuge
<1>16. PlaceInv'
  BY <1>1, <1>4, Places DEF GoodInv, PlaceInv
<1>17. MadviseInv'
  BY <1>1, <1>4, <1>13 DEF GoodInv, MadviseInv
<1>18. SlotsInv'
  BY <1>1, <1>13, <1>14, <1>15 DEF GoodInv, SlotsInv
<1>19. FramesInv'
  <2>1. pfn = 2 \/ pfn = 3 => host[<<"guest", 1>>] = pfn
    <3>1. host[<<mem, PageOf(g)>>] \in {2, 3} => <<mem, PageOf(g)>> = <<"guest", 1>>
      BY <1>6, SixPairs DEF GoodInv, FramesInv
    <3> QED
      BY <1>5, <3>1
  <2>2. count.madvise = 0 => page'[3] = page[3]
    BY <1>8, <1>9, <2>1 DEF GoodInv, FramesInv
  <2>3. host[<<"guest", 1>>] = 0 => page'[2] = page[2] /\ page'[3] = page[3]
    BY <1>5, <1>9, <2>1
  <2> QED
    BY <1>1, <1>9, <1>10, <1>14, <2>2, <2>3 DEF GoodInv, FramesInv
<1>20. ContentInv'
  <2>1. DOMAIN expected = (IF HasHuge THEN {0, 1, 4, 5} ELSE {0, 1}) /\ Keeps(active_mem)
    BY <1>13, <1>14 DEF GoodInv, ContentInv
  <2>2. \A x \in DOMAIN expected' : expected'[x] \in Nat
    BY <1>4, <1>10 DEF GoodInv, ContentInv
  <2>3. active_mem \in Memories /\ active_mem # "huge" /\ "huge" \in Memories
    BY DEF GoodInv, MadviseInv, Memories
  <2>4. 4 \in DOMAIN expected => expected[4] = Contents("huge", 0) /\ expected[5] = Contents("huge", 1)
    BY DEF GoodInv, ContentInv
  <2>5. expected[0] = Contents(active_mem, 0) /\ expected[1] = Contents(active_mem, 1)
    BY <2>1 DEF Keeps
  <2>6. active_mem' = active_mem
    BY <1>1
  <2> HIDE DEF Contents
  <2>7. CASE g = 1
    <3>1. mem = active_mem /\ PageOf(g) = 1
      BY <1>4, <2>7, BackedFrames
    <3>2. Contents(active_mem, 1)' = guest
      BY <1>11, <2>6, <3>1
    <3>3. Contents(active_mem, 0)' = Contents(active_mem, 0)
      <4>1. <<mem, 0>> # <<mem, PageOf(g)>>
        BY <3>1
      <4>2. Contents(mem, 0)' = Contents(mem, 0)
        BY <1>4, <1>12, <4>1
      <4> QED
        BY <2>6, <3>1, <4>2
    <3>4. Contents("huge", 0)' = Contents("huge", 0) /\ Contents("huge", 1)' = Contents("huge", 1)
      BY <1>12, <2>3, <3>1
    <3>5. Keeps(active_mem)'
      BY <1>10, <2>1, <2>5, <2>7, <3>2, <3>3 DEF Keeps
    <3> QED
      BY <1>10, <1>13, <1>14, <1>15, <2>1, <2>2, <2>4, <2>7, <3>4, <3>5 DEF ContentInv
  <2>8. CASE g \in {4, 5}
    <3>1. mem = "huge" /\ PageOf(g) = g - 4
      BY <1>4, <2>8, BackedFrames
    <3>2. Contents("huge", g - 4)' = guest
      BY <1>11, <3>1
    <3>3. Contents(active_mem, 0)' = Contents(active_mem, 0) /\ Contents(active_mem, 1)' = Contents(active_mem, 1)
      BY <1>12, <2>3, <2>6, <3>1
    <3>4. \A p \in {0, 1} : p # g - 4 => Contents("huge", p)' = Contents("huge", p)
      BY <1>12, <2>3, <3>1
    <3>5. Keeps(active_mem)'
      BY <1>10, <2>1, <2>5, <2>8, <3>3 DEF Keeps
    <3>6. 4 \in DOMAIN expected /\ 5 \in DOMAIN expected
      BY <1>4, <2>1, <2>8
    <3>7. expected'[4] = Contents("huge", 0)' /\ expected'[5] = Contents("huge", 1)'
      <4>1. CASE g = 4
        BY <1>10, <2>4, <3>2, <3>4, <3>6, <4>1
      <4>2. CASE g = 5
        BY <1>10, <2>4, <3>2, <3>4, <3>6, <4>2
      <4> QED
        BY <2>8, <4>1, <4>2
    <3> QED
      BY <1>10, <1>13, <1>14, <1>15, <2>1, <2>2, <3>5, <3>7 DEF ContentInv
  <2> QED
    BY <1>4, <2>7, <2>8
<1>21. FlatInv'
  BY <1>1 DEF GoodInv, FlatInv
<1> QED
  BY <1>16, <1>17, <1>18, <1>19, <1>20, <1>21 DEF GoodInv

\* The MMIO entry is not the translation of a page.
LEMMA MmioAccessKeeps ==
  ASSUME GoodInv, MmioAccess
  PROVE  GoodInv'
<1>1. /\ vmm.pc = "guest" /\ Program[guest].op = "mmio" /\ guest' = guest + 1
      /\ vmm' = [vmm EXCEPT !.pc = "exit"] /\ ept' = MapAt(ept, 3, 1, "mmio", 0)
      /\ UNCHANGED <<slots, active_mem, thp, host, page, count, expected>>
  BY DEF MmioAccess, Ready, At, ToUserspace, MMIO_GFN
<1>2. /\ PlaceInv /\ DOMAIN vmm = VmmFields /\ DOMAIN count = CountFields /\ vmm.failed = FALSE
      /\ vmm.i \in 1 .. 13 /\ guest \in 1 .. 14
  BY <1>1, Places DEF GoodInv
<1>3. guest = 9
  BY <1>1, <1>2, Instructions DEF Op
<1>4. DOMAIN vmm' = VmmFields /\ vmm'.pc = "exit" /\ vmm'.i = vmm.i /\ vmm'.failed = FALSE
  BY <1>1, <1>2 DEF VmmFields
<1>5. PlaceInv'
  BY <1>1, <1>2, <1>3, <1>4 DEF PlaceInv
<1>6. \A m, n : ~Doing(m, n) /\ ~Doing(m, n)'
  BY <1>1, <1>4 DEF Doing
<1>7. ~Before(6) /\ ~Before(7) /\ ~Before(6)' /\ ~Before(7)' /\ ~Copied' /\ ~HasHuge /\ ~HasHuge'
  BY <1>1, <1>3, <1>4, <1>6 DEF Before, Copied, HasHuge
<1>8. MadviseInv'
  BY <1>1, <1>3, <1>4, <1>6 DEF GoodInv, MadviseInv
<1>9. SlotsInv'
  BY <1>1, <1>6, <1>7 DEF GoodInv, SlotsInv
<1>10. FlatInv'
  <2>1. 3 \in Gfns
    BY ThreeLevels
  <2>2. Remapped(MapAt(ept, 3, 1, "mmio", 0), ept, 3, 1, "mmio", 0)
    BY <2>1, MapsOnly
  <2>3. ept' = MapAt(ept, 3, 1, "mmio", 0)
    BY <1>1
  <2>4. Remapped(ept', ept, 3, 1, "mmio", 0)
    BY <2>2, <2>3
  <2>5. \A x \in Backed : Node(1, x) # Node(1, 3)
    BY <2>1, SameNode, BackedFrames
  <2>6. /\ DOMAIN ept' = {"tree", "flat"} /\ DOMAIN ept'.flat = Gfns
        /\ \A x \in Backed : ept'.flat[x] = Unmapped \/ ept'.flat[x] = ept.flat[x]
    BY <2>4, <2>5, BackedFrames DEF Remapped
  <2>7. \A x \in Backed : Translates(ept'.flat[x], x, slots, host, thp)
    BY <2>6, UnmappedTranslates DEF GoodInv, FlatInv
  <2> QED
    BY <1>1, <2>6, <2>7 DEF GoodInv, FlatInv
<1> QED
  BY <1>1, <1>5, <1>6, <1>7, <1>8, <1>9, <1>10, PagesStay

\* An EPT violation: the frame that was not there is zero, as its page was.
LEMMA FaultedIn ==
  ASSUME GoodInv, NEW g, PageFault(g)
  PROVE  \E mem, pfn :
           /\ mem = slots[SlotOf(g)].mem /\ g \in Needs /\ vmm.pc = "guest"
           /\ pfn \in 1 .. 8 /\ host' = [host EXCEPT ![<<mem, PageOf(g)>>] = pfn]
           /\ host[<<mem, PageOf(g)>>] # 0 => pfn = host[<<mem, PageOf(g)>>]
           /\ host[<<mem, PageOf(g)>>] = 0 => /\ mem = "guest" /\ PageOf(g) = 1
                                              /\ pfn = (IF count.madvise = 0 THEN 2 ELSE 3) /\ page[pfn] = ZERO
           /\ \/ ept' = MapAt(ept, g, 1, "leaf", pfn)
              \/ mem = "huge" /\ thp /\ ept' = MapAt(ept, g, 2, "leaf", pfn - PageOf(g))
           /\ UNCHANGED <<vmm, guest, slots, active_mem, thp, page, count, expected>>
<1> DEFINE mem == slots[SlotOf(g)].mem
           old == host[<<mem, PageOf(g)>>]
           new == IF mem = "replacement" THEN 4 + PageOf(g) ELSE IF count.madvise = 0 THEN 2 ELSE 3
           pfn == IF old = 0 THEN new ELSE old
           large == mem = "huge" /\ thp /\ ~slots[1].log
<1>1. /\ vmm.pc = "guest" /\ g \in Needs /\ host' = [host EXCEPT ![<<mem, PageOf(g)>>] = pfn]
      /\ ept' = MapAt(ept, g, IF large THEN 2 ELSE 1, "leaf", IF large THEN pfn - PageOf(g) ELSE pfn)
      /\ UNCHANGED <<vmm, guest, slots, active_mem, thp, page, count, expected>>
  BY DEF PageFault
<1>2. \/ ept' = MapAt(ept, g, 1, "leaf", pfn)
      \/ mem = "huge" /\ thp /\ ept' = MapAt(ept, g, 2, "leaf", pfn - PageOf(g))
  <2>1. CASE large
    BY <1>1, <2>1
  <2>2. CASE ~large
    BY <1>1, <2>2
  <2> QED
    BY <2>1, <2>2
<1>3. /\ mem \in Memories /\ PageOf(g) \in {0, 1}
      /\ old = 0 => mem = "guest" /\ PageOf(g) = 1
  BY <1>1, NeededFrames
<1> HIDE DEF mem
<1>4. old \in 0 .. 8
  BY <1>3, SixPairs DEF GoodInv, FramesInv
<1>5. old # 0 => pfn = old /\ pfn \in 1 .. 8
  BY <1>4
<1>6. old = 0 => pfn = (IF count.madvise = 0 THEN 2 ELSE 3) /\ pfn \in 1 .. 8 /\ page[pfn] = ZERO
  BY <1>3 DEF GoodInv, FramesInv
<1> QED
  BY <1>1, <1>2, <1>3, <1>5, <1>6 DEF mem

LEMMA PageFaultKeeps ==
  ASSUME GoodInv, NEW g \in Backed, PageFault(g)
  PROVE  GoodInv'
<1>1. PICK mem, pfn :
           /\ mem = slots[SlotOf(g)].mem /\ g \in Needs /\ vmm.pc = "guest"
           /\ pfn \in 1 .. 8 /\ host' = [host EXCEPT ![<<mem, PageOf(g)>>] = pfn]
           /\ host[<<mem, PageOf(g)>>] # 0 => pfn = host[<<mem, PageOf(g)>>]
           /\ host[<<mem, PageOf(g)>>] = 0 => /\ mem = "guest" /\ PageOf(g) = 1
                                              /\ pfn = (IF count.madvise = 0 THEN 2 ELSE 3) /\ page[pfn] = ZERO
           /\ \/ ept' = MapAt(ept, g, 1, "leaf", pfn)
              \/ mem = "huge" /\ thp /\ ept' = MapAt(ept, g, 2, "leaf", pfn - PageOf(g))
           /\ UNCHANGED <<vmm, guest, slots, active_mem, thp, page, count, expected>>
  BY FaultedIn
<1>2. PICK p : p = PageOf(g)
  OBVIOUS
<1>3. /\ SlotOf(g) \in DOMAIN slots /\ mem \in Memories /\ p \in {0, 1} /\ g \in DOMAIN expected
      /\ g \in {0, 1} => mem = active_mem
      /\ g \in {4, 5} => mem = "huge"
  BY <1>1, <1>2, NeededFrames
<1>4. <<mem, p>> \in Pairs
  BY <1>3, SixPairs
<1>5. host \in [Pairs -> 0 .. 8] /\ page \in [1 .. 8 -> Nat]
  BY DEF GoodInv, FramesInv
<1>6. host' \in [Pairs -> 0 .. 8] /\ host'[<<mem, p>>] = pfn /\ \A x \in Pairs : x # <<mem, p>> => host'[x] = host[x]
  BY <1>1, <1>2, <1>4, <1>5
<1>7. \A x \in Pairs : host'[x] = host[x] \/ (x = <<"guest", 1>> /\ host[x] = 0 /\ x = <<mem, p>>)
  BY <1>1, <1>2, <1>6
<1>8. host[<<"guest", 1>>] = 0 => \/ host'[<<"guest", 1>>] = 0
                                  \/ /\ host'[<<"guest", 1>>] = (IF count.madvise = 0 THEN 2 ELSE 3)
                                     /\ page[host'[<<"guest", 1>>]] = ZERO
  BY <1>1, <1>2, <1>6, <1>7, SixPairs
<1>9. /\ host'[<<"guest", 0>>] = host[<<"guest", 0>>] /\ host'[<<"replacement", 0>>] = host[<<"replacement", 0>>]
      /\ host'[<<"replacement", 1>>] = host[<<"replacement", 1>>] /\ host'[<<"huge", 0>>] = host[<<"huge", 0>>]
      /\ host'[<<"huge", 1>>] = host[<<"huge", 1>>]
      /\ host[<<"guest", 1>>] # 0 => host'[<<"guest", 1>>] = host[<<"guest", 1>>]
  BY <1>7, SixPairs
<1>10. \A m, n : ~Doing(m, n) /\ ~Doing(m, n)'
  BY <1>1 DEF Doing
<1>11. ~Before(6) /\ ~Before(7) /\ ~Before(6)' /\ ~Before(7)' /\ ~Copied /\ ~Copied'
  BY <1>1, <1>10 DEF Before, Copied
<1>12. HasHuge' <=> HasHuge
  BY <1>1, <1>10 DEF HasHuge
<1>13. PlaceInv' /\ MadviseInv'
  <2>1. PlaceInv'
    BY <1>1, Places DEF GoodInv, PlaceInv
  <2>2. MadviseInv'
    BY <1>1, <1>10 DEF GoodInv, MadviseInv
  <2> QED
    BY <2>1, <2>2
<1>14. SlotsInv'
  BY <1>1, <1>10, <1>11, <1>12 DEF GoodInv, SlotsInv
<1>15. FramesInv'
  <2>1. host'[<<"guest", 1>>] \in {0, 2, 3} /\ (count.madvise = 0 => host'[<<"guest", 1>>] # 3)
    BY <1>8, <1>9 DEF GoodInv, FramesInv
  <2>2. host'[<<"guest", 1>>] = 0 => host[<<"guest", 1>>] = 0
    BY <1>9
  <2>3. UNCHANGED <<vmm, guest, slots, active_mem, thp, page, count, expected>>
    BY <1>1
  <2> QED
    BY <1>6, <1>9, <1>11, <2>1, <2>2, <2>3 DEF GoodInv, FramesInv
<1>16. ContentInv'
  <2>1. \A m \in Memories, q \in {0, 1} : Contents(m, q)' = Contents(m, q)
    <3>1. SUFFICES ASSUME NEW m \in Memories, NEW q \in {0, 1}
                   PROVE  Contents(m, q)' = Contents(m, q)
      OBVIOUS
    <3>2. CASE host'[<<m, q>>] = host[<<m, q>>]
      BY <1>1, <3>2 DEF Contents
    <3>3. CASE host'[<<m, q>>] # host[<<m, q>>]
      <4>1. <<m, q>> = <<"guest", 1>> /\ host[<<m, q>>] = 0
        BY <1>7, <3>3, SixPairs
      <4>2. Contents(m, q) = ZERO
        BY <4>1 DEF Contents
      <4>3. page' = page
        BY <1>1
      <4>4. host'[<<m, q>>] # 0 /\ page'[host'[<<m, q>>]] = ZERO
        BY <1>8, <3>3, <4>1, <4>3
      <4>5. Contents(m, q)' = ZERO
        BY <4>4 DEF Contents
      <4> QED
        BY <4>2, <4>5
    <3> QED
      BY <3>2, <3>3
  <2>2. active_mem \in Memories /\ "huge" \in Memories /\ active_mem' = active_mem /\ expected' = expected
    BY <1>1 DEF GoodInv, MadviseInv, Memories
  <2> HIDE DEF Contents
  <2>3. Contents(active_mem, 0)' = Contents(active_mem, 0) /\ Contents(active_mem, 1)' = Contents(active_mem, 1)
    <3>1. PICK a : a = active_mem
      OBVIOUS
    <3>2. Contents(a, 0)' = Contents(a, 0) /\ Contents(a, 1)' = Contents(a, 1)
      BY <2>1, <2>2, <3>1
    <3> QED
      BY <2>2, <3>1, <3>2
  <2>4. Contents("huge", 0)' = Contents("huge", 0) /\ Contents("huge", 1)' = Contents("huge", 1)
    BY <2>1, <2>2
  <2>5. Keeps(active_mem) => Keeps(active_mem)'
    BY <2>2, <2>3 DEF Keeps
  <2> QED
    BY <1>10, <1>11, <1>12, <2>2, <2>4, <2>5 DEF GoodInv, ContentInv
<1>17. \A x \in Backed : Translates(ept.flat[x], x, slots, host, thp)
  BY DEF GoodInv, FlatInv
<1>18. ASSUME NEW x \in Backed, x # g, NEW f, f = Unmapped \/ f = ept.flat[x]
       PROVE  Translates(f, x, slots, host', thp)
  <2>1. Translates(f, x, slots, host, thp)
    BY <1>17, <1>18, UnmappedTranslates
  <2>2. SlotOf(x) \in DOMAIN slots =>
          host'[<<slots[SlotOf(x)].mem, PageOf(x)>>] = host[<<slots[SlotOf(x)].mem, PageOf(x)>>]
    <3> SUFFICES ASSUME SlotOf(x) \in DOMAIN slots
                 PROVE  host'[<<slots[SlotOf(x)].mem, PageOf(x)>>] = host[<<slots[SlotOf(x)].mem, PageOf(x)>>]
      OBVIOUS
    <3>1. slots[0].mem = active_mem /\ active_mem \in {"guest", "replacement"} /\ (1 \in DOMAIN slots => slots[1].mem = "huge")
      BY <1>1, SlotsOfGuest
    <3>2. <<slots[SlotOf(x)].mem, PageOf(x)>> \in Pairs
      BY <3>1, BackedFrames, SixPairs DEF Memories
    <3>3. <<slots[SlotOf(x)].mem, PageOf(x)>> # <<mem, p>>
      BY <1>2, <1>3, <1>18, <3>1, BackedFrames
    <3> QED
      BY <1>6, <3>2, <3>3
  <2> QED
    BY <2>1, <2>2, TranslatesStill
<1>19. FlatInv'
  <2>1. SlotOf(g) \in DOMAIN slots /\ pfn # 0 /\ pfn = host'[<<slots[SlotOf(g)].mem, PageOf(g)>>]
    BY <1>1, <1>2, <1>3, <1>6
  <2>2. UNCHANGED <<slots, thp>> /\ thp \in BOOLEAN
    BY <1>1 DEF GoodInv, FlatInv
  <2>3. CASE ept' = MapAt(ept, g, 1, "leaf", pfn)
    <3>1. Leafed(MapAt(ept, g, 1, "leaf", pfn), ept, g, pfn)
      BY <1>1, BackedFrames, SmallLeaf
    <3>2. Leafed(ept', ept, g, pfn)
      BY <2>3, <3>1
    <3>3. /\ DOMAIN ept' = {"tree", "flat"} /\ DOMAIN ept'.flat = Gfns /\ ept'.flat[g] = LeafAt(1, pfn)
          /\ \A x \in Backed : x # g => ept'.flat[x] = Unmapped \/ ept'.flat[x] = ept.flat[x]
      BY <3>2, BackedFrames DEF Leafed
    <3>4. Translates(ept'.flat[g], g, slots, host', thp)
      <4>1. 1 \in {1, 2} /\ 1 # 2
        OBVIOUS
      <4> QED
        BY <2>1, <3>3, <4>1, LeafTranslates, Zenon
    <3>5. \A x \in Backed : Translates(ept'.flat[x], x, slots, host', thp)
      BY <1>18, <3>3, <3>4
    <3> QED
      BY <2>2, <3>3, <3>5 DEF FlatInv
  <2>4. CASE mem = "huge" /\ thp /\ ept' = MapAt(ept, g, 2, "leaf", pfn - PageOf(g))
    <3>1. g \in {4, 5} /\ g > 1 /\ 1 \in DOMAIN slots /\ slots[1].mem = "huge"
      <4>1. active_mem # "huge"
        BY DEF GoodInv, MadviseInv
      <4>2. g \in {4, 5}
        BY <1>3, <2>4, <4>1, BackedFrames
      <4>3. SlotOf(g) = 1 /\ g > 1
        BY <4>2, BackedFrames
      <4>4. slots[SlotOf(g)].mem = "huge"
        BY <1>1, <2>4
      <4> QED
        BY <1>3, <4>2, <4>3, <4>4
    <3>2. host[<<"huge", 0>>] = 6 /\ host[<<"huge", 1>>] = 7
      <4>1. 4 \in DOMAIN expected
        BY <1>1, <3>1, SlotsOfGuest
      <4> QED
        BY <2>4, <4>1 DEF GoodInv, FramesInv
    <3>3. pfn = host[<<mem, PageOf(g)>>]
      <4>1. host[<<mem, PageOf(g)>>] # 0
        BY <1>2, <1>3, <2>4, <3>2
      <4> QED
        BY <1>1, <4>1
    <3>4. pfn - PageOf(g) = 6
      BY <2>4, <3>1, <3>2, <3>3, BackedFrames
    <3>5. LeafedTwice(MapAt(ept, g, 2, "leaf", 6), ept, 6)
      BY <3>1, LargeLeaf
    <3>6. ept' = MapAt(ept, g, 2, "leaf", 6)
      BY <2>4, <3>4
    <3>7. LeafedTwice(ept', ept, 6)
      BY <3>5, <3>6
    <3>8. /\ DOMAIN ept' = {"tree", "flat"} /\ DOMAIN ept'.flat = Gfns
          /\ ept'.flat[4] = LeafAt(2, 6) /\ ept'.flat[5] = LeafAt(2, 6 + 1)
          /\ \A x \in {0, 1} : ept'.flat[x] = Unmapped \/ ept'.flat[x] = ept.flat[x]
      BY <3>7 DEF LeafedTwice
    <3>9. 6 + 1 = 7 /\ 2 \in {1, 2} /\ 6 # 0 /\ 7 # 0 /\ 4 > 1 /\ 5 > 1
      OBVIOUS
    <3>10. /\ SlotOf(4) \in DOMAIN slots /\ 6 = host'[<<slots[SlotOf(4)].mem, PageOf(4)>>]
           /\ SlotOf(5) \in DOMAIN slots /\ 7 = host'[<<slots[SlotOf(5)].mem, PageOf(5)>>]
      BY <1>9, <3>1, <3>2, BackedFrames
    <3>11. Translates(ept'.flat[4], 4, slots, host', thp)
      BY <2>4, <3>8, <3>9, <3>10, LeafTranslates, Zenon
    <3>12. Translates(ept'.flat[5], 5, slots, host', thp)
      BY <2>4, <3>8, <3>9, <3>10, LeafTranslates, Zenon
    <3>13. ASSUME NEW x \in {0, 1}
           PROVE  Translates(ept'.flat[x], x, slots, host', thp)
      BY <1>18, <3>1, <3>8, <3>13, BackedFrames
    <3>14. \A x \in Backed : Translates(ept'.flat[x], x, slots, host', thp)
      BY <3>11, <3>12, <3>13, BackedFrames
    <3> QED
      BY <2>2, <3>8, <3>14 DEF FlatInv
  <2> QED
    BY <1>1, <2>3, <2>4
<1> QED
  BY <1>13, <1>14, <1>15, <1>16, <1>19 DEF GoodInv

-----------------------------------------------------------------------------
(* Another machine on the host, and the ring *)

LEMMA MemoryUntouched ==
  ASSUME GoodInv, UNCHANGED <<vmm, guest, slots, active_mem, thp, host, page, ept, count, expected>>
  PROVE  GoodInv'
<1>1. PlaceInv'
  BY DEF GoodInv, PlaceInv, InCommand
<1>2. \A g, n : Doing(g, n)' <=> Doing(g, n)
  BY DEF Doing
<1>3. MadviseInv'
  BY <1>2 DEF GoodInv, MadviseInv
<1>4. (Before(6)' <=> Before(6)) /\ (Before(7)' <=> Before(7))
  BY DEF Before
<1>5. HasHuge' <=> HasHuge
  BY <1>2 DEF HasHuge
<1> QED
  BY <1>1, <1>2, <1>3, <1>4, <1>5, MemoryStays

-----------------------------------------------------------------------------
(* Every step of the virt-ept run keeps the invariant. *)
LEMMA MemoryIsInductive == MemoryInv /\ [EptNext]_ept_vars => MemoryInv'
<1> SUFFICES ASSUME MemoryInv, [EptNext]_ept_vars
             PROVE  MemoryInv'
  OBVIOUS
<1>1. CASE Stopped
  BY <1>1, StoppedStays DEF MemoryInv
<1>2. CASE GoodInv
  <2>1. CASE VmmStep
    <3>1. ASSUME NEW ok \in BOOLEAN,
                 \/ SetUp(ok) \/ SetUpRegion(ok) \/ KvmRun(ok) \/ DontNeed(ok) \/ ClearDirtyLog(ok)
                 \/ MmapHuge(ok) \/ Align(ok)
          PROVE  MemoryInv'
      BY <1>2, <3>1, SetUpKeeps, SetUpRegionKeeps, KvmRunKeeps, DontNeedKeeps, PlainCallsKeep
    <3>2. ASSUME NEW ok \in BOOLEAN, HugePage(ok)
          PROVE  MemoryInv'
      BY <1>2, <3>2, HugePageKeeps DEF MemoryInv
    <3>3. ASSUME NEW ok \in BOOLEAN, NEW eager \in BOOLEAN, SlotStep(ok, eager)
          PROVE  MemoryInv'
      BY <1>2, <3>3, SlotStepKeeps
    <3>4. CASE Loader \/ ControlBegin \/ Memcpy \/ Switch \/ ControlEnd
      BY <1>2, <3>4, LoaderKeeps, ControlBeginKeeps, MemcpyKeeps, SwitchKeeps, ControlEndKeeps DEF MemoryInv
    <3>5. CASE Exit
      BY <1>2, <3>5, ExitKeeps
    <3> QED
      BY <2>1, <3>1, <3>2, <3>3, <3>4, <3>5 DEF VmmStep
  <2>2. CASE GuestStep
    <3>1. ASSUME NEW g \in Backed, PageFault(g)
          PROVE  GoodInv'
      BY <1>2, <3>1, PageFaultKeeps
    <3>2. CASE Cpuid \/ Write \/ Out \/ MmioAccess
      BY <1>2, <3>2, CpuidKeeps, WriteKeeps, OutKeeps, MmioAccessKeeps DEF MemoryInv
    <3> QED
      BY <2>2, <3>1, <3>2 DEF GuestStep, MemoryInv
  <2>3. CASE UNCHANGED <<vmm, guest, slots, active_mem, thp, host, page, ept, count, expected>>
    <3>1. GoodInv'
      BY <1>2, <2>3, MemoryUntouched
    <3> QED
      BY <3>1 DEF MemoryInv
  <2>4. OtherVm \/ RingTurns \/ UNCHANGED ept_vars =>
          UNCHANGED <<vmm, guest, slots, active_mem, thp, host, page, ept, count, expected>>
    BY DEF OtherVm, RingTurns, ept_vars
  <2> QED
    BY <2>1, <2>2, <2>3, <2>4 DEF EptNext
<1> QED
  BY <1>1, <1>2 DEF MemoryInv

\* The frames behind every slot, and what the EPT makes of them, at every step of every run of vmm.c.
THEOREM EptMemoryInvariant == EptSpec => []MemoryInv
<1>1. EptInit => MemoryInv
  BY MemoryAtStart DEF MemoryInv
<1> QED
  BY <1>1, MemoryIsInductive, PTL DEF EptSpec

(* The guest finds its code and what it last wrote, and zero in the page it had discarded,
   whichever calls of vmm.c fail and whatever pages back its memory.  For every number of
   faults, on the EPT of three levels with two entries per table that EptAssumption fixes:
   vmm.c's layout in the model has eight frames (EPT_LEVELS is 4, with 512 entries). *)
THEOREM GuestMemoryAlwaysSurvives == EptSpec => []GuestMemorySurvives
BY EptMemoryInvariant, MemoryFound, PTL
=============================================================================
