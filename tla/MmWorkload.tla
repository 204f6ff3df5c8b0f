---------------------------- MODULE MmWorkload ----------------------------
(***************************************************************************)
(* The memory experiment: the workload that drives one address space       *)
(* through about fifty phases (workload_mm.c), and the probe that takes a  *)
(* snapshot of it after each of them (mm.bpf.c).                           *)
(*                                                                         *)
(* An exercise is a list of instructions.  A call adds and removes what    *)
(* the process holds: mappings, descriptors, and the name of a temporary   *)
(* file.  A call that fails does nothing, and then what the code does      *)
(* about it: note it in result, go on somewhere else, or give back and     *)
(* return.  The private anonymous mapping is eight parts, as the code cuts *)
(* it.  The loops over the pages of a mapping are one access to it.        *)
(***************************************************************************)
EXTENDS Bpf

CONSTANT MaxMmFaults    \* calls that fail

ASSUME MmAssumption == MaxMmFaults \in Nat

VARIABLES
  at,        \* exercise and instruction
  mm,        \* what the process holds
  result,
  messages, slot, active_phase, phase_seq_counter,
  phases,    \* the phase in progress, and how many have ended
  ended,     \* the last step ended a phase: what was printed, and what is true
  swap,      \* the guest has swap
  mm_bpf, failed, exit_code

mm_vars == <<at, mm, result, messages, slot, active_phase, phase_seq_counter, phases, ended,
             swap, mm_bpf, failed, exit_code>>

-----------------------------------------------------------------------------
(* The instructions *)

Nothing == [note |-> FALSE, release |-> {}, to |-> "next"]
Note       == [Nothing EXCEPT !.note = TRUE]
NoteAnd(to) == [Note EXCEPT !.to = to]
Return(release) == [note |-> TRUE, release |-> release, to |-> "return"]

I(op, name, add, del, fail) == [op |-> op, name |-> name, add |-> add, del |-> del, fail |-> fail]
Ph(name)            == I("phase", name, {}, {}, Nothing)
Do(name, add, del, fail) == I("call", name, add, del, fail)
Sure(name, del)     == I("sure", name, {}, del, Nothing)
Access(what)        == I("access", "access", what, {}, Nothing)
Unless(have, fail)  == I("unless", "unless", have, {}, fail)     \* fail unless all of this is held
IfSwap(to)          == I("swap", "swap", {}, {}, [Nothing EXCEPT !.to = to])

A(parts) == {<<"anon 1", "anon 2", "anon 3", "anon 4", "anon 5", "anon 6", "anon 7", "anon 8",
               "tail">>[n] : n \in parts}

FileShared == <<
  Ph("seed"),
    Do("mkstemp", {"fd", "path"}, {}, Return({})),
    Do("ftruncate", {}, {}, Return({"fd", "path"})),
    Do("pwrite", {}, {}, Return({"fd", "path"})),
    Do("fsync", {}, {}, Note), Do("fadvise", {}, {}, Note),
    Do("open", {"read_only_fd"}, {}, Note), Sure("unlink", {"path"}),
  Ph("cold mapping"), Do("mmap", {"cold"}, {}, Return({"read_only_fd", "fd"})),
  Ph("cold reads"), Access({"cold"}),
  Ph("drop PTEs"), Do("madvise", {}, {}, Note),
  Ph("warm reads"), Access({"cold"}),
  Ph("unmap cold"), Sure("munmap", {"cold"}),
  Ph("shared pair"),
    Do("mmap", {"shared_a"}, {}, Note), Do("mmap", {"shared_b"}, {}, Note),
    Unless({"shared_a", "shared_b"}, Return({"shared_a", "shared_b", "read_only_fd", "fd"})),
  Ph("dirty"), Access({"shared_a"}),
  Ph("coherent"), Access({"shared_b"}), Do("compare", {}, {}, Note),
  Ph("write back"), Do("msync, fsync", {}, {}, Note),
  Ph("unmap shared_a"), Sure("munmap", {"shared_a"}),
  Ph("unmap shared_b"), Sure("munmap", {"shared_b"}),
  Ph("evict"), Do("fadvise", {}, {}, Note) >>

FilePrivate == <<
  Ph("views"),
    Do("mmap", {"shared_view"}, {}, Note), Do("mmap", {"private_view"}, {}, Note),
    Unless({"shared_view", "private_view"}, NoteAnd("truncate")),
  Ph("private reads"), Access({"private_view"}),
  Ph("copy on write"), Access({"private_view"}),
  Ph("isolated"), Access({"shared_view", "private_view"}), Do("compare", {}, {}, Note),
  Ph("pageout"), IfSwap("truncate"), Do("madvise", {}, {}, NoteAnd("truncate")),
  Ph("refault"), Access({"private_view"}),
  Ph("truncate"),
    Unless({"shared_view"}, NoteAnd("unmap views")),
    Do("ftruncate", {}, {}, NoteAnd("unmap views")),
    Access({"shared_view"}), Do("fork, SIGBUS", {}, {}, Note),
    Sure("unmap views", {"shared_view", "private_view"}),
    Sure("close", {"read_only_fd", "fd"}) >>

exercise_file_backed_memory == FileShared \o FilePrivate

AnonSplit == <<
  Ph("reserve"), Do("mmap", A(1 .. 8), {}, Return({})),
  Ph("zero pages"), Access(A({1})),
  Ph("private pages"), Access(A(1 .. 8)),
  Ph("fork COW"), Access(A({1, 2})), Do("fork, compare", {}, {}, Note),
  Ph("read-only middle"), Do("mprotect", {}, {}, NoteAnd("hole")),
  Ph("protection fault"), Access(A({3})), Do("fork, SIGSEGV", {}, {}, Note),
  Ph("writable again"), Do("mprotect", {}, {}, Note),
  Ph("hole"), Do("munmap hole", {}, A({5}), Note),
  Ph("grow"), Do("mremap grow", A({9}), A({8}), NoteAnd("discard")),
  Ph("populate tail"), Access(A({9})),
  Ph("shrink"), Do("mremap shrink", {}, {}, [NoteAnd("discard") EXCEPT !.release = A({9})]),
  Ph("unmap tail"), Sure("munmap", A({9})) >>

AnonDiscard == <<
  Ph("discard"), Do("madvise", {}, {}, Note),
  Ph("refault zeroed"), Access(A({2})),
  Ph("pageout"), IfSwap("unmap"), Do("madvise", {}, {}, NoteAnd("unmap")),
  Ph("refault"), Access(A({3})),
  Ph("unmap"), Sure("munmap", A(1 .. 4)), Sure("munmap", A({6, 7})) >>

exercise_private_anonymous_memory == AnonSplit \o AnonDiscard

exercise_shared_anonymous_memory == <<
  Ph("shmem"), Do("mmap", {"shared"}, {}, Return({})),
  Ph("shared reads"), Access({"shared"}),
  Ph("child writes"), Access({"shared"}), Do("fork, compare", {}, {}, Note),
  Ph("pageout"), IfSwap("unmap"), Do("madvise", {}, {}, NoteAnd("unmap")),
  Ph("refault"), Access({"shared"}),
  Ph("unmap"), Sure("munmap", {"shared"}) >>

ThpAnonymous == <<
  Ph("aligned"), Do("mmap", {"prefix", "thp", "suffix"}, {}, Return({})),
    Do("munmap prefix", {}, {"prefix"}, Return({"prefix", "thp", "suffix"})),
    Do("munmap suffix", {}, {"suffix"}, Return({"thp", "suffix"})),
  Ph("base pages"), Do("madvise", {}, {}, Return({"thp"})),
  Ph("populate"), Access({"thp"}),
  Ph("collapse"), Do("madvise", {}, {}, Return({"thp"})),
  Ph("split"), Do("mprotect", {}, {}, Return({"thp"})),
  Ph("merge"), Do("mprotect", {}, {}, Return({"thp"})),
  Ph("collapse again"), Do("madvise", {}, {}, Return({"thp"})),
  Ph("unmap"), Sure("munmap", {"thp"}) >>

ThpFile == <<
  Ph("prepare file"),
    Do("mkstemp", {"fd", "path"}, {}, Return({})),
    Do("ftruncate", {}, {}, Return({"fd", "path"})),
    Do("pwrite", {}, {}, Return({"fd", "path"})),
    Do("fsync, fadvise", {}, {}, Note), Sure("unlink", {"path"}),
  Ph("map file"), Do("mmap", {"file_thp"}, {}, Return({"fd"})), Do("madvise", {}, {}, Note),
  Ph("huge faults"), Access({"file_thp"}),
  Ph("unmap file"), Sure("munmap", {"file_thp"}), Sure("close", {"fd"}) >>

exercise_transparent_huge_pages == ThpAnonymous \o ThpFile

Exercises == <<exercise_file_backed_memory, exercise_private_anonymous_memory,
               exercise_shared_anonymous_memory, exercise_transparent_huge_pages>>

-----------------------------------------------------------------------------
MmInit ==
  /\ at = [ex |-> 0, i |-> 1]
  /\ mm = {} /\ result = 0
  /\ messages = [n \in 0 .. 1 |-> ""] /\ slot = 0 /\ active_phase = 2   \* 2: none
  /\ phase_seq_counter = 0
  /\ phases = [name |-> "", ended |-> 0] /\ ended = <<>>
  /\ swap \in BOOLEAN
  /\ mm_bpf = Loaded({"active_args"}) /\ failed = {} /\ exit_code = 2        \* 2: runs

(* mm.bpf.c: the sequence number travels from the entry to the return. *)
phase_boundary_entry(b, seq) == lab_map_update(b, "active_args", "workload_mm", seq)
phase_boundary_ret(b) ==
  lab_output(bpf_map_delete_elem(b, "active_args", "workload_mm"),
             [seq |-> Get(b, "active_args", "workload_mm", 0), mm |-> mm])

(* Publish the phase that ends here, and remember the one that begins. *)
phase(next, texts) ==
  LET seq == phase_seq_counter + 1
      quiet == [mm_bpf EXCEPT !.out = <<>>]
  IN /\ active_phase' = next
     /\ IF active_phase = 2
        THEN /\ UNCHANGED phase_seq_counter
             /\ ended' = <<>> /\ mm_bpf' = quiet
        ELSE /\ phase_seq_counter' = seq
             /\ ended' = <<[printed |-> [seq |-> seq, name |-> texts[active_phase]],
                            true |-> [seq |-> phases.ended + 1, name |-> phases.name],
                            mm |-> mm]>>
             /\ mm_bpf' = phase_boundary_ret(phase_boundary_entry(quiet, seq))

(* Mutant: one buffer for all messages. *)
phasefOneBuffer(name) ==
  /\ messages' = [messages EXCEPT ![slot] = name] /\ UNCHANGED slot
  /\ phase(slot, messages')

(* The text goes into the buffer that does not hold the phase in progress. *)
phasef(name) ==
  /\ slot' = (slot + 1) % 2
  /\ messages' = [messages EXCEPT ![slot'] = name]
  /\ phase(slot', messages')

Silent == /\ ended' = <<>> /\ mm_bpf' = [mm_bpf EXCEPT !.out = <<>>]
          /\ UNCHANGED <<messages, slot, active_phase, phase_seq_counter, phases>>
Begins(name) == phases' = [name |-> name,
                           ended |-> phases.ended + (IF active_phase = 2 THEN 0 ELSE 1)]

-----------------------------------------------------------------------------
InExercise == at.ex \in DOMAIN Exercises /\ exit_code = 2
Now == Exercises[at.ex][at.i]
GoOn(to) ==
  LET prog == Exercises[at.ex]
      i == CASE to = "next" -> at.i + 1
             [] to = "return" -> Len(prog) + 1
             [] OTHER -> CHOOSE n \in at.i .. Len(prog) : prog[n].name = to
  IN at' = IF i > Len(prog) THEN [ex |-> at.ex + 1, i |-> 1] ELSE [at EXCEPT !.i = i]

(* What the code does about a call that failed. *)
Handle(fail) ==
  /\ result' = IF fail.note THEN -1 ELSE result
  /\ mm' = mm \ fail.release
  /\ GoOn(fail.to)

(* prctl() and sysconf(), then the constraints are printed. *)
StartUp(ok) ==
  /\ at.ex = 0 /\ exit_code = 2
  /\ ok \/ Cardinality(failed) < MaxMmFaults
  /\ failed' = IF ok THEN failed ELSE failed \cup {"start"}
  /\ exit_code' = IF ok THEN 2 ELSE 1
  /\ at' = [ex |-> 1, i |-> 1]
  /\ Silent /\ UNCHANGED <<mm, result, swap>>

PhaseStep ==
  /\ InExercise /\ Now.op = "phase"
  /\ phasef(Now.name) /\ Begins(Now.name)
  /\ GoOn("next")
  /\ UNCHANGED <<mm, result, swap, failed, exit_code>>

CallSucceeds ==
  /\ InExercise /\ Now.op \in {"call", "sure"}
  /\ mm' = (mm \ Now.del) \cup Now.add
  /\ GoOn("next")
  /\ Silent /\ UNCHANGED <<result, swap, failed, exit_code>>

(* Mutant: an exercise that gives up gives back what it has, but the verdict does not hear
   of it. *)
CallFailsQuietly ==
  /\ InExercise /\ Now.op = "call" /\ Cardinality(failed) < MaxMmFaults
  /\ failed' = failed \cup {Now.name}
  /\ Handle([Now.fail EXCEPT !.note = @ /\ Now.fail.to # "return"])
  /\ Silent /\ UNCHANGED <<swap, exit_code>>

CallFails ==
  /\ InExercise /\ Now.op = "call" /\ Cardinality(failed) < MaxMmFaults
  /\ failed' = failed \cup {Now.name}
  /\ Handle(Now.fail)
  /\ Silent /\ UNCHANGED <<swap, exit_code>>

AccessStep ==
  /\ InExercise /\ Now.op = "access"
  /\ GoOn("next")
  /\ Silent /\ UNCHANGED <<mm, result, swap, failed, exit_code>>

(* Mutant: the comparison goes on with a view that could not be mapped. *)
UnlessStepNot ==
  /\ InExercise /\ Now.op = "unless"
  /\ GoOn("next")
  /\ Silent /\ UNCHANGED <<mm, result, swap, failed, exit_code>>

UnlessStep ==
  /\ InExercise /\ Now.op = "unless"
  /\ IF Now.add \subseteq mm THEN GoOn("next") /\ UNCHANGED <<mm, result>> ELSE Handle(Now.fail)
  /\ Silent /\ UNCHANGED <<swap, failed, exit_code>>

SwapStep ==
  /\ InExercise /\ Now.op = "swap"
  /\ IF swap THEN GoOn("next") ELSE GoOn(Now.fail.to)
  /\ Silent /\ UNCHANGED <<mm, result, swap, failed, exit_code>>

(* After the last exercise: the closing phase, its boundary, and the verdict. *)
Complete ==
  /\ at = [ex |-> 5, i |-> 1]
  /\ phasef("complete") /\ Begins("complete")
  /\ at' = [at EXCEPT !.i = 2]
  /\ UNCHANGED <<mm, result, swap, failed, exit_code>>

Verdict ==
  /\ at = [ex |-> 5, i |-> 2] /\ exit_code = 2
  /\ phase(2, messages) /\ Begins("")
  /\ exit_code' = IF result = 0 THEN 0 ELSE 1
  /\ UNCHANGED <<at, mm, result, messages, slot, swap, failed>>

MmRing ==
  /\ mm_bpf' = [mm_bpf EXCEPT !.full = ~@, !.out = <<>>] /\ ended' = <<>>
  /\ UNCHANGED <<at, mm, result, messages, slot, active_phase, phase_seq_counter, phases, swap,
                 failed, exit_code>>

MmStep ==
  \/ \E ok \in BOOLEAN : StartUp(ok)
  \/ PhaseStep \/ CallSucceeds \/ CallFails \/ AccessStep \/ UnlessStep \/ SwapStep
  \/ Complete \/ Verdict

MmNext == MmStep \/ MmRing
MmSpec == MmInit /\ [][MmNext]_mm_vars

-----------------------------------------------------------------------------
(* Properties *)

(* The record of a phase is printed when its work is over, under its own name and number,
   and the snapshot with that number shows the address space that very phase left: the two
   alternating buffers and the number handed from entry to return never mix two phases. *)
PhaseSnapshotExact ==
  \A n \in DOMAIN ended :
    /\ ended[n].printed = ended[n].true
    /\ ~mm_bpf.lost => mm_bpf.out = <<[seq |-> ended[n].true.seq, mm |-> ended[n].mm]>>

(* The workload touches only what is mapped, whichever calls failed before. *)
NoWildAccess == InExercise /\ Now.op = "access" => Now.add \subseteq mm

(* When the workload ends: a call that failed is in its verdict, and nothing is left mapped,
   open or on disk, unless the call that failed was munmap() of the hole or the first
   mremap(), whose ranges no later call covers. *)
VerdictAndCleanUp ==
  exit_code # 2 =>
    /\ exit_code = 0 <=> failed = {}
    /\ mm \subseteq UNION {IF "munmap hole" \in failed THEN A({5}) ELSE {},
                          IF "mremap grow" \in failed THEN A({8}) ELSE {}}
=============================================================================
