--------------------------- MODULE ProgramsProof ---------------------------
(***************************************************************************)
(* The small programs around the experiments, and the trace that the       *)
(* programs of vtd.bpf.c make, for all their constants.                    *)
(***************************************************************************)
EXTENDS VtdGate, KapiModule, MmWorkload, VtdTrace, BpfProof, FiniteSetTheorems, TLAPS

-----------------------------------------------------------------------------
(* The gate of the virt-vtd observer *)

Runners == {"ready", "begin?", "begun", "working", "worked", "end?", "ended", "failed"}
Loops   == {"poll", "read", "mark", "answer", "clear", "done"}
Asking  == runner \in {"begin?", "end?"}
Asked   == IF runner = "begin?" THEN "begin" ELSE "end"

Log0 == <<>>
Log1 == <<"begin">>
Log2 == <<"begin", "work starts">>
Log3 == <<"begin", "work starts", "work ends">>
Log4 == <<"begin", "work starts", "work ends", "end">>

\* The log before and after the marker the runner asks for.
Unmarked == IF runner = "begin?" THEN Log0 ELSE Log3
Marked   == IF runner = "begin?" THEN Log1 ELSE Log4

\* How far the log is, by what the runner knows.
LogFollowsRunner ==
  /\ runner = "ready"   => log = Log0
  /\ Asking             => log \in {Unmarked, Marked}
  /\ runner = "begun"   => log = Log1
  /\ runner = "working" => log = Log2
  /\ runner = "worked"  => log = Log3
  /\ runner = "ended"   => log = Log4
  /\ runner = "failed"  => log \in {Log0, Log1, Log2, Log3, Log4}

\* The loop works on a request only while the runner waits for it.
LoopServesRunner ==
  /\ loop \in {"read", "mark", "answer"} \/ (loop = "poll" /\ gate_request # "none") =>
       Asking /\ gate_request = Asked /\ control = {}
  /\ loop \in {"mark", "answer"} => enabled = Asked
  /\ loop \in {"read", "mark"} \/ (loop = "poll" /\ gate_request # "none") => log = Unmarked
  /\ loop = "answer" => log = Marked
  /\ loop = "clear" => runner # "ready"

\* An answer is in the pipe only for a runner that waits, behind its marker.
AnswerFollowsMarker ==
  /\ ~Asking => control = {}
  /\ control \subseteq {Asked}
  /\ control # {} => log = Marked

\* Nobody is forgotten, but for the request whose signal met the clearing store.
NobodyForgotten ==
  Asking /\ loop # "done" /\ ~overrun =>
    \/ gate_request = Asked /\ loop # "clear"
    \/ Asked \in control

GateInv ==
  /\ runner \in Runners /\ loop \in Loops
  /\ runner \in {"ready", "begin?"} => ~overrun
  /\ LogFollowsRunner
  /\ LoopServesRunner
  /\ AnswerFollowsMarker
  /\ NobodyForgotten

\* Sequences of up to four entries, one entry further.
LEMMA GrowsToOne == \A a : <<a>> = Append(<<>>, a)
OBVIOUS
LEMMA GrowsToTwo == \A a, b : <<a, b>> = Append(<<a>>, b)
OBVIOUS
LEMMA GrowsToThree == \A a, b, c : <<a, b, c>> = Append(<<a, b>>, c)
OBVIOUS
LEMMA GrowsToFour == \A a, b, c, d : <<a, b, c, d>> = Append(<<a, b, c>>, d)
OBVIOUS

\* The log one entry further.
LEMMA LogGrows ==
  /\ Log1 = Append(Log0, "begin")
  /\ Log2 = Append(Log1, "work starts")
  /\ Log3 = Append(Log2, "work ends")
  /\ Log4 = Append(Log3, "end")
<1>1. Log1 = Append(Log0, "begin")
  BY GrowsToOne, Zenon DEF Log0, Log1
<1>2. Log2 = Append(Log1, "work starts")
  BY GrowsToTwo, Zenon DEF Log1, Log2
<1>3. Log3 = Append(Log2, "work ends")
  BY GrowsToThree, Zenon DEF Log2, Log3
<1>4. Log4 = Append(Log3, "end")
  BY GrowsToFour, Zenon DEF Log3, Log4
<1> QED
  BY <1>1, <1>2, <1>3, <1>4

\* Two sequences that agree as far as the shorter one goes.
LEMMA AgreeingIsPrefix ==
  ASSUME NEW S, NEW s \in Seq(S), NEW t \in Seq(S), Len(s) <= Len(t),
         \A n \in 1 .. Len(s) : s[n] = t[n]
  PROVE  IsPrefix(s, t)
<1>1. Len(s) \in Nat /\ Len(t) \in Nat
  OBVIOUS
<1>2. SubSeq(s, 1, Len(s)) = [n \in 1 .. Len(s) |-> s[n]]
  BY <1>1
<1>3. SubSeq(t, 1, Len(s)) = [n \in 1 .. Len(s) |-> t[n]]
  BY <1>1
<1>4. [n \in 1 .. Len(s) |-> s[n]] = [n \in 1 .. Len(s) |-> t[n]]
  OBVIOUS
<1> QED
  BY <1>2, <1>3, <1>4 DEF IsPrefix

\* A sequence is a beginning of itself with one more entry, and beginnings are transitive.
LEMMA AppendIsPrefix ==
  ASSUME NEW S, NEW s \in Seq(S), NEW t \in Seq(S), NEW e \in S, IsPrefix(Append(s, e), t)
  PROVE  IsPrefix(s, t)
<1> DEFINE u == Append(s, e)
<1>1. u \in Seq(S) /\ Len(u) = Len(s) + 1 /\ \A n \in 1 .. Len(s) : u[n] = s[n]
  OBVIOUS
<1>2. Len(s) \in Nat /\ Len(t) \in Nat
  OBVIOUS
<1>3. Len(u) <= Len(t) /\ SubSeq(u, 1, Len(u)) = SubSeq(t, 1, Len(u))
  BY DEF IsPrefix
<1> HIDE DEF u
<1>4. \A n \in 1 .. Len(u) : SubSeq(u, 1, Len(u))[n] = u[n]
  BY <1>1, <1>2
<1>5. \A n \in 1 .. Len(u) : SubSeq(t, 1, Len(u))[n] = t[n]
  BY <1>1, <1>2, <1>3
<1>6. \A n \in 1 .. Len(s) : s[n] = t[n]
  BY <1>1, <1>2, <1>3, <1>4, <1>5
<1> QED
  BY <1>1, <1>2, <1>3, <1>6, AgreeingIsPrefix

\* So every entry added to a sequence leaves it a beginning of what it becomes.
LEMMA Beginnings ==
  ASSUME NEW a, NEW b, NEW c, NEW d
  PROVE  /\ IsPrefix(<<>>, <<a, b, c, d>>)
         /\ IsPrefix(<<a>>, <<a, b, c, d>>)
         /\ IsPrefix(<<a, b>>, <<a, b, c, d>>)
         /\ IsPrefix(<<a, b, c>>, <<a, b, c, d>>)
         /\ IsPrefix(<<a, b, c, d>>, <<a, b, c, d>>)
<1> DEFINE S == {a, b, c, d}  l0 == <<>>  l1 == <<a>>  l2 == <<a, b>>
           l3 == <<a, b, c>>  l4 == <<a, b, c, d>>
<1>1. l0 \in Seq(S) /\ l1 \in Seq(S) /\ l2 \in Seq(S) /\ l3 \in Seq(S) /\ l4 \in Seq(S)
  OBVIOUS
<1>2. l1 = Append(l0, a) /\ l2 = Append(l1, b) /\ l3 = Append(l2, c) /\ l4 = Append(l3, d)
  <2>1. l1 = Append(l0, a)
    BY GrowsToOne
  <2>2. l2 = Append(l1, b)
    BY GrowsToTwo
  <2>3. l3 = Append(l2, c)
    BY GrowsToThree
  <2>4. l4 = Append(l3, d)
    BY GrowsToFour
  <2> QED
    BY <2>1, <2>2, <2>3, <2>4
<1>3. a \in S /\ b \in S /\ c \in S /\ d \in S
  OBVIOUS
<1> HIDE DEF S, l0, l1, l2, l3, l4
<1>5. IsPrefix(l4, l4)
  <2>1. Len(l4) \in Nat
    BY <1>1
  <2> QED
    BY <2>1 DEF IsPrefix
<1>6. IsPrefix(l3, l4)
  BY <1>1, <1>2, <1>3, <1>5, AppendIsPrefix
<1>7. IsPrefix(l2, l4)
  BY <1>1, <1>2, <1>3, <1>6, AppendIsPrefix
<1>8. IsPrefix(l1, l4)
  BY <1>1, <1>2, <1>3, <1>7, AppendIsPrefix
<1>9. IsPrefix(l0, l4)
  BY <1>1, <1>2, <1>3, <1>8, AppendIsPrefix
<1> QED
  BY <1>5, <1>6, <1>7, <1>8, <1>9 DEF l0, l1, l2, l3, l4

\* Each of them is a beginning of begin, start, end, end.
LEMMA LogsArePrefixes ==
  ASSUME NEW l \in {Log0, Log1, Log2, Log3, Log4}
  PROVE  IsPrefix(l, <<"begin", "work starts", "work ends", "end">>)
<1>1. /\ IsPrefix(Log0, Log4) /\ IsPrefix(Log1, Log4) /\ IsPrefix(Log2, Log4)
      /\ IsPrefix(Log3, Log4) /\ IsPrefix(Log4, Log4)
  BY Beginnings, Zenon DEF Log0, Log1, Log2, Log3, Log4
<1>2. Log4 = <<"begin", "work starts", "work ends", "end">>
  BY DEF Log4
<1> QED
  BY <1>1, <1>2, Zenon

LEMMA GateInitially == GateInit => GateInv
BY DEF GateInit, GateInv, Runners, Loops, Asking, Asked, Unmarked, Marked, LogFollowsRunner,
       LoopServesRunner, AnswerFollowsMarker, NobodyForgotten, Log0

\* A signal puts the request into the word, unless the loop has ended.
LEMMA SignalKeeps ==
  ASSUME GateInv,
         \/ GateSignal("begin", "ready", "begin?")
         \/ GateSignal("end", "worked", "end?")
  PROVE  GateInv'
<1> USE DEF GateInv, GateSignal, Asking, Asked, Unmarked, Marked
<1>1. runner' \in Runners /\ loop' \in Loops
  BY DEF Runners
<1>2. runner' \in {"ready", "begin?"} => ~overrun'
  BY DEF LoopServesRunner
<1>3. LogFollowsRunner'
  BY DEF LogFollowsRunner
<1>4. LoopServesRunner'
  BY DEF LoopServesRunner, LogFollowsRunner, AnswerFollowsMarker
<1>5. AnswerFollowsMarker'
  BY DEF AnswerFollowsMarker
<1>6. NobodyForgotten'
  BY DEF NobodyForgotten
<1> QED
  BY <1>1, <1>2, <1>3, <1>4, <1>5, <1>6

\* The runner takes its answer: the marker is behind it.
LEMMA AnsweredKeeps ==
  ASSUME GateInv,
         \/ GateAnswered("begin", "begin?", "begun")
         \/ GateAnswered("end", "end?", "ended")
  PROVE  GateInv'
<1> USE DEF GateInv, GateAnswered, Asking, Asked, Unmarked, Marked
<1>1. runner' \in Runners /\ loop' \in Loops
  BY DEF Runners
<1>2. runner' \in {"ready", "begin?"} => ~overrun'
  OBVIOUS
<1>3. LogFollowsRunner'
  BY DEF LogFollowsRunner, AnswerFollowsMarker
<1>4. LoopServesRunner'
  BY DEF LoopServesRunner
<1>5. AnswerFollowsMarker'
  BY DEF AnswerFollowsMarker
<1>6. NobodyForgotten'
  BY DEF NobodyForgotten
<1> QED
  BY <1>1, <1>2, <1>3, <1>4, <1>5, <1>6

\* The rest of the runner: the workload, the end of its patience, the stop.
LEMMA RunnerKeeps ==
  ASSUME GateInv,
         GateGivesUp \/ GuestWorkload \/ StopObserver
  PROVE  GateInv'
<1> USE DEF GateInv, GateGivesUp, GuestWorkload, StopObserver, Asking, Asked, Unmarked, Marked
<1>1. runner' \in Runners /\ loop' \in Loops
  BY DEF Runners
<1>2. runner' \in {"ready", "begin?"} => ~overrun'
  OBVIOUS
<1>3. LogFollowsRunner'
  BY LogGrows DEF LogFollowsRunner
<1>4. LoopServesRunner'
  BY DEF LoopServesRunner
<1>5. AnswerFollowsMarker'
  BY DEF AnswerFollowsMarker
<1>6. NobodyForgotten'
  BY DEF NobodyForgotten
<1> QED
  BY <1>1, <1>2, <1>3, <1>4, <1>5, <1>6

\* The observer's loop: the request is read, marked, answered and cleared.
LEMMA LoopKeeps ==
  ASSUME GateInv,
         GatePoll \/ GateRead \/ emit_gate_marker \/ GateAnswer \/ GateClear
  PROVE  GateInv'
<1> USE DEF GateInv, GatePoll, GateRead, emit_gate_marker, GateAnswer, GateClear, GateLoop,
            Asking, Asked, Unmarked, Marked
<1>1. runner' \in Runners /\ loop' \in Loops
  BY DEF Loops
<1>2. runner' \in {"ready", "begin?"} => ~overrun'
  OBVIOUS
<1>3. LogFollowsRunner'
  <2>1. CASE emit_gate_marker
    BY <2>1, LogGrows DEF LogFollowsRunner, LoopServesRunner
  <2>2. CASE ~emit_gate_marker
    BY <2>2 DEF LogFollowsRunner
  <2> QED
    BY <2>1, <2>2
<1>4. LoopServesRunner'
  BY LogGrows DEF LoopServesRunner
<1>5. AnswerFollowsMarker'
  BY DEF AnswerFollowsMarker, LoopServesRunner
<1>6. NobodyForgotten'
  BY DEF NobodyForgotten, LoopServesRunner
<1> QED
  BY <1>1, <1>2, <1>3, <1>4, <1>5, <1>6

LEMMA GateInvariant == GateSpec => []GateInv
<1>1. GateInv /\ [GateNext]_gate_vars => GateInv'
  <2> SUFFICES ASSUME GateInv, [GateNext]_gate_vars PROVE GateInv'
    OBVIOUS
  <2>1. CASE UNCHANGED gate_vars
    BY <2>1 DEF gate_vars, GateInv, Asking, Asked, Unmarked, Marked, LogFollowsRunner,
                LoopServesRunner, AnswerFollowsMarker, NobodyForgotten
  <2> QED
    BY <2>1, SignalKeeps, AnsweredKeeps, RunnerKeeps, LoopKeeps DEF GateNext
<1> QED
  BY GateInitially, <1>1, PTL DEF GateSpec

(* Whatever order the runner, its signals and the observer's loop take their steps in: the
   workload lies between its two markers, and a request the loop can still serve is never
   lost, except by the store that clears the word right after it. *)
THEOREM GateAlwaysShakesHands == GateSpec => []GateHandshake
<1>1. GateInv => GateHandshake
  <2> SUFFICES ASSUME GateInv PROVE GateHandshake
    OBVIOUS
  <2>1. log \in {Log0, Log1, Log2, Log3, Log4}
    BY DEF GateInv, LogFollowsRunner, Runners, Asking, Unmarked, Marked
  <2>2. \A r \in {"begin", "end"} :
          runner = Waiting(r) /\ loop # "done" /\ ~overrun => gate_request = r \/ r \in control
    BY DEF GateInv, NobodyForgotten, Asking, Asked, Waiting
  <2> QED
    BY <2>1, <2>2, LogsArePrefixes DEF GateHandshake
<1> QED
  BY GateInvariant, <1>1, PTL

-----------------------------------------------------------------------------
(* The phases of the memory workload *)

Fields == {"active_args", "out", "full", "lost"}

\* The probe between two boundaries: no number is under way.
Between(b) ==
  DOMAIN b = Fields /\ DOMAIN b["active_args"] = {}

\* The buffer of the phase in progress still holds its name, and its number is the next one.
PhaseInv ==
  /\ slot \in {0, 1} /\ active_phase \in {0, 1, 2} /\ DOMAIN messages = {0, 1}
  /\ DOMAIN phases = {"name", "ended"} /\ phases.ended \in Nat
  /\ phase_seq_counter = phases.ended
  /\ active_phase # 2 => active_phase = slot /\ messages[slot] = phases.name
  /\ Between(mm_bpf)
  /\ PhaseSnapshotExact

\* The entry of phase_boundary() leaves the number, and nothing but the number, in the map.
LEMMA EntryKeepsNumber ==
  ASSUME NEW b, Between(b), b["out"] = <<>>, NEW seq
  PROVE  LET e == phase_boundary_entry(b, seq)
         IN /\ DOMAIN e = Fields
            /\ DOMAIN e["active_args"] = {"workload_mm"}
            /\ e["active_args"]["workload_mm"] = seq
            /\ e["out"] = <<>>
            /\ e["full"] = b["full"] /\ e["lost"] = b["lost"]
<1> DEFINE m == [x \in DOMAIN b["active_args"] \cup {"workload_mm"} |->
                   IF x = "workload_mm" THEN seq ELSE b["active_args"][x]]
           e == [b EXCEPT !["active_args"] = m]
<1>1. Cardinality(DOMAIN b["active_args"]) < MaxEntries
  BY FS_EmptySet, MaxEntriesAssumption DEF Between
<1>2. phase_boundary_entry(b, seq) = e
  BY <1>1 DEF phase_boundary_entry, lab_map_update, bpf_map_update_elem
<1>3. DOMAIN m = {"workload_mm"} /\ m["workload_mm"] = seq
  BY DEF Between
<1> HIDE DEF m
<1>4. /\ DOMAIN e = Fields /\ e["active_args"] = m /\ e["out"] = b["out"]
      /\ e["full"] = b["full"] /\ e["lost"] = b["lost"]
  BY DEF Between, Fields
<1> QED
  BY <1>2, <1>3, <1>4

\* Its return takes the number out again, with the address space of that moment.
LEMMA ReturnTakesNumber ==
  ASSUME NEW e, DOMAIN e = Fields, DOMAIN e["active_args"] = {"workload_mm"},
         NEW seq, e["active_args"]["workload_mm"] = seq, e["out"] = <<>>
  PROVE  LET r == phase_boundary_ret(e)
         IN Between(r) /\ (~r["lost"] => r["out"] = <<[seq |-> seq, mm |-> mm]>>)
<1> DEFINE m   == [x \in DOMAIN e["active_args"] \ {"workload_mm"} |-> e["active_args"][x]]
           d   == [e EXCEPT !["active_args"] = m]
           rec == [seq |-> seq, mm |-> mm]
           r   == IF d["full"] THEN [d EXCEPT !["lost"] = TRUE]
                               ELSE [d EXCEPT !["out"] = Append(d["out"], rec)]
<1>1. phase_boundary_ret(e) = r
  BY DEF phase_boundary_ret, bpf_map_delete_elem, lab_output, Get, Has
<1>2. DOMAIN m = {}
  OBVIOUS
<1> HIDE DEF m, rec
<1>3. /\ DOMAIN d = Fields /\ d["active_args"] = m /\ d["out"] = <<>>
  BY DEF Fields
<1> HIDE DEF d
<1>4. DOMAIN r = Fields /\ r["active_args"] = m
  BY <1>3 DEF Fields
<1>5. ~r["lost"] => r["out"] = Append(<<>>, rec)
  BY <1>3 DEF Fields
<1>6. Append(<<>>, rec) = <<rec>>
  BY GrowsToOne, Zenon
<1> HIDE DEF r
<1> QED
  BY <1>1, <1>2, <1>4, <1>5, <1>6 DEF Between, rec

\* The two together: one record, with the number of the phase that ends.
LEMMA BoundaryRecord ==
  ASSUME NEW b, Between(b), b["out"] = <<>>, NEW seq
  PROVE  LET r == phase_boundary_ret(phase_boundary_entry(b, seq))
         IN Between(r) /\ (~r["lost"] => r["out"] = <<[seq |-> seq, mm |-> mm]>>)
<1> DEFINE e == phase_boundary_entry(b, seq)
<1>1. /\ DOMAIN e = Fields /\ DOMAIN e["active_args"] = {"workload_mm"}
      /\ e["active_args"]["workload_mm"] = seq /\ e["out"] = <<>>
  BY EntryKeepsNumber
<1> HIDE DEF e
<1>2. LET r == phase_boundary_ret(e)
      IN Between(r) /\ (~r["lost"] => r["out"] = <<[seq |-> seq, mm |-> mm]>>)
  BY <1>1, ReturnTakesNumber
<1> QED
  BY <1>2 DEF e

\* A step that is no boundary empties what the last one printed.
LEMMA QuietProbe ==
  ASSUME NEW b, Between(b)
  PROVE  LET q == [b EXCEPT !.out = <<>>] IN Between(q) /\ q["out"] = <<>>
BY DEF Between, Fields

LEMMA PhaseInitially == MmInit => PhaseInv
<1> SUFFICES ASSUME MmInit PROVE PhaseInv
  OBVIOUS
<1>1. Between(mm_bpf)
  BY DEF MmInit, Loaded, Empty, Between, Fields
<1>2. PhaseSnapshotExact
  <2>1. ended = <<>>
    BY DEF MmInit
  <2> QED
    BY <2>1 DEF PhaseSnapshotExact
<1>3. DOMAIN messages = {0, 1}
  <2>1. 0 .. 1 = {0, 1}
    OBVIOUS
  <2>2. messages = [n \in 0 .. 1 |-> ""]
    BY DEF MmInit
  <2> QED
    BY <2>1, <2>2, Zenon
<1>4. DOMAIN phases = {"name", "ended"} /\ phases.ended = 0
  BY DEF MmInit
<1> QED
  BY <1>1, <1>2, <1>3, <1>4 DEF MmInit, PhaseInv

\* phase(): the text it prints is the name of the phase that ends.
LEMMA BoundaryKeeps ==
  ASSUME PhaseInv, NEW next, NEW texts, phase(next, texts),
         active_phase # 2 => texts[active_phase] = phases.name
  PROVE  /\ Between(mm_bpf)' /\ PhaseSnapshotExact'
         /\ active_phase' = next
         /\ phase_seq_counter' = phases.ended + (IF active_phase = 2 THEN 0 ELSE 1)
<1> DEFINE q   == [mm_bpf EXCEPT !.out = <<>>]
           seq == phase_seq_counter + 1
           r   == phase_boundary_ret(phase_boundary_entry(q, seq))
           e   == [printed |-> [seq |-> seq, name |-> texts[active_phase]],
                   true |-> [seq |-> phases.ended + 1, name |-> phases.name],
                   mm |-> mm]
<1>1. Between(q) /\ q["out"] = <<>>
  BY QuietProbe DEF PhaseInv
<1>2. Between(r) /\ (~r["lost"] => r["out"] = <<[seq |-> seq, mm |-> mm]>>)
  <2> HIDE DEF q, seq
  <2> QED
    BY <1>1, BoundaryRecord DEF r
<1>3. active_phase' = next
  BY DEF phase
<1>4. CASE active_phase = 2
  <2>1. phase_seq_counter' = phase_seq_counter /\ ended' = <<>> /\ mm_bpf' = q
    BY <1>4 DEF phase
  <2>2. PhaseSnapshotExact'
    BY <2>1 DEF PhaseSnapshotExact
  <2> HIDE DEF q
  <2> QED
    BY <1>1, <1>3, <1>4, <2>1, <2>2 DEF PhaseInv, Between
<1>5. CASE active_phase # 2
  <2>1. phase_seq_counter' = seq /\ ended' = <<e>> /\ mm_bpf' = r
    BY <1>5 DEF phase
  <2>2. e.printed = e.true /\ e.true.seq = seq /\ e.mm = mm
    BY <1>5 DEF PhaseInv
  <2> HIDE DEF e, r, q
  <2>3. \A n \in DOMAIN ended' : ended'[n] = e
    BY <2>1
  <2>4. PhaseSnapshotExact'
    BY <1>2, <2>1, <2>2, <2>3 DEF PhaseSnapshotExact
  <2> QED
    BY <1>2, <1>3, <1>5, <2>1, <2>4 DEF PhaseInv, Between
<1> QED
  BY <1>4, <1>5

\* phasef(): the other buffer, so the name of the phase that ends is still there.
LEMMA PhasefKeeps ==
  ASSUME PhaseInv, NEW name, phasef(name), Begins(name)
  PROVE  PhaseInv'
<1>1. slot' \in {0, 1} /\ slot' # slot
  BY DEF phasef, PhaseInv
<1>2. /\ DOMAIN messages' = {0, 1} /\ messages'[slot'] = name
      /\ messages'[slot] = messages[slot]
  BY <1>1 DEF phasef, PhaseInv
<1>3. active_phase # 2 => messages'[active_phase] = phases.name
  BY <1>2 DEF PhaseInv
<1>4. phase(slot', messages')
  BY DEF phasef
<1>5. /\ Between(mm_bpf)' /\ PhaseSnapshotExact'
      /\ active_phase' = slot'
      /\ phase_seq_counter' = phases.ended + (IF active_phase = 2 THEN 0 ELSE 1)
  BY <1>3, <1>4, BoundaryKeeps
<1>6. /\ DOMAIN phases' = {"name", "ended"} /\ phases'.name = name
      /\ phases'.ended = phases.ended + (IF active_phase = 2 THEN 0 ELSE 1)
  BY DEF Begins
<1>7. phases'.ended \in Nat
  BY <1>6 DEF PhaseInv
<1> QED
  BY <1>1, <1>2, <1>5, <1>6, <1>7 DEF PhaseInv

\* Every other step of the workload prints nothing.
LEMMA SilentKeeps ==
  ASSUME PhaseInv, Silent
  PROVE  PhaseInv'
<1>1. Between(mm_bpf)'
  BY QuietProbe DEF PhaseInv, Silent, Between
<1>2. PhaseSnapshotExact'
  BY DEF Silent, PhaseSnapshotExact
<1> QED
  BY <1>1, <1>2 DEF Silent, PhaseInv

LEMMA MmRingKeeps ==
  ASSUME PhaseInv, MmRing
  PROVE  PhaseInv'
<1>1. Between(mm_bpf)'
  BY DEF PhaseInv, MmRing, Between, Fields
<1>2. PhaseSnapshotExact'
  BY DEF MmRing, PhaseSnapshotExact
<1> QED
  BY <1>1, <1>2 DEF MmRing, PhaseInv

LEMMA VerdictKeeps ==
  ASSUME PhaseInv, Verdict
  PROVE  PhaseInv'
<1>1. /\ Between(mm_bpf)' /\ PhaseSnapshotExact'
      /\ active_phase' = 2
      /\ phase_seq_counter' = phases.ended + (IF active_phase = 2 THEN 0 ELSE 1)
  BY BoundaryKeeps DEF Verdict, PhaseInv
<1>2. /\ DOMAIN phases' = {"name", "ended"}
      /\ phases'.ended = phases.ended + (IF active_phase = 2 THEN 0 ELSE 1)
  BY DEF Verdict, Begins
<1>3. phases'.ended \in Nat
  BY <1>2 DEF PhaseInv
<1> QED
  BY <1>1, <1>2, <1>3 DEF Verdict, PhaseInv

LEMMA PhaseInvariant == MmSpec => []PhaseInv
<1>1. PhaseInv /\ [MmNext]_mm_vars => PhaseInv'
  <2> SUFFICES ASSUME PhaseInv, [MmNext]_mm_vars PROVE PhaseInv'
    OBVIOUS
  <2>1. CASE UNCHANGED mm_vars
    BY <2>1 DEF mm_vars, PhaseInv, Between, PhaseSnapshotExact
  <2>2. ASSUME NEW ok \in BOOLEAN, StartUp(ok) PROVE PhaseInv'
    BY <2>2, SilentKeeps DEF StartUp
  <2>3. CASE PhaseStep
    BY <2>3, PhasefKeeps DEF PhaseStep
  <2>4. CASE Complete
    BY <2>4, PhasefKeeps DEF Complete
  <2>5. CASE CallSucceeds \/ CallFails \/ AccessStep \/ UnlessStep \/ SwapStep
    BY <2>5, SilentKeeps DEF CallSucceeds, CallFails, AccessStep, UnlessStep, SwapStep
  <2> QED
    BY <2>1, <2>2, <2>3, <2>4, <2>5, VerdictKeeps, MmRingKeeps DEF MmNext, MmStep
<1> QED
  BY PhaseInitially, <1>1, PTL DEF MmSpec

(* Whatever the exercises are, and whichever calls fail in them: phase() prints the name of
   the phase that just ended, not of the one that begins, and the snapshot under its number is
   of the address space that phase left, although phasef() has written the next name by then
   and the number travels through a map of the kernel. *)
THEOREM SnapshotsAreOfTheirPhase == MmSpec => []PhaseSnapshotExact
<1>1. PhaseInv => PhaseSnapshotExact
  BY DEF PhaseInv
<1> QED
  BY PhaseInvariant, <1>1, PTL

-----------------------------------------------------------------------------
(* What the memory workload holds *)

(* The four exercises are straight lists with jumps ahead.  The tables below say, for every
   instruction, what may be held when it is next, and what must be: the invariant MmInv.  The
   lemmas ...Flows show, instruction by instruction, that success and failure lead from what
   holds before it to what holds where the code goes on. *)

\* How many instructions the exercises have.
Sizes == <<58, 38, 14, 32>>

Things == {"fd", "path", "read_only_fd", "cold", "shared_a", "shared_b", "shared_view", "private_view",
           "anon 1", "anon 2", "anon 3", "anon 4", "anon 5", "anon 6", "anon 7", "anon 8", "tail",
           "shared", "prefix", "thp", "suffix", "file_thp"}

\* What may be held when instruction p of an exercise is next.
FileHolds(p, r) ==
  \/ r = "fd" /\ p \in 3 .. 58
  \/ r = "path" /\ p \in 3 .. 8
  \/ r = "read_only_fd" /\ p \in 8 .. 58
  \/ r = "cold" /\ p \in 11 .. 18
  \/ r = "shared_a" /\ p \in 21 .. 31
  \/ r = "shared_b" /\ p \in 22 .. 33
  \/ r = "shared_view" /\ p \in 38 .. 57
  \/ r = "private_view" /\ p \in 39 .. 57

Whole == {"anon 1", "anon 2", "anon 3", "anon 4", "anon 5", "anon 6", "anon 7", "anon 8"}
AnonHolds(p, r) ==
  \/ p \in 3 .. 18 /\ r \in Whole
  \/ p \in 19 .. 20 /\ r \in Whole /\ r # "anon 5"
  \/ p \in 21 .. 26 /\ r = "tail"
  \/ p \in 21 .. 37 /\ r \in Whole /\ r # "anon 5" /\ r # "anon 8"
  \/ p = 38 /\ r \in {"anon 6", "anon 7"}

ShmemHolds(p, r) == r = "shared" /\ p \in 3 .. 14

ThpHolds(p, r) ==
  \/ r = "prefix" /\ p = 3
  \/ r = "suffix" /\ p \in 3 .. 4
  \/ r = "thp" /\ p \in 3 .. 18
  \/ r = "fd" /\ p \in 21 .. 32
  \/ r = "path" /\ p \in 21 .. 24
  \/ r = "file_thp" /\ p \in 27 .. 31

May(ex, p, r) ==
  \/ ex = 1 /\ FileHolds(p, r)
  \/ ex = 2 /\ AnonHolds(p, r)
  \/ ex = 3 /\ ShmemHolds(p, r)
  \/ ex = 4 /\ ThpHolds(p, r)

\* It is held for certain: always while no call has failed, and after a failure except where
\* the code goes on without it.
Certain(p, r) ==
  /\ r # "read_only_fd"
  /\ r = "shared_a" => p \in 23 .. 31
  /\ r = "shared_b" => p \in 23 .. 33
  /\ r = "shared_view" => p \in 40 .. 51 \/ p \in 54 .. 56
  /\ r = "private_view" => p \in 40 .. 51
Must(ex, p, r, clean) == May(ex, p, r) /\ (clean \/ Certain(p, r))

\* What a call that failed leaves for good.
Excused(r, f) ==
  \/ r = "anon 5" /\ "munmap hole" \in f
  \/ r = "anon 8" /\ "mremap grow" \in f

\* Where the code goes on.
Labels == {"truncate", "unmap views", "hole", "discard", "unmap"}
LabelAt(ex, to, p) ==
  \/ ex = 1 /\ to = "truncate" /\ p = 52
  \/ ex = 1 /\ to = "unmap views" /\ p = 57
  \/ ex = 2 /\ to = "hole" /\ p = 17
  \/ ex = 2 /\ to = "discard" /\ p = 27
  \/ ex = 2 /\ to = "unmap" /\ p = 36
  \/ ex = 3 /\ to = "unmap" /\ p = 13
  \/ ex = 4 /\ to = "unmap" /\ p = 17

Jump(ex, p, to, j) ==
  \/ to = "next" /\ j = p + 1
  \/ to = "return" /\ j = Sizes[ex] + 1
  \/ to \in Labels /\ p <= j /\ LabelAt(ex, to, j)

\* From p to j, with this given back and this taken.
Leads(ex, p, j, del, add) ==
  /\ \A r \in Things : (May(ex, p, r) /\ r \notin del) \/ r \in add => May(ex, j, r)
  /\ \A r \in Things, clean \in BOOLEAN :
       Must(ex, j, r, clean) => (Must(ex, p, r, clean) /\ r \notin del) \/ r \in add

\* From p to j after a failure of the call of this name.
Fails(ex, p, j, release, name) ==
  /\ \A r \in Things : May(ex, p, r) /\ r \notin release => May(ex, j, r) \/ Excused(r, {name})
  /\ \A r \in Things : Must(ex, j, r, FALSE) => Must(ex, p, r, FALSE) /\ r \notin release

\* From p to the next instruction, where all of this is held.
Passes(ex, p, have) ==
  /\ \A r \in have : r \in Things /\ May(ex, p, r)
  /\ \A r \in Things : May(ex, p, r) => May(ex, p + 1, r)
  /\ \A r \in Things, clean \in BOOLEAN :
       Must(ex, p + 1, r, clean) => Must(ex, p, r, clean) \/ r \in have

Named(ex, p, name) ==
  /\ name \in Labels => LabelAt(ex, name, p)
  /\ \A to \in Labels : LabelAt(ex, to, p) => name = to
Touches(ex, p, what) == \A r \in what : r \in Things /\ Must(ex, p, r, FALSE)

\* What the proof needs of instruction c at place p.
Flow(c, ex, p) ==
  /\ Named(ex, p, c.name)
  /\ c.op \in {"phase", "access"} => Leads(ex, p, p + 1, {}, {})
  /\ c.op = "access" => Touches(ex, p, c.add)
  /\ c.op \in {"call", "sure"} => c.add \subseteq Things /\ Leads(ex, p, p + 1, c.del, c.add)
  /\ c.op = "call" => c.fail.note = TRUE /\ \E j : /\ Jump(ex, p, c.fail.to, j)
                                                  /\ Fails(ex, p, j, c.fail.release, c.name)
  /\ c.op = "unless" => /\ c.fail.note = TRUE /\ Passes(ex, p, c.add)
                        /\ \E j : /\ Jump(ex, p, c.fail.to, j)
                                  /\ Fails(ex, p, j, c.fail.release, "unless")
  /\ c.op = "swap" => /\ Leads(ex, p, p + 1, {}, {})
                      /\ \E j : Jump(ex, p, c.fail.to, j) /\ Leads(ex, p, j, {}, {})

\* The fields of the instructions.
LEMMA Answers ==
  /\ Note.note = TRUE /\ Note.release = {} /\ Note.to = "next"
  /\ \A to : NoteAnd(to).note = TRUE /\ NoteAnd(to).release = {} /\ NoteAnd(to).to = to
  /\ \A release : Return(release).note = TRUE /\ Return(release).release = release /\ Return(release).to = "return"
  /\ \A to, release : LET f == [NoteAnd(to) EXCEPT !.release = release]
                      IN f.note = TRUE /\ f.release = release /\ f.to = to
BY DEF Nothing, Note, NoteAnd, Return

LEMMA Kinds ==
  /\ \A n : Ph(n).op = "phase" /\ Ph(n).name = n
  /\ \A n, add, del, f : /\ Do(n, add, del, f).op = "call" /\ Do(n, add, del, f).name = n
                         /\ Do(n, add, del, f).add = add /\ Do(n, add, del, f).del = del /\ Do(n, add, del, f).fail = f
  /\ \A n, del : Sure(n, del).op = "sure" /\ Sure(n, del).name = n /\ Sure(n, del).add = {} /\ Sure(n, del).del = del
  /\ \A w : Access(w).op = "access" /\ Access(w).name = "access" /\ Access(w).add = w
  /\ \A have, f : /\ Unless(have, f).op = "unless" /\ Unless(have, f).name = "unless" /\ Unless(have, f).add = have
                  /\ Unless(have, f).fail = f
  /\ \A to : /\ IfSwap(to).op = "swap" /\ IfSwap(to).name = "swap" /\ IfSwap(to).fail.to = to
BY DEF I, Ph, Do, Sure, Access, Unless, IfSwap, Nothing

\* One lemma per kind of instruction: what is to be shown of it at its place.
LEMMA PhaseFlow ==
  ASSUME NEW ex, NEW p, NEW n, Named(ex, p, n), Leads(ex, p, p + 1, {}, {})
  PROVE  Flow(Ph(n), ex, p)
BY Kinds DEF Flow

LEMMA AccessFlow ==
  ASSUME NEW ex, NEW p, NEW w, Named(ex, p, "access"), Leads(ex, p, p + 1, {}, {}), Touches(ex, p, w)
  PROVE  Flow(Access(w), ex, p)
BY Kinds DEF Flow

LEMMA SureFlow ==
  ASSUME NEW ex, NEW p, NEW n, NEW del, Named(ex, p, n), Leads(ex, p, p + 1, del, {})
  PROVE  Flow(Sure(n, del), ex, p)
<1> DEFINE c == Sure(n, del)
<1>1. c.op = "sure" /\ c.name = n /\ c.add = {} /\ c.del = del BY Kinds
<1>2. c.add \subseteq Things BY <1>1
<1> HIDE DEF c
<1>3. Flow(c, ex, p) BY <1>1, <1>2 DEF Flow
<1> QED BY <1>3 DEF c

LEMMA CallFlow ==
  ASSUME NEW ex, NEW p, NEW n, NEW add, NEW del, NEW f, NEW j, Named(ex, p, n), add \subseteq Things,
         Leads(ex, p, p + 1, del, add), f.note = TRUE, Jump(ex, p, f.to, j), Fails(ex, p, j, f.release, n)
  PROVE  Flow(Do(n, add, del, f), ex, p)
BY Kinds DEF Flow

LEMMA UnlessFlow ==
  ASSUME NEW ex, NEW p, NEW have, NEW f, NEW j, Named(ex, p, "unless"), Passes(ex, p, have),
         f.note = TRUE, Jump(ex, p, f.to, j), Fails(ex, p, j, f.release, "unless")
  PROVE  Flow(Unless(have, f), ex, p)
BY Kinds DEF Flow

LEMMA SwapFlow ==
  ASSUME NEW ex, NEW p, NEW to, NEW j, Named(ex, p, "swap"), Leads(ex, p, p + 1, {}, {}),
         Jump(ex, p, to, j), Leads(ex, p, j, {}, {})
  PROVE  Flow(IfSwap(to), ex, p)
BY Kinds DEF Flow

\* The three ways a call's failure is answered.
LEMMA NoteFlow ==
  ASSUME NEW ex, NEW p \in Nat, NEW n, NEW add, NEW del, Named(ex, p, n), add \subseteq Things,
         Leads(ex, p, p + 1, del, add), Fails(ex, p, p + 1, {}, n)
  PROVE  Flow(Do(n, add, del, Note), ex, p)
<1>1. Jump(ex, p, "next", p + 1) BY DEF Jump
<1>2. Note.note = TRUE /\ Note.release = {} /\ Note.to = "next" BY Answers
<1> QED BY CallFlow, <1>1, <1>2

LEMMA NoteAndFlow ==
  ASSUME NEW ex, NEW p, NEW n, NEW add, NEW del, NEW to, NEW j, Named(ex, p, n), add \subseteq Things,
         Leads(ex, p, p + 1, del, add), Jump(ex, p, to, j), Fails(ex, p, j, {}, n)
  PROVE  Flow(Do(n, add, del, NoteAnd(to)), ex, p)
<1>2. NoteAnd(to).note = TRUE /\ NoteAnd(to).release = {} /\ NoteAnd(to).to = to BY Answers
<1> QED BY CallFlow, <1>2

LEMMA ReturnFlow ==
  ASSUME NEW ex, NEW p, NEW n, NEW add, NEW del, NEW release, Named(ex, p, n), add \subseteq Things,
         Leads(ex, p, p + 1, del, add), Fails(ex, p, Sizes[ex] + 1, release, n)
  PROVE  Flow(Do(n, add, del, Return(release)), ex, p)
<1>1. Jump(ex, p, "return", Sizes[ex] + 1) BY DEF Jump
<1>2. /\ Return(release).note = TRUE /\ Return(release).release = release
      /\ Return(release).to = "return"
  BY Answers
<1> QED BY CallFlow, <1>1, <1>2

\* At most places nothing is taken, nothing is given back, and no label stands.
Calm(ex, p) == Leads(ex, p, p + 1, {}, {}) /\ \A n : n \notin Labels => Named(ex, p, n)

LEMMA QuietPhase ==
  ASSUME NEW ex, NEW p, NEW n, Calm(ex, p), n \notin Labels
  PROVE  Flow(Ph(n), ex, p)
BY PhaseFlow DEF Calm

LEMMA QuietAccess ==
  ASSUME NEW ex, NEW p, NEW w, Calm(ex, p), Touches(ex, p, w)
  PROVE  Flow(Access(w), ex, p)
<1>1. "access" \notin Labels BY DEF Labels
<1> QED BY AccessFlow, <1>1 DEF Calm

LEMMA QuietNote ==
  ASSUME NEW ex, NEW p \in Nat, NEW n, Calm(ex, p), n \notin Labels
  PROVE  Flow(Do(n, {}, {}, Note), ex, p)
<1>1. Fails(ex, p, p + 1, {}, n) BY DEF Calm, Leads, Fails
<1>2. {} \subseteq Things OBVIOUS
<1>3. Named(ex, p, n) /\ Leads(ex, p, p + 1, {}, {}) BY DEF Calm
<1> QED BY NoteFlow, <1>1, <1>2, <1>3

LEMMA QuietNoteAnd ==
  ASSUME NEW ex, NEW p \in Nat, NEW n, NEW to, NEW j, Calm(ex, p), n \notin Labels, Jump(ex, p, to, j),
         Fails(ex, p, j, {}, n)
  PROVE  Flow(Do(n, {}, {}, NoteAnd(to)), ex, p)
<1>2. {} \subseteq Things OBVIOUS
<1>3. Named(ex, p, n) /\ Leads(ex, p, p + 1, {}, {}) BY DEF Calm
<1> QED BY NoteAndFlow, <1>2, <1>3

LEMMA QuietReturn ==
  ASSUME NEW ex, NEW p \in Nat, NEW n, NEW release, Calm(ex, p), n \notin Labels,
         Fails(ex, p, Sizes[ex] + 1, release, n)
  PROVE  Flow(Do(n, {}, {}, Return(release)), ex, p)
<1>2. {} \subseteq Things OBVIOUS
<1>3. Named(ex, p, n) /\ Leads(ex, p, p + 1, {}, {}) BY DEF Calm
<1> QED BY ReturnFlow, <1>2, <1>3

LEMMA QuietSwap ==
  ASSUME NEW ex, NEW p \in Nat, NEW to, NEW j, Calm(ex, p), Jump(ex, p, to, j), Leads(ex, p, j, {}, {})
  PROVE  Flow(IfSwap(to), ex, p)
<1>1. "swap" \notin Labels BY DEF Labels
<1> QED BY SwapFlow, <1>1 DEF Calm

LEMMA Parts ==
  /\ A({1}) = {"anon 1"} /\ A({2}) = {"anon 2"} /\ A({3}) = {"anon 3"} /\ A({5}) = {"anon 5"}
  /\ A({8}) = {"anon 8"} /\ A({9}) = {"tail"} /\ A({1, 2}) = {"anon 1", "anon 2"}
  /\ A({6, 7}) = {"anon 6", "anon 7"}
  /\ A(1 .. 4) = {"anon 1", "anon 2", "anon 3", "anon 4"}
  /\ A(1 .. 8) = {"anon 1", "anon 2", "anon 3", "anon 4", "anon 5", "anon 6", "anon 7", "anon 8"}
<1> DEFINE t == <<"anon 1", "anon 2", "anon 3", "anon 4", "anon 5", "anon 6", "anon 7", "anon 8", "tail">>
<1>1. \A parts : A(parts) = {t[n] : n \in parts} BY DEF A
<1>2. /\ t[1] = "anon 1" /\ t[2] = "anon 2" /\ t[3] = "anon 3" /\ t[4] = "anon 4" /\ t[5] = "anon 5"
      /\ t[6] = "anon 6" /\ t[7] = "anon 7" /\ t[8] = "anon 8" /\ t[9] = "tail"
  OBVIOUS
<1> HIDE DEF t
<1>3. A({1}) = {"anon 1"} BY <1>1, <1>2
<1>4. A({2}) = {"anon 2"} BY <1>1, <1>2
<1>5. A({3}) = {"anon 3"} BY <1>1, <1>2
<1>6. A({5}) = {"anon 5"} BY <1>1, <1>2
<1>7. A({8}) = {"anon 8"} BY <1>1, <1>2
<1>8. A({9}) = {"tail"} BY <1>1, <1>2
<1>9. A({1, 2}) = {"anon 1", "anon 2"} BY <1>1, <1>2
<1>10. A({6, 7}) = {"anon 6", "anon 7"} BY <1>1, <1>2
<1>11. A(1 .. 4) = {"anon 1", "anon 2", "anon 3", "anon 4"}
  <2>1. 1 .. 4 = {1, 2, 3, 4} OBVIOUS
  <2> QED BY <1>1, <1>2, <2>1
<1>12. A(1 .. 8) = {"anon 1", "anon 2", "anon 3", "anon 4", "anon 5", "anon 6", "anon 7", "anon 8"}
  <2>1. 1 .. 8 = {1, 2, 3, 4, 5, 6, 7, 8} OBVIOUS
  <2> QED BY <1>1, <1>2, <2>1
<1> QED BY <1>3, <1>4, <1>5, <1>6, <1>7, <1>8, <1>9, <1>10, <1>11, <1>12

\* Everything of the private anonymous mapping is certain: no call that fails leaves a part out.
LEMMA AnonMust ==
  /\ \A p, r : May(2, p, r) <=> AnonHolds(p, r)
  /\ \A p, r, clean : Must(2, p, r, clean) <=> AnonHolds(p, r)
<1>1. \A p, r : May(2, p, r) <=> AnonHolds(p, r) BY DEF May
<1>2. \A r \in Whole : /\ r # "read_only_fd" /\ r # "shared_view" /\ r # "private_view" /\ r # "tail"
                      /\ r # "shared_a" /\ r # "shared_b"
  BY DEF Whole
<1>3. \A p, r : AnonHolds(p, r) => Certain(p, r) BY <1>2 DEF AnonHolds, Certain
<1> QED BY <1>1, <1>3, Zenon DEF Must

LEMMA AnonLeads ==
  ASSUME NEW p, NEW j, NEW del, NEW add,
         \A r : AnonHolds(j, r) <=> (AnonHolds(p, r) /\ r \notin del) \/ r \in add
  PROVE  Leads(2, p, j, del, add)
BY AnonMust, Zenon DEF Leads

LEMMA AnonFails ==
  ASSUME NEW p, NEW j, NEW release, NEW name,
         \A r : AnonHolds(p, r) /\ r \notin release => AnonHolds(j, r) \/ Excused(r, {name}),
         \A r : AnonHolds(j, r) => AnonHolds(p, r) /\ r \notin release
  PROVE  Fails(2, p, j, release, name)
BY AnonMust, Zenon DEF Fails

LEMMA AnonTouches ==
  ASSUME NEW p, NEW what, \A r \in what : r \in Things /\ AnonHolds(p, r)
  PROVE  Touches(2, p, what)
BY AnonMust, Zenon DEF Touches

LEMMA WholeParts ==
  /\ Whole \subseteq Things /\ "tail" \in Things /\ "tail" \notin Whole
  /\ {"anon 1", "anon 2", "anon 3", "anon 4", "anon 5", "anon 6", "anon 7", "anon 8"} \subseteq Whole
  /\ \A r : r \in {"anon 6", "anon 7"} <=> /\ r \in Whole /\ r # "anon 5" /\ r # "anon 8"
                                           /\ r \notin {"anon 1", "anon 2", "anon 3", "anon 4"}
<1>1. Whole \subseteq Things /\ "tail" \in Things BY DEF Whole, Things
<1>2. "tail" \notin Whole BY DEF Whole
<1>3. \A r : r \in {"anon 6", "anon 7"} <=> /\ r \in Whole /\ r # "anon 5" /\ r # "anon 8"
                                           /\ r \notin {"anon 1", "anon 2", "anon 3", "anon 4"}
  BY DEF Whole
<1> QED BY <1>1, <1>2, <1>3 DEF Whole

\* Where the exercises are quiet.
LEMMA FileQuiet == \A p \in 1 .. 58 : p \notin {2, 7, 8, 10, 18, 20, 21, 22, 31, 33, 37, 38, 39, 52, 53, 57, 58} => Calm(1, p)
<1> SUFFICES ASSUME NEW p \in 1 .. 58, p \notin {2, 7, 8, 10, 18, 20, 21, 22, 31, 33, 37, 38, 39, 52, 53, 57, 58} PROVE Calm(1, p)
  OBVIOUS
<1>1. Leads(1, p, p + 1, {}, {}) BY DEF Leads, May, Must, Certain, FileHolds
<1>2. \A n : n \notin Labels => Named(1, p, n) BY DEF Named, LabelAt
<1> QED BY <1>1, <1>2 DEF Calm

LEMMA AnonQuiet == \A p \in 1 .. 38 : p \notin {2, 17, 18, 20, 26, 27, 36, 37, 38} => Calm(2, p)
<1> SUFFICES ASSUME NEW p \in 1 .. 38, p \notin {2, 17, 18, 20, 26, 27, 36, 37, 38} PROVE Calm(2, p)
  OBVIOUS
<1>1. Leads(2, p, p + 1, {}, {})
  <2>1. \A r : AnonHolds(p + 1, r) <=> AnonHolds(p, r)
    <3>1. /\ p \in 3 .. 18 <=> p + 1 \in 3 .. 18
          /\ p \in 19 .. 20 <=> p + 1 \in 19 .. 20
          /\ p \in 21 .. 26 <=> p + 1 \in 21 .. 26
          /\ p \in 21 .. 37 <=> p + 1 \in 21 .. 37
          /\ p # 38 /\ p + 1 # 38
      OBVIOUS
    <3> QED BY <3>1, Zenon DEF AnonHolds
  <2> QED BY <2>1, AnonLeads
<1>2. \A n : n \notin Labels => Named(2, p, n) BY DEF Named, LabelAt
<1> QED BY <1>1, <1>2 DEF Calm

LEMMA ShmemQuiet == \A p \in 1 .. 14 : p \notin {2, 13, 14} => Calm(3, p)
<1> SUFFICES ASSUME NEW p \in 1 .. 14, p \notin {2, 13, 14} PROVE Calm(3, p)
  OBVIOUS
<1>1. Leads(3, p, p + 1, {}, {}) BY DEF Leads, May, Must, Certain, ShmemHolds
<1>2. \A n : n \notin Labels => Named(3, p, n) BY DEF Named, LabelAt
<1> QED BY <1>1, <1>2 DEF Calm

LEMMA ThpQuiet == \A p \in 1 .. 32 : p \notin {2, 3, 4, 17, 18, 20, 24, 26, 31, 32} => Calm(4, p)
<1> SUFFICES ASSUME NEW p \in 1 .. 32, p \notin {2, 3, 4, 17, 18, 20, 24, 26, 31, 32} PROVE Calm(4, p)
  OBVIOUS
<1>1. Leads(4, p, p + 1, {}, {}) BY DEF Leads, May, Must, Certain, ThpHolds
<1>2. \A n : n \notin Labels => Named(4, p, n) BY DEF Named, LabelAt
<1> QED BY <1>1, <1>2 DEF Calm

\* What every instruction does at its place.
LEMMA FileSharedFlows == \A p \in 1 .. 35 : Flow(FileShared[p], 1, p)
<1>1. Flow(FileShared[1], 1, 1)
  <2>1. FileShared[1] = Ph("seed") BY DEF FileShared
  <2>2. Calm(1, 1) BY FileQuiet
  <2>3. "seed" \notin Labels BY DEF Labels
  <2> QED BY QuietPhase, <2>1, <2>2, <2>3
<1>2. Flow(FileShared[2], 1, 2)
  <2>1. FileShared[2] = Do("mkstemp", {"fd", "path"}, {}, Return({})) BY DEF FileShared
  <2>2. Named(1, 2, "mkstemp") BY DEF Named, Labels, LabelAt
  <2>3. {"fd", "path"} \subseteq Things BY DEF Things
  <2>4. Leads(1, 2, 2 + 1, {}, {"fd", "path"}) BY DEF Leads, May, Must, Certain, FileHolds
  <2>5. Fails(1, 2, 59, {}, "mkstemp") BY DEF Fails, May, Must, Certain, Excused, FileHolds
  <2>6. Sizes[1] + 1 = 59 BY DEF Sizes
  <2>7. Flow(Do("mkstemp", {"fd", "path"}, {}, Return({})), 1, 2)
    BY ReturnFlow, <2>2, <2>3, <2>4, <2>5, <2>6
  <2> QED BY <2>1, <2>7
<1>3. Flow(FileShared[3], 1, 3)
  <2>1. FileShared[3] = Do("ftruncate", {}, {}, Return({"fd", "path"})) BY DEF FileShared
  <2>2. Calm(1, 3) BY FileQuiet
  <2>3. "ftruncate" \notin Labels BY DEF Labels
  <2>4. Fails(1, 3, 59, {"fd", "path"}, "ftruncate")
    BY DEF Fails, May, Must, Certain, Excused, FileHolds
  <2>5. Sizes[1] + 1 = 59 BY DEF Sizes
  <2> QED BY QuietReturn, <2>1, <2>2, <2>3, <2>4, <2>5
<1>4. Flow(FileShared[4], 1, 4)
  <2>1. FileShared[4] = Do("pwrite", {}, {}, Return({"fd", "path"})) BY DEF FileShared
  <2>2. Calm(1, 4) BY FileQuiet
  <2>3. "pwrite" \notin Labels BY DEF Labels
  <2>4. Fails(1, 4, 59, {"fd", "path"}, "pwrite")
    BY DEF Fails, May, Must, Certain, Excused, FileHolds
  <2>5. Sizes[1] + 1 = 59 BY DEF Sizes
  <2> QED BY QuietReturn, <2>1, <2>2, <2>3, <2>4, <2>5
<1>5. Flow(FileShared[5], 1, 5)
  <2>1. FileShared[5] = Do("fsync", {}, {}, Note) BY DEF FileShared
  <2>2. Calm(1, 5) BY FileQuiet
  <2>3. "fsync" \notin Labels BY DEF Labels
  <2> QED BY QuietNote, <2>1, <2>2, <2>3
<1>6. Flow(FileShared[6], 1, 6)
  <2>1. FileShared[6] = Do("fadvise", {}, {}, Note) BY DEF FileShared
  <2>2. Calm(1, 6) BY FileQuiet
  <2>3. "fadvise" \notin Labels BY DEF Labels
  <2> QED BY QuietNote, <2>1, <2>2, <2>3
<1>7. Flow(FileShared[7], 1, 7)
  <2>1. FileShared[7] = Do("open", {"read_only_fd"}, {}, Note) BY DEF FileShared
  <2>2. Named(1, 7, "open") BY DEF Named, Labels, LabelAt
  <2>3. {"read_only_fd"} \subseteq Things BY DEF Things
  <2>4. Leads(1, 7, 7 + 1, {}, {"read_only_fd"}) BY DEF Leads, May, Must, Certain, FileHolds
  <2>5. Fails(1, 7, 7 + 1, {}, "open") BY DEF Fails, May, Must, Certain, Excused, FileHolds
  <2>6. Flow(Do("open", {"read_only_fd"}, {}, Note), 1, 7) BY NoteFlow, <2>2, <2>3, <2>4, <2>5
  <2> QED BY <2>1, <2>6
<1>8. Flow(FileShared[8], 1, 8)
  <2>1. FileShared[8] = Sure("unlink", {"path"}) BY DEF FileShared
  <2>2. Named(1, 8, "unlink") BY DEF Named, Labels, LabelAt
  <2>3. Leads(1, 8, 8 + 1, {"path"}, {}) BY DEF Leads, May, Must, Certain, FileHolds
  <2>4. Flow(Sure("unlink", {"path"}), 1, 8) BY SureFlow, <2>2, <2>3
  <2> QED BY <2>1, <2>4
<1>9. Flow(FileShared[9], 1, 9)
  <2>1. FileShared[9] = Ph("cold mapping") BY DEF FileShared
  <2>2. Calm(1, 9) BY FileQuiet
  <2>3. "cold mapping" \notin Labels BY DEF Labels
  <2> QED BY QuietPhase, <2>1, <2>2, <2>3
<1>10. Flow(FileShared[10], 1, 10)
  <2>1. FileShared[10] = Do("mmap", {"cold"}, {}, Return({"read_only_fd", "fd"})) BY DEF FileShared
  <2>2. Named(1, 10, "mmap") BY DEF Named, Labels, LabelAt
  <2>3. {"cold"} \subseteq Things BY DEF Things
  <2>4. Leads(1, 10, 10 + 1, {}, {"cold"}) BY DEF Leads, May, Must, Certain, FileHolds
  <2>5. Fails(1, 10, 59, {"read_only_fd", "fd"}, "mmap")
    BY DEF Fails, May, Must, Certain, Excused, FileHolds
  <2>6. Sizes[1] + 1 = 59 BY DEF Sizes
  <2>7. Flow(Do("mmap", {"cold"}, {}, Return({"read_only_fd", "fd"})), 1, 10)
    BY ReturnFlow, <2>2, <2>3, <2>4, <2>5, <2>6
  <2> QED BY <2>1, <2>7
<1>11. Flow(FileShared[11], 1, 11)
  <2>1. FileShared[11] = Ph("cold reads") BY DEF FileShared
  <2>2. Calm(1, 11) BY FileQuiet
  <2>3. "cold reads" \notin Labels BY DEF Labels
  <2> QED BY QuietPhase, <2>1, <2>2, <2>3
<1>12. Flow(FileShared[12], 1, 12)
  <2>1. FileShared[12] = Access({"cold"}) BY DEF FileShared
  <2>2. Calm(1, 12) BY FileQuiet
  <2>3. Touches(1, 12, {"cold"}) BY DEF Touches, Things, Must, May, Certain, FileHolds
  <2> QED BY QuietAccess, <2>1, <2>2, <2>3
<1>13. Flow(FileShared[13], 1, 13)
  <2>1. FileShared[13] = Ph("drop PTEs") BY DEF FileShared
  <2>2. Calm(1, 13) BY FileQuiet
  <2>3. "drop PTEs" \notin Labels BY DEF Labels
  <2> QED BY QuietPhase, <2>1, <2>2, <2>3
<1>14. Flow(FileShared[14], 1, 14)
  <2>1. FileShared[14] = Do("madvise", {}, {}, Note) BY DEF FileShared
  <2>2. Calm(1, 14) BY FileQuiet
  <2>3. "madvise" \notin Labels BY DEF Labels
  <2> QED BY QuietNote, <2>1, <2>2, <2>3
<1>15. Flow(FileShared[15], 1, 15)
  <2>1. FileShared[15] = Ph("warm reads") BY DEF FileShared
  <2>2. Calm(1, 15) BY FileQuiet
  <2>3. "warm reads" \notin Labels BY DEF Labels
  <2> QED BY QuietPhase, <2>1, <2>2, <2>3
<1>16. Flow(FileShared[16], 1, 16)
  <2>1. FileShared[16] = Access({"cold"}) BY DEF FileShared
  <2>2. Calm(1, 16) BY FileQuiet
  <2>3. Touches(1, 16, {"cold"}) BY DEF Touches, Things, Must, May, Certain, FileHolds
  <2> QED BY QuietAccess, <2>1, <2>2, <2>3
<1>17. Flow(FileShared[17], 1, 17)
  <2>1. FileShared[17] = Ph("unmap cold") BY DEF FileShared
  <2>2. Calm(1, 17) BY FileQuiet
  <2>3. "unmap cold" \notin Labels BY DEF Labels
  <2> QED BY QuietPhase, <2>1, <2>2, <2>3
<1>18. Flow(FileShared[18], 1, 18)
  <2>1. FileShared[18] = Sure("munmap", {"cold"}) BY DEF FileShared
  <2>2. Named(1, 18, "munmap") BY DEF Named, Labels, LabelAt
  <2>3. Leads(1, 18, 18 + 1, {"cold"}, {}) BY DEF Leads, May, Must, Certain, FileHolds
  <2>4. Flow(Sure("munmap", {"cold"}), 1, 18) BY SureFlow, <2>2, <2>3
  <2> QED BY <2>1, <2>4
<1>19. Flow(FileShared[19], 1, 19)
  <2>1. FileShared[19] = Ph("shared pair") BY DEF FileShared
  <2>2. Calm(1, 19) BY FileQuiet
  <2>3. "shared pair" \notin Labels BY DEF Labels
  <2> QED BY QuietPhase, <2>1, <2>2, <2>3
<1>20. Flow(FileShared[20], 1, 20)
  <2>1. FileShared[20] = Do("mmap", {"shared_a"}, {}, Note) BY DEF FileShared
  <2>2. Named(1, 20, "mmap") BY DEF Named, Labels, LabelAt
  <2>3. {"shared_a"} \subseteq Things BY DEF Things
  <2>4. Leads(1, 20, 20 + 1, {}, {"shared_a"}) BY DEF Leads, May, Must, Certain, FileHolds
  <2>5. Fails(1, 20, 20 + 1, {}, "mmap") BY DEF Fails, May, Must, Certain, Excused, FileHolds
  <2>6. Flow(Do("mmap", {"shared_a"}, {}, Note), 1, 20) BY NoteFlow, <2>2, <2>3, <2>4, <2>5
  <2> QED BY <2>1, <2>6
<1>21. Flow(FileShared[21], 1, 21)
  <2>1. FileShared[21] = Do("mmap", {"shared_b"}, {}, Note) BY DEF FileShared
  <2>2. Named(1, 21, "mmap") BY DEF Named, Labels, LabelAt
  <2>3. {"shared_b"} \subseteq Things BY DEF Things
  <2>4. Leads(1, 21, 21 + 1, {}, {"shared_b"}) BY DEF Leads, May, Must, Certain, FileHolds
  <2>5. Fails(1, 21, 21 + 1, {}, "mmap") BY DEF Fails, May, Must, Certain, Excused, FileHolds
  <2>6. Flow(Do("mmap", {"shared_b"}, {}, Note), 1, 21) BY NoteFlow, <2>2, <2>3, <2>4, <2>5
  <2> QED BY <2>1, <2>6
<1>22. Flow(FileShared[22], 1, 22)
  <2>1. FileShared[22] = Unless({"shared_a", "shared_b"}, Return({"shared_a", "shared_b", "read_only_fd", "fd"}))
    BY DEF FileShared
  <2>2. Named(1, 22, "unless") BY DEF Named, Labels, LabelAt
  <2>3. Passes(1, 22, {"shared_a", "shared_b"}) BY DEF Passes, Things, May, Must, Certain, FileHolds
  <2>4. Jump(1, 22, "return", 59) BY DEF Jump, Labels, LabelAt, Sizes
  <2>5. Fails(1, 22, 59, {"shared_a", "shared_b", "read_only_fd", "fd"}, "unless")
    BY DEF Fails, May, Must, Certain, Excused, FileHolds
  <2>6. /\ Return({"shared_a", "shared_b", "read_only_fd", "fd"}).note = TRUE
        /\ Return({"shared_a", "shared_b", "read_only_fd", "fd"}).to = "return"
        /\ Return({"shared_a", "shared_b", "read_only_fd", "fd"}).release
             = {"shared_a", "shared_b", "read_only_fd", "fd"}
    BY Answers
  <2>7. Flow(Unless({"shared_a", "shared_b"}, Return({"shared_a", "shared_b", "read_only_fd", "fd"})), 1, 22)
    BY UnlessFlow, <2>2, <2>3, <2>4, <2>5, <2>6
  <2> QED BY <2>1, <2>7
<1>23. Flow(FileShared[23], 1, 23)
  <2>1. FileShared[23] = Ph("dirty") BY DEF FileShared
  <2>2. Calm(1, 23) BY FileQuiet
  <2>3. "dirty" \notin Labels BY DEF Labels
  <2> QED BY QuietPhase, <2>1, <2>2, <2>3
<1>24. Flow(FileShared[24], 1, 24)
  <2>1. FileShared[24] = Access({"shared_a"}) BY DEF FileShared
  <2>2. Calm(1, 24) BY FileQuiet
  <2>3. Touches(1, 24, {"shared_a"}) BY DEF Touches, Things, Must, May, Certain, FileHolds
  <2> QED BY QuietAccess, <2>1, <2>2, <2>3
<1>25. Flow(FileShared[25], 1, 25)
  <2>1. FileShared[25] = Ph("coherent") BY DEF FileShared
  <2>2. Calm(1, 25) BY FileQuiet
  <2>3. "coherent" \notin Labels BY DEF Labels
  <2> QED BY QuietPhase, <2>1, <2>2, <2>3
<1>26. Flow(FileShared[26], 1, 26)
  <2>1. FileShared[26] = Access({"shared_b"}) BY DEF FileShared
  <2>2. Calm(1, 26) BY FileQuiet
  <2>3. Touches(1, 26, {"shared_b"}) BY DEF Touches, Things, Must, May, Certain, FileHolds
  <2> QED BY QuietAccess, <2>1, <2>2, <2>3
<1>27. Flow(FileShared[27], 1, 27)
  <2>1. FileShared[27] = Do("compare", {}, {}, Note) BY DEF FileShared
  <2>2. Calm(1, 27) BY FileQuiet
  <2>3. "compare" \notin Labels BY DEF Labels
  <2> QED BY QuietNote, <2>1, <2>2, <2>3
<1>28. Flow(FileShared[28], 1, 28)
  <2>1. FileShared[28] = Ph("write back") BY DEF FileShared
  <2>2. Calm(1, 28) BY FileQuiet
  <2>3. "write back" \notin Labels BY DEF Labels
  <2> QED BY QuietPhase, <2>1, <2>2, <2>3
<1>29. Flow(FileShared[29], 1, 29)
  <2>1. FileShared[29] = Do("msync, fsync", {}, {}, Note) BY DEF FileShared
  <2>2. Calm(1, 29) BY FileQuiet
  <2>3. "msync, fsync" \notin Labels BY DEF Labels
  <2> QED BY QuietNote, <2>1, <2>2, <2>3
<1>30. Flow(FileShared[30], 1, 30)
  <2>1. FileShared[30] = Ph("unmap shared_a") BY DEF FileShared
  <2>2. Calm(1, 30) BY FileQuiet
  <2>3. "unmap shared_a" \notin Labels BY DEF Labels
  <2> QED BY QuietPhase, <2>1, <2>2, <2>3
<1>31. Flow(FileShared[31], 1, 31)
  <2>1. FileShared[31] = Sure("munmap", {"shared_a"}) BY DEF FileShared
  <2>2. Named(1, 31, "munmap") BY DEF Named, Labels, LabelAt
  <2>3. Leads(1, 31, 31 + 1, {"shared_a"}, {}) BY DEF Leads, May, Must, Certain, FileHolds
  <2>4. Flow(Sure("munmap", {"shared_a"}), 1, 31) BY SureFlow, <2>2, <2>3
  <2> QED BY <2>1, <2>4
<1>32. Flow(FileShared[32], 1, 32)
  <2>1. FileShared[32] = Ph("unmap shared_b") BY DEF FileShared
  <2>2. Calm(1, 32) BY FileQuiet
  <2>3. "unmap shared_b" \notin Labels BY DEF Labels
  <2> QED BY QuietPhase, <2>1, <2>2, <2>3
<1>33. Flow(FileShared[33], 1, 33)
  <2>1. FileShared[33] = Sure("munmap", {"shared_b"}) BY DEF FileShared
  <2>2. Named(1, 33, "munmap") BY DEF Named, Labels, LabelAt
  <2>3. Leads(1, 33, 33 + 1, {"shared_b"}, {}) BY DEF Leads, May, Must, Certain, FileHolds
  <2>4. Flow(Sure("munmap", {"shared_b"}), 1, 33) BY SureFlow, <2>2, <2>3
  <2> QED BY <2>1, <2>4
<1>34. Flow(FileShared[34], 1, 34)
  <2>1. FileShared[34] = Ph("evict") BY DEF FileShared
  <2>2. Calm(1, 34) BY FileQuiet
  <2>3. "evict" \notin Labels BY DEF Labels
  <2> QED BY QuietPhase, <2>1, <2>2, <2>3
<1>35. Flow(FileShared[35], 1, 35)
  <2>1. FileShared[35] = Do("fadvise", {}, {}, Note) BY DEF FileShared
  <2>2. Calm(1, 35) BY FileQuiet
  <2>3. "fadvise" \notin Labels BY DEF Labels
  <2> QED BY QuietNote, <2>1, <2>2, <2>3
<1> SUFFICES ASSUME NEW p \in 1 .. 35 PROVE Flow(FileShared[p], 1, p)
  OBVIOUS
<1>36. p \in {1, 2, 3, 4, 5, 6, 7, 8, 9, 10, 11, 12, 13, 14, 15, 16, 17, 18, 19, 20, 21, 22, 23, 24, 25, 26, 27, 28, 29, 30, 31, 32, 33, 34, 35}
  OBVIOUS
<1> QED

    BY <1>1, <1>2, <1>3, <1>4, <1>5, <1>6, <1>7, <1>8, <1>9, <1>10, <1>11, <1>12, <1>13, <1>14, <1>15, <1>16,
     <1>17, <1>18, <1>19, <1>20, <1>21, <1>22, <1>23, <1>24, <1>25, <1>26, <1>27, <1>28, <1>29, <1>30, <1>31, <1>32,
     <1>33, <1>34, <1>35, <1>36

LEMMA FilePrivateFlows == \A p \in 1 .. 23 : Flow(FilePrivate[p], 1, p + 35)
<1>1. Flow(FilePrivate[1], 1, 36)
  <2>1. FilePrivate[1] = Ph("views") BY DEF FilePrivate
  <2>2. Calm(1, 36) BY FileQuiet
  <2>3. "views" \notin Labels BY DEF Labels
  <2> QED BY QuietPhase, <2>1, <2>2, <2>3
<1>2. Flow(FilePrivate[2], 1, 37)
  <2>1. FilePrivate[2] = Do("mmap", {"shared_view"}, {}, Note) BY DEF FilePrivate
  <2>2. Named(1, 37, "mmap") BY DEF Named, Labels, LabelAt
  <2>3. {"shared_view"} \subseteq Things BY DEF Things
  <2>4. Leads(1, 37, 37 + 1, {}, {"shared_view"}) BY DEF Leads, May, Must, Certain, FileHolds
  <2>5. Fails(1, 37, 37 + 1, {}, "mmap") BY DEF Fails, May, Must, Certain, Excused, FileHolds
  <2>6. Flow(Do("mmap", {"shared_view"}, {}, Note), 1, 37) BY NoteFlow, <2>2, <2>3, <2>4, <2>5
  <2> QED BY <2>1, <2>6
<1>3. Flow(FilePrivate[3], 1, 38)
  <2>1. FilePrivate[3] = Do("mmap", {"private_view"}, {}, Note) BY DEF FilePrivate
  <2>2. Named(1, 38, "mmap") BY DEF Named, Labels, LabelAt
  <2>3. {"private_view"} \subseteq Things BY DEF Things
  <2>4. Leads(1, 38, 38 + 1, {}, {"private_view"}) BY DEF Leads, May, Must, Certain, FileHolds
  <2>5. Fails(1, 38, 38 + 1, {}, "mmap") BY DEF Fails, May, Must, Certain, Excused, FileHolds
  <2>6. Flow(Do("mmap", {"private_view"}, {}, Note), 1, 38) BY NoteFlow, <2>2, <2>3, <2>4, <2>5
  <2> QED BY <2>1, <2>6
<1>4. Flow(FilePrivate[4], 1, 39)
  <2>1. FilePrivate[4] = Unless({"shared_view", "private_view"}, NoteAnd("truncate"))
    BY DEF FilePrivate
  <2>2. Named(1, 39, "unless") BY DEF Named, Labels, LabelAt
  <2>3. Passes(1, 39, {"shared_view", "private_view"})
    BY DEF Passes, Things, May, Must, Certain, FileHolds
  <2>4. Jump(1, 39, "truncate", 52) BY DEF Jump, Labels, LabelAt
  <2>5. Fails(1, 39, 52, {}, "unless") BY DEF Fails, May, Must, Certain, Excused, FileHolds
  <2>6. /\ NoteAnd("truncate").note = TRUE /\ NoteAnd("truncate").to = "truncate"
       /\ NoteAnd("truncate").release = {}
    BY Answers
  <2>7. Flow(Unless({"shared_view", "private_view"}, NoteAnd("truncate")), 1, 39)
    BY UnlessFlow, <2>2, <2>3, <2>4, <2>5, <2>6
  <2> QED BY <2>1, <2>7
<1>5. Flow(FilePrivate[5], 1, 40)
  <2>1. FilePrivate[5] = Ph("private reads") BY DEF FilePrivate
  <2>2. Calm(1, 40) BY FileQuiet
  <2>3. "private reads" \notin Labels BY DEF Labels
  <2> QED BY QuietPhase, <2>1, <2>2, <2>3
<1>6. Flow(FilePrivate[6], 1, 41)
  <2>1. FilePrivate[6] = Access({"private_view"}) BY DEF FilePrivate
  <2>2. Calm(1, 41) BY FileQuiet
  <2>3. Touches(1, 41, {"private_view"}) BY DEF Touches, Things, Must, May, Certain, FileHolds
  <2> QED BY QuietAccess, <2>1, <2>2, <2>3
<1>7. Flow(FilePrivate[7], 1, 42)
  <2>1. FilePrivate[7] = Ph("copy on write") BY DEF FilePrivate
  <2>2. Calm(1, 42) BY FileQuiet
  <2>3. "copy on write" \notin Labels BY DEF Labels
  <2> QED BY QuietPhase, <2>1, <2>2, <2>3
<1>8. Flow(FilePrivate[8], 1, 43)
  <2>1. FilePrivate[8] = Access({"private_view"}) BY DEF FilePrivate
  <2>2. Calm(1, 43) BY FileQuiet
  <2>3. Touches(1, 43, {"private_view"}) BY DEF Touches, Things, Must, May, Certain, FileHolds
  <2> QED BY QuietAccess, <2>1, <2>2, <2>3
<1>9. Flow(FilePrivate[9], 1, 44)
  <2>1. FilePrivate[9] = Ph("isolated") BY DEF FilePrivate
  <2>2. Calm(1, 44) BY FileQuiet
  <2>3. "isolated" \notin Labels BY DEF Labels
  <2> QED BY QuietPhase, <2>1, <2>2, <2>3
<1>10. Flow(FilePrivate[10], 1, 45)
  <2>1. FilePrivate[10] = Access({"shared_view", "private_view"}) BY DEF FilePrivate
  <2>2. Calm(1, 45) BY FileQuiet
  <2>3. Touches(1, 45, {"shared_view", "private_view"})
    <3>1. Touches(1, 45, {"shared_view"})
      BY DEF Touches, Things, May, Must, Certain, FileHolds
    <3>2. Touches(1, 45, {"private_view"})
      BY DEF Touches, Things, May, Must, Certain, FileHolds
    <3> QED BY <3>1, <3>2 DEF Touches
  <2> QED BY QuietAccess, <2>1, <2>2, <2>3
<1>11. Flow(FilePrivate[11], 1, 46)
  <2>1. FilePrivate[11] = Do("compare", {}, {}, Note) BY DEF FilePrivate
  <2>2. Calm(1, 46) BY FileQuiet
  <2>3. "compare" \notin Labels BY DEF Labels
  <2> QED BY QuietNote, <2>1, <2>2, <2>3
<1>12. Flow(FilePrivate[12], 1, 47)
  <2>1. FilePrivate[12] = Ph("pageout") BY DEF FilePrivate
  <2>2. Calm(1, 47) BY FileQuiet
  <2>3. "pageout" \notin Labels BY DEF Labels
  <2> QED BY QuietPhase, <2>1, <2>2, <2>3
<1>13. Flow(FilePrivate[13], 1, 48)
  <2>1. FilePrivate[13] = IfSwap("truncate") BY DEF FilePrivate
  <2>2. Calm(1, 48) BY FileQuiet
  <2>3. Jump(1, 48, "truncate", 52) BY DEF Jump, Labels, LabelAt
  <2>4. Leads(1, 48, 52, {}, {}) BY DEF Leads, May, Must, Certain, FileHolds
  <2> QED BY QuietSwap, <2>1, <2>2, <2>3, <2>4
<1>14. Flow(FilePrivate[14], 1, 49)
  <2>1. FilePrivate[14] = Do("madvise", {}, {}, NoteAnd("truncate")) BY DEF FilePrivate
  <2>2. Calm(1, 49) BY FileQuiet
  <2>3. "madvise" \notin Labels BY DEF Labels
  <2>4. Jump(1, 49, "truncate", 52) BY DEF Jump, Labels, LabelAt
  <2>5. Fails(1, 49, 52, {}, "madvise") BY DEF Fails, May, Must, Certain, Excused, FileHolds
  <2> QED BY QuietNoteAnd, <2>1, <2>2, <2>3, <2>4, <2>5
<1>15. Flow(FilePrivate[15], 1, 50)
  <2>1. FilePrivate[15] = Ph("refault") BY DEF FilePrivate
  <2>2. Calm(1, 50) BY FileQuiet
  <2>3. "refault" \notin Labels BY DEF Labels
  <2> QED BY QuietPhase, <2>1, <2>2, <2>3
<1>16. Flow(FilePrivate[16], 1, 51)
  <2>1. FilePrivate[16] = Access({"private_view"}) BY DEF FilePrivate
  <2>2. Calm(1, 51) BY FileQuiet
  <2>3. Touches(1, 51, {"private_view"}) BY DEF Touches, Things, Must, May, Certain, FileHolds
  <2> QED BY QuietAccess, <2>1, <2>2, <2>3
<1>17. Flow(FilePrivate[17], 1, 52)
  <2>1. FilePrivate[17] = Ph("truncate") BY DEF FilePrivate
  <2>2. Named(1, 52, "truncate") BY DEF Named, Labels, LabelAt
  <2>3. Leads(1, 52, 52 + 1, {}, {}) BY DEF Leads, May, Must, Certain, FileHolds
  <2>4. Flow(Ph("truncate"), 1, 52) BY PhaseFlow, <2>2, <2>3
  <2> QED BY <2>1, <2>4
<1>18. Flow(FilePrivate[18], 1, 53)
  <2>1. FilePrivate[18] = Unless({"shared_view"}, NoteAnd("unmap views")) BY DEF FilePrivate
  <2>2. Named(1, 53, "unless") BY DEF Named, Labels, LabelAt
  <2>3. Passes(1, 53, {"shared_view"}) BY DEF Passes, Things, May, Must, Certain, FileHolds
  <2>4. Jump(1, 53, "unmap views", 57) BY DEF Jump, Labels, LabelAt
  <2>5. Fails(1, 53, 57, {}, "unless") BY DEF Fails, May, Must, Certain, Excused, FileHolds
  <2>6. /\ NoteAnd("unmap views").note = TRUE /\ NoteAnd("unmap views").to = "unmap views"
       /\ NoteAnd("unmap views").release = {}
    BY Answers
  <2>7. Flow(Unless({"shared_view"}, NoteAnd("unmap views")), 1, 53)
    BY UnlessFlow, <2>2, <2>3, <2>4, <2>5, <2>6
  <2> QED BY <2>1, <2>7
<1>19. Flow(FilePrivate[19], 1, 54)
  <2>1. FilePrivate[19] = Do("ftruncate", {}, {}, NoteAnd("unmap views")) BY DEF FilePrivate
  <2>2. Calm(1, 54) BY FileQuiet
  <2>3. "ftruncate" \notin Labels BY DEF Labels
  <2>4. Jump(1, 54, "unmap views", 57) BY DEF Jump, Labels, LabelAt
  <2>5. Fails(1, 54, 57, {}, "ftruncate") BY DEF Fails, May, Must, Certain, Excused, FileHolds
  <2> QED BY QuietNoteAnd, <2>1, <2>2, <2>3, <2>4, <2>5
<1>20. Flow(FilePrivate[20], 1, 55)
  <2>1. FilePrivate[20] = Access({"shared_view"}) BY DEF FilePrivate
  <2>2. Calm(1, 55) BY FileQuiet
  <2>3. Touches(1, 55, {"shared_view"}) BY DEF Touches, Things, Must, May, Certain, FileHolds
  <2> QED BY QuietAccess, <2>1, <2>2, <2>3
<1>21. Flow(FilePrivate[21], 1, 56)
  <2>1. FilePrivate[21] = Do("fork, SIGBUS", {}, {}, Note) BY DEF FilePrivate
  <2>2. Calm(1, 56) BY FileQuiet
  <2>3. "fork, SIGBUS" \notin Labels BY DEF Labels
  <2> QED BY QuietNote, <2>1, <2>2, <2>3
<1>22. Flow(FilePrivate[22], 1, 57)
  <2>1. FilePrivate[22] = Sure("unmap views", {"shared_view", "private_view"}) BY DEF FilePrivate
  <2>2. Named(1, 57, "unmap views") BY DEF Named, Labels, LabelAt
  <2>3. Leads(1, 57, 57 + 1, {"shared_view", "private_view"}, {})
    BY DEF Leads, May, Must, Certain, FileHolds
  <2>4. Flow(Sure("unmap views", {"shared_view", "private_view"}), 1, 57) BY SureFlow, <2>2, <2>3
  <2> QED BY <2>1, <2>4
<1>23. Flow(FilePrivate[23], 1, 58)
  <2>1. FilePrivate[23] = Sure("close", {"read_only_fd", "fd"}) BY DEF FilePrivate
  <2>2. Named(1, 58, "close") BY DEF Named, Labels, LabelAt
  <2>3. Leads(1, 58, 58 + 1, {"read_only_fd", "fd"}, {}) BY DEF Leads, May, Must, Certain, FileHolds
  <2>4. Flow(Sure("close", {"read_only_fd", "fd"}), 1, 58) BY SureFlow, <2>2, <2>3
  <2> QED BY <2>1, <2>4
<1> SUFFICES ASSUME NEW p \in 1 .. 23 PROVE Flow(FilePrivate[p], 1, p + 35)
  OBVIOUS
<1>24. p \in {1, 2, 3, 4, 5, 6, 7, 8, 9, 10, 11, 12, 13, 14, 15, 16, 17, 18, 19, 20, 21, 22, 23}
  OBVIOUS
<1> QED

    BY <1>1, <1>2, <1>3, <1>4, <1>5, <1>6, <1>7, <1>8, <1>9, <1>10, <1>11, <1>12, <1>13, <1>14, <1>15, <1>16,
     <1>17, <1>18, <1>19, <1>20, <1>21, <1>22, <1>23, <1>24

LEMMA AnonSplitFlows == \A p \in 1 .. 26 : Flow(AnonSplit[p], 2, p)
<1>1. Flow(AnonSplit[1], 2, 1)
  <2>1. AnonSplit[1] = Ph("reserve") BY DEF AnonSplit
  <2>2. Calm(2, 1) BY AnonQuiet
  <2>3. "reserve" \notin Labels BY DEF Labels
  <2> QED BY QuietPhase, <2>1, <2>2, <2>3
<1>2. Flow(AnonSplit[2], 2, 2)
  <2>1. AnonSplit[2] = Do("mmap", A(1 .. 8), {}, Return({})) BY DEF AnonSplit
  <2>2. Named(2, 2, "mmap") BY DEF Named, Labels, LabelAt
  <2>3. A(1 .. 8) \subseteq Things BY Parts DEF Things
  <2>4. Leads(2, 2, 2 + 1, {}, A(1 .. 8))
    <3>1. A(1 .. 8) = Whole
      BY Parts DEF Whole
    <3>2. \A r : AnonHolds(2, r) <=> FALSE
      BY DEF AnonHolds
    <3>3. \A r : AnonHolds(2 + 1, r) <=> r \in Whole
      BY DEF AnonHolds
    <3> QED BY <3>1, <3>2, <3>3, AnonLeads, WholeParts
  <2>5. Fails(2, 2, 39, {}, "mmap")
    <3>1. \A r : AnonHolds(2, r) <=> FALSE
      BY DEF AnonHolds
    <3>2. \A r : AnonHolds(39, r) <=> FALSE
      BY DEF AnonHolds
    <3> QED BY <3>1, <3>2, AnonFails, WholeParts
  <2>6. Sizes[2] + 1 = 39 BY DEF Sizes
  <2>7. Flow(Do("mmap", A(1 .. 8), {}, Return({})), 2, 2)
    BY ReturnFlow, <2>2, <2>3, <2>4, <2>5, <2>6
  <2> QED BY <2>1, <2>7
<1>3. Flow(AnonSplit[3], 2, 3)
  <2>1. AnonSplit[3] = Ph("zero pages") BY DEF AnonSplit
  <2>2. Calm(2, 3) BY AnonQuiet
  <2>3. "zero pages" \notin Labels BY DEF Labels
  <2> QED BY QuietPhase, <2>1, <2>2, <2>3
<1>4. Flow(AnonSplit[4], 2, 4)
  <2>1. AnonSplit[4] = Access(A({1})) BY DEF AnonSplit
  <2>2. Calm(2, 4) BY AnonQuiet
  <2>3. Touches(2, 4, A({1}))
    <3>1. A({1}) = {"anon 1"}
      BY Parts
    <3>2. \A r : AnonHolds(4, r) <=> r \in Whole
      BY DEF AnonHolds
    <3>3. \A r \in A({1}) : r \in Things /\ (r \in Whole)
      BY <3>1, WholeParts
    <3> QED BY <3>1, <3>2, <3>3, AnonTouches
  <2> QED BY QuietAccess, <2>1, <2>2, <2>3
<1>5. Flow(AnonSplit[5], 2, 5)
  <2>1. AnonSplit[5] = Ph("private pages") BY DEF AnonSplit
  <2>2. Calm(2, 5) BY AnonQuiet
  <2>3. "private pages" \notin Labels BY DEF Labels
  <2> QED BY QuietPhase, <2>1, <2>2, <2>3
<1>6. Flow(AnonSplit[6], 2, 6)
  <2>1. AnonSplit[6] = Access(A(1 .. 8)) BY DEF AnonSplit
  <2>2. Calm(2, 6) BY AnonQuiet
  <2>3. Touches(2, 6, A(1 .. 8))
    <3>1. A(1 .. 8) = Whole
      BY Parts DEF Whole
    <3>2. \A r : AnonHolds(6, r) <=> r \in Whole
      BY DEF AnonHolds
    <3>3. \A r \in A(1 .. 8) : r \in Things /\ (r \in Whole)
      BY <3>1, WholeParts
    <3> QED BY <3>1, <3>2, <3>3, AnonTouches
  <2> QED BY QuietAccess, <2>1, <2>2, <2>3
<1>7. Flow(AnonSplit[7], 2, 7)
  <2>1. AnonSplit[7] = Ph("fork COW") BY DEF AnonSplit
  <2>2. Calm(2, 7) BY AnonQuiet
  <2>3. "fork COW" \notin Labels BY DEF Labels
  <2> QED BY QuietPhase, <2>1, <2>2, <2>3
<1>8. Flow(AnonSplit[8], 2, 8)
  <2>1. AnonSplit[8] = Access(A({1, 2})) BY DEF AnonSplit
  <2>2. Calm(2, 8) BY AnonQuiet
  <2>3. Touches(2, 8, A({1, 2}))
    <3>1. A({1, 2}) = {"anon 1", "anon 2"}
      BY Parts
    <3>2. \A r : AnonHolds(8, r) <=> r \in Whole
      BY DEF AnonHolds
    <3>3. \A r \in A({1, 2}) : r \in Things /\ (r \in Whole)
      BY <3>1, WholeParts
    <3> QED BY <3>1, <3>2, <3>3, AnonTouches
  <2> QED BY QuietAccess, <2>1, <2>2, <2>3
<1>9. Flow(AnonSplit[9], 2, 9)
  <2>1. AnonSplit[9] = Do("fork, compare", {}, {}, Note) BY DEF AnonSplit
  <2>2. Calm(2, 9) BY AnonQuiet
  <2>3. "fork, compare" \notin Labels BY DEF Labels
  <2> QED BY QuietNote, <2>1, <2>2, <2>3
<1>10. Flow(AnonSplit[10], 2, 10)
  <2>1. AnonSplit[10] = Ph("read-only middle") BY DEF AnonSplit
  <2>2. Calm(2, 10) BY AnonQuiet
  <2>3. "read-only middle" \notin Labels BY DEF Labels
  <2> QED BY QuietPhase, <2>1, <2>2, <2>3
<1>11. Flow(AnonSplit[11], 2, 11)
  <2>1. AnonSplit[11] = Do("mprotect", {}, {}, NoteAnd("hole")) BY DEF AnonSplit
  <2>2. Calm(2, 11) BY AnonQuiet
  <2>3. "mprotect" \notin Labels BY DEF Labels
  <2>4. Jump(2, 11, "hole", 17) BY DEF Jump, Labels, LabelAt
  <2>5. Fails(2, 11, 17, {}, "mprotect")
    <3>1. \A r : AnonHolds(11, r) <=> r \in Whole
      BY DEF AnonHolds
    <3>2. \A r : AnonHolds(17, r) <=> r \in Whole
      BY DEF AnonHolds
    <3> QED BY <3>1, <3>2, AnonFails, WholeParts
  <2> QED BY QuietNoteAnd, <2>1, <2>2, <2>3, <2>4, <2>5
<1>12. Flow(AnonSplit[12], 2, 12)
  <2>1. AnonSplit[12] = Ph("protection fault") BY DEF AnonSplit
  <2>2. Calm(2, 12) BY AnonQuiet
  <2>3. "protection fault" \notin Labels BY DEF Labels
  <2> QED BY QuietPhase, <2>1, <2>2, <2>3
<1>13. Flow(AnonSplit[13], 2, 13)
  <2>1. AnonSplit[13] = Access(A({3})) BY DEF AnonSplit
  <2>2. Calm(2, 13) BY AnonQuiet
  <2>3. Touches(2, 13, A({3}))
    <3>1. A({3}) = {"anon 3"}
      BY Parts
    <3>2. \A r : AnonHolds(13, r) <=> r \in Whole
      BY DEF AnonHolds
    <3>3. \A r \in A({3}) : r \in Things /\ (r \in Whole)
      BY <3>1, WholeParts
    <3> QED BY <3>1, <3>2, <3>3, AnonTouches
  <2> QED BY QuietAccess, <2>1, <2>2, <2>3
<1>14. Flow(AnonSplit[14], 2, 14)
  <2>1. AnonSplit[14] = Do("fork, SIGSEGV", {}, {}, Note) BY DEF AnonSplit
  <2>2. Calm(2, 14) BY AnonQuiet
  <2>3. "fork, SIGSEGV" \notin Labels BY DEF Labels
  <2> QED BY QuietNote, <2>1, <2>2, <2>3
<1>15. Flow(AnonSplit[15], 2, 15)
  <2>1. AnonSplit[15] = Ph("writable again") BY DEF AnonSplit
  <2>2. Calm(2, 15) BY AnonQuiet
  <2>3. "writable again" \notin Labels BY DEF Labels
  <2> QED BY QuietPhase, <2>1, <2>2, <2>3
<1>16. Flow(AnonSplit[16], 2, 16)
  <2>1. AnonSplit[16] = Do("mprotect", {}, {}, Note) BY DEF AnonSplit
  <2>2. Calm(2, 16) BY AnonQuiet
  <2>3. "mprotect" \notin Labels BY DEF Labels
  <2> QED BY QuietNote, <2>1, <2>2, <2>3
<1>17. Flow(AnonSplit[17], 2, 17)
  <2>1. AnonSplit[17] = Ph("hole") BY DEF AnonSplit
  <2>2. Named(2, 17, "hole") BY DEF Named, Labels, LabelAt
  <2>3. Leads(2, 17, 17 + 1, {}, {})
    <3>1. \A r : AnonHolds(17, r) <=> r \in Whole
      BY DEF AnonHolds
    <3>2. \A r : AnonHolds(17 + 1, r) <=> r \in Whole
      BY DEF AnonHolds
    <3> QED BY <3>1, <3>2, AnonLeads, WholeParts
  <2>4. Flow(Ph("hole"), 2, 17) BY PhaseFlow, <2>2, <2>3
  <2> QED BY <2>1, <2>4
<1>18. Flow(AnonSplit[18], 2, 18)
  <2>1. AnonSplit[18] = Do("munmap hole", {}, A({5}), Note) BY DEF AnonSplit
  <2>2. Named(2, 18, "munmap hole") BY DEF Named, Labels, LabelAt
  <2>3. {} \subseteq Things OBVIOUS
  <2>4. Leads(2, 18, 18 + 1, A({5}), {})
    <3>1. A({5}) = {"anon 5"}
      BY Parts
    <3>2. \A r : AnonHolds(18, r) <=> r \in Whole
      BY DEF AnonHolds
    <3>3. \A r : AnonHolds(18 + 1, r) <=> r \in Whole /\ r # "anon 5"
      BY DEF AnonHolds
    <3> QED BY <3>1, <3>2, <3>3, AnonLeads, WholeParts
  <2>5. Fails(2, 18, 18 + 1, {}, "munmap hole")
    <3>1. \A r : AnonHolds(18, r) <=> r \in Whole
      BY DEF AnonHolds
    <3>2. \A r : AnonHolds(18 + 1, r) <=> r \in Whole /\ r # "anon 5"
      BY DEF AnonHolds
    <3> QED BY <3>1, <3>2, AnonFails, WholeParts DEF Excused
  <2>6. Flow(Do("munmap hole", {}, A({5}), Note), 2, 18) BY NoteFlow, <2>2, <2>3, <2>4, <2>5
  <2> QED BY <2>1, <2>6
<1>19. Flow(AnonSplit[19], 2, 19)
  <2>1. AnonSplit[19] = Ph("grow") BY DEF AnonSplit
  <2>2. Calm(2, 19) BY AnonQuiet
  <2>3. "grow" \notin Labels BY DEF Labels
  <2> QED BY QuietPhase, <2>1, <2>2, <2>3
<1>20. Flow(AnonSplit[20], 2, 20)
  <2>1. AnonSplit[20] = Do("mremap grow", A({9}), A({8}), NoteAnd("discard")) BY DEF AnonSplit
  <2>2. Named(2, 20, "mremap grow") BY DEF Named, Labels, LabelAt
  <2>3. A({9}) \subseteq Things BY Parts DEF Things
  <2>4. Leads(2, 20, 20 + 1, A({8}), A({9}))
    <3>1. A({8}) = {"anon 8"}
      BY Parts
    <3>2. A({9}) = {"tail"}
      BY Parts
    <3>3. \A r : AnonHolds(20, r) <=> r \in Whole /\ r # "anon 5"
      BY DEF AnonHolds
    <3>4. \A r : AnonHolds(20 + 1, r) <=> r = "tail" \/ (r \in Whole /\ r # "anon 5" /\ r # "anon 8")
      BY DEF AnonHolds
    <3> QED BY <3>1, <3>2, <3>3, <3>4, AnonLeads, WholeParts
  <2>5. Jump(2, 20, "discard", 27) BY DEF Jump, Labels, LabelAt
  <2>6. Fails(2, 20, 27, {}, "mremap grow")
    <3>1. \A r : AnonHolds(20, r) <=> r \in Whole /\ r # "anon 5"
      BY DEF AnonHolds
    <3>2. \A r : AnonHolds(27, r) <=> r \in Whole /\ r # "anon 5" /\ r # "anon 8"
      BY DEF AnonHolds
    <3> QED BY <3>1, <3>2, AnonFails, WholeParts DEF Excused
  <2>7. Flow(Do("mremap grow", A({9}), A({8}), NoteAnd("discard")), 2, 20)
    BY NoteAndFlow, <2>2, <2>3, <2>4, <2>5, <2>6
  <2> QED BY <2>1, <2>7
<1>21. Flow(AnonSplit[21], 2, 21)
  <2>1. AnonSplit[21] = Ph("populate tail") BY DEF AnonSplit
  <2>2. Calm(2, 21) BY AnonQuiet
  <2>3. "populate tail" \notin Labels BY DEF Labels
  <2> QED BY QuietPhase, <2>1, <2>2, <2>3
<1>22. Flow(AnonSplit[22], 2, 22)
  <2>1. AnonSplit[22] = Access(A({9})) BY DEF AnonSplit
  <2>2. Calm(2, 22) BY AnonQuiet
  <2>3. Touches(2, 22, A({9}))
    <3>1. A({9}) = {"tail"}
      BY Parts
    <3>2. \A r : AnonHolds(22, r) <=> r = "tail" \/ (r \in Whole /\ r # "anon 5" /\ r # "anon 8")
      BY DEF AnonHolds
    <3>3. \A r \in A({9}) : r \in Things /\ (r = "tail" \/ (r \in Whole /\ r # "anon 5" /\ r # "anon 8"))
      BY <3>1, WholeParts
    <3> QED BY <3>1, <3>2, <3>3, AnonTouches
  <2> QED BY QuietAccess, <2>1, <2>2, <2>3
<1>23. Flow(AnonSplit[23], 2, 23)
  <2>1. AnonSplit[23] = Ph("shrink") BY DEF AnonSplit
  <2>2. Calm(2, 23) BY AnonQuiet
  <2>3. "shrink" \notin Labels BY DEF Labels
  <2> QED BY QuietPhase, <2>1, <2>2, <2>3
<1>24. Flow(AnonSplit[24], 2, 24)
  <2>1. AnonSplit[24] = Do("mremap shrink", {}, {}, [NoteAnd("discard") EXCEPT !.release = A({9})])
    BY DEF AnonSplit
  <2>2. "mremap shrink" \notin Labels BY DEF Labels
  <2>3. Named(2, 24, "mremap shrink") BY DEF Named, Labels, LabelAt
  <2>4. {} \subseteq Things OBVIOUS
  <2>5. Leads(2, 24, 24 + 1, {}, {})
    <3>1. \A r : AnonHolds(24, r) <=> r = "tail" \/ (r \in Whole /\ r # "anon 5" /\ r # "anon 8")
      BY DEF AnonHolds
    <3>2. \A r : AnonHolds(24 + 1, r) <=> r = "tail" \/ (r \in Whole /\ r # "anon 5" /\ r # "anon 8")
      BY DEF AnonHolds
    <3> QED BY <3>1, <3>2, AnonLeads, WholeParts
  <2>6. Jump(2, 24, "discard", 27) BY DEF Jump, Labels, LabelAt
  <2>7. Fails(2, 24, 27, A({9}), "mremap shrink")
    <3>1. A({9}) = {"tail"}
      BY Parts
    <3>2. \A r : AnonHolds(24, r) <=> r = "tail" \/ (r \in Whole /\ r # "anon 5" /\ r # "anon 8")
      BY DEF AnonHolds
    <3>3. \A r : AnonHolds(27, r) <=> r \in Whole /\ r # "anon 5" /\ r # "anon 8"
      BY DEF AnonHolds
    <3> QED BY <3>1, <3>2, <3>3, AnonFails, WholeParts
  <2>8. /\ [NoteAnd("discard") EXCEPT !.release = A({9})].note = TRUE /\ [NoteAnd("discard") EXCEPT !.release = A({9})].to = "discard"
       /\ [NoteAnd("discard") EXCEPT !.release = A({9})].release = A({9}) BY Answers
  <2>9. Flow(Do("mremap shrink", {}, {}, [NoteAnd("discard") EXCEPT !.release = A({9})]), 2, 24)
    BY CallFlow, <2>2, <2>3, <2>4, <2>5, <2>6, <2>7, <2>8
  <2> QED BY <2>1, <2>9
<1>25. Flow(AnonSplit[25], 2, 25)
  <2>1. AnonSplit[25] = Ph("unmap tail") BY DEF AnonSplit
  <2>2. Calm(2, 25) BY AnonQuiet
  <2>3. "unmap tail" \notin Labels BY DEF Labels
  <2> QED BY QuietPhase, <2>1, <2>2, <2>3
<1>26. Flow(AnonSplit[26], 2, 26)
  <2>1. AnonSplit[26] = Sure("munmap", A({9})) BY DEF AnonSplit
  <2>2. Named(2, 26, "munmap") BY DEF Named, Labels, LabelAt
  <2>3. Leads(2, 26, 26 + 1, A({9}), {})
    <3>1. A({9}) = {"tail"}
      BY Parts
    <3>2. \A r : AnonHolds(26, r) <=> r = "tail" \/ (r \in Whole /\ r # "anon 5" /\ r # "anon 8")
      BY DEF AnonHolds
    <3>3. \A r : AnonHolds(26 + 1, r) <=> r \in Whole /\ r # "anon 5" /\ r # "anon 8"
      BY DEF AnonHolds
    <3> QED BY <3>1, <3>2, <3>3, AnonLeads, WholeParts
  <2>4. Flow(Sure("munmap", A({9})), 2, 26) BY SureFlow, <2>2, <2>3
  <2> QED BY <2>1, <2>4
<1> SUFFICES ASSUME NEW p \in 1 .. 26 PROVE Flow(AnonSplit[p], 2, p)
  OBVIOUS
<1>27. p \in {1, 2, 3, 4, 5, 6, 7, 8, 9, 10, 11, 12, 13, 14, 15, 16, 17, 18, 19, 20, 21, 22, 23, 24, 25, 26}
  OBVIOUS
<1> QED

    BY <1>1, <1>2, <1>3, <1>4, <1>5, <1>6, <1>7, <1>8, <1>9, <1>10, <1>11, <1>12, <1>13, <1>14, <1>15, <1>16,
     <1>17, <1>18, <1>19, <1>20, <1>21, <1>22, <1>23, <1>24, <1>25, <1>26, <1>27

LEMMA AnonDiscardFlows == \A p \in 1 .. 12 : Flow(AnonDiscard[p], 2, p + 26)
<1>1. Flow(AnonDiscard[1], 2, 27)
  <2>1. AnonDiscard[1] = Ph("discard") BY DEF AnonDiscard
  <2>2. Named(2, 27, "discard") BY DEF Named, Labels, LabelAt
  <2>3. Leads(2, 27, 27 + 1, {}, {})
    <3>1. \A r : AnonHolds(27, r) <=> r \in Whole /\ r # "anon 5" /\ r # "anon 8"
      BY DEF AnonHolds
    <3>2. \A r : AnonHolds(27 + 1, r) <=> r \in Whole /\ r # "anon 5" /\ r # "anon 8"
      BY DEF AnonHolds
    <3> QED BY <3>1, <3>2, AnonLeads, WholeParts
  <2>4. Flow(Ph("discard"), 2, 27) BY PhaseFlow, <2>2, <2>3
  <2> QED BY <2>1, <2>4
<1>2. Flow(AnonDiscard[2], 2, 28)
  <2>1. AnonDiscard[2] = Do("madvise", {}, {}, Note) BY DEF AnonDiscard
  <2>2. Calm(2, 28) BY AnonQuiet
  <2>3. "madvise" \notin Labels BY DEF Labels
  <2> QED BY QuietNote, <2>1, <2>2, <2>3
<1>3. Flow(AnonDiscard[3], 2, 29)
  <2>1. AnonDiscard[3] = Ph("refault zeroed") BY DEF AnonDiscard
  <2>2. Calm(2, 29) BY AnonQuiet
  <2>3. "refault zeroed" \notin Labels BY DEF Labels
  <2> QED BY QuietPhase, <2>1, <2>2, <2>3
<1>4. Flow(AnonDiscard[4], 2, 30)
  <2>1. AnonDiscard[4] = Access(A({2})) BY DEF AnonDiscard
  <2>2. Calm(2, 30) BY AnonQuiet
  <2>3. Touches(2, 30, A({2}))
    <3>1. A({2}) = {"anon 2"}
      BY Parts
    <3>2. \A r : AnonHolds(30, r) <=> r \in Whole /\ r # "anon 5" /\ r # "anon 8"
      BY DEF AnonHolds
    <3>3. \A r \in A({2}) : r \in Things /\ (r \in Whole /\ r # "anon 5" /\ r # "anon 8")
      BY <3>1, WholeParts
    <3> QED BY <3>1, <3>2, <3>3, AnonTouches
  <2> QED BY QuietAccess, <2>1, <2>2, <2>3
<1>5. Flow(AnonDiscard[5], 2, 31)
  <2>1. AnonDiscard[5] = Ph("pageout") BY DEF AnonDiscard
  <2>2. Calm(2, 31) BY AnonQuiet
  <2>3. "pageout" \notin Labels BY DEF Labels
  <2> QED BY QuietPhase, <2>1, <2>2, <2>3
<1>6. Flow(AnonDiscard[6], 2, 32)
  <2>1. AnonDiscard[6] = IfSwap("unmap") BY DEF AnonDiscard
  <2>2. Calm(2, 32) BY AnonQuiet
  <2>3. Jump(2, 32, "unmap", 36) BY DEF Jump, Labels, LabelAt
  <2>4. Leads(2, 32, 36, {}, {})
    <3>1. \A r : AnonHolds(32, r) <=> r \in Whole /\ r # "anon 5" /\ r # "anon 8"
      BY DEF AnonHolds
    <3>2. \A r : AnonHolds(36, r) <=> r \in Whole /\ r # "anon 5" /\ r # "anon 8"
      BY DEF AnonHolds
    <3> QED BY <3>1, <3>2, AnonLeads, WholeParts
  <2> QED BY QuietSwap, <2>1, <2>2, <2>3, <2>4
<1>7. Flow(AnonDiscard[7], 2, 33)
  <2>1. AnonDiscard[7] = Do("madvise", {}, {}, NoteAnd("unmap")) BY DEF AnonDiscard
  <2>2. Calm(2, 33) BY AnonQuiet
  <2>3. "madvise" \notin Labels BY DEF Labels
  <2>4. Jump(2, 33, "unmap", 36) BY DEF Jump, Labels, LabelAt
  <2>5. Fails(2, 33, 36, {}, "madvise")
    <3>1. \A r : AnonHolds(33, r) <=> r \in Whole /\ r # "anon 5" /\ r # "anon 8"
      BY DEF AnonHolds
    <3>2. \A r : AnonHolds(36, r) <=> r \in Whole /\ r # "anon 5" /\ r # "anon 8"
      BY DEF AnonHolds
    <3> QED BY <3>1, <3>2, AnonFails, WholeParts
  <2> QED BY QuietNoteAnd, <2>1, <2>2, <2>3, <2>4, <2>5
<1>8. Flow(AnonDiscard[8], 2, 34)
  <2>1. AnonDiscard[8] = Ph("refault") BY DEF AnonDiscard
  <2>2. Calm(2, 34) BY AnonQuiet
  <2>3. "refault" \notin Labels BY DEF Labels
  <2> QED BY QuietPhase, <2>1, <2>2, <2>3
<1>9. Flow(AnonDiscard[9], 2, 35)
  <2>1. AnonDiscard[9] = Access(A({3})) BY DEF AnonDiscard
  <2>2. Calm(2, 35) BY AnonQuiet
  <2>3. Touches(2, 35, A({3}))
    <3>1. A({3}) = {"anon 3"}
      BY Parts
    <3>2. \A r : AnonHolds(35, r) <=> r \in Whole /\ r # "anon 5" /\ r # "anon 8"
      BY DEF AnonHolds
    <3>3. \A r \in A({3}) : r \in Things /\ (r \in Whole /\ r # "anon 5" /\ r # "anon 8")
      BY <3>1, WholeParts
    <3> QED BY <3>1, <3>2, <3>3, AnonTouches
  <2> QED BY QuietAccess, <2>1, <2>2, <2>3
<1>10. Flow(AnonDiscard[10], 2, 36)
  <2>1. AnonDiscard[10] = Ph("unmap") BY DEF AnonDiscard
  <2>2. Named(2, 36, "unmap") BY DEF Named, Labels, LabelAt
  <2>3. Leads(2, 36, 36 + 1, {}, {})
    <3>1. \A r : AnonHolds(36, r) <=> r \in Whole /\ r # "anon 5" /\ r # "anon 8"
      BY DEF AnonHolds
    <3>2. \A r : AnonHolds(36 + 1, r) <=> r \in Whole /\ r # "anon 5" /\ r # "anon 8"
      BY DEF AnonHolds
    <3> QED BY <3>1, <3>2, AnonLeads, WholeParts
  <2>4. Flow(Ph("unmap"), 2, 36) BY PhaseFlow, <2>2, <2>3
  <2> QED BY <2>1, <2>4
<1>11. Flow(AnonDiscard[11], 2, 37)
  <2>1. AnonDiscard[11] = Sure("munmap", A(1 .. 4)) BY DEF AnonDiscard
  <2>2. Named(2, 37, "munmap") BY DEF Named, Labels, LabelAt
  <2>3. Leads(2, 37, 37 + 1, A(1 .. 4), {})
    <3>1. A(1 .. 4) = {"anon 1", "anon 2", "anon 3", "anon 4"}
      BY Parts
    <3>2. \A r : AnonHolds(37, r) <=> r \in Whole /\ r # "anon 5" /\ r # "anon 8"
      BY DEF AnonHolds
    <3>3. \A r : AnonHolds(37 + 1, r) <=> r \in {"anon 6", "anon 7"}
      BY DEF AnonHolds
    <3> QED BY <3>1, <3>2, <3>3, AnonLeads, WholeParts
  <2>4. Flow(Sure("munmap", A(1 .. 4)), 2, 37) BY SureFlow, <2>2, <2>3
  <2> QED BY <2>1, <2>4
<1>12. Flow(AnonDiscard[12], 2, 38)
  <2>1. AnonDiscard[12] = Sure("munmap", A({6, 7})) BY DEF AnonDiscard
  <2>2. Named(2, 38, "munmap") BY DEF Named, Labels, LabelAt
  <2>3. Leads(2, 38, 38 + 1, A({6, 7}), {})
    <3>1. A({6, 7}) = {"anon 6", "anon 7"}
      BY Parts
    <3>2. \A r : AnonHolds(38, r) <=> r \in {"anon 6", "anon 7"}
      BY DEF AnonHolds
    <3>3. \A r : AnonHolds(38 + 1, r) <=> FALSE
      BY DEF AnonHolds
    <3> QED BY <3>1, <3>2, <3>3, AnonLeads, WholeParts
  <2>4. Flow(Sure("munmap", A({6, 7})), 2, 38) BY SureFlow, <2>2, <2>3
  <2> QED BY <2>1, <2>4
<1> SUFFICES ASSUME NEW p \in 1 .. 12 PROVE Flow(AnonDiscard[p], 2, p + 26)
  OBVIOUS
<1>13. p \in {1, 2, 3, 4, 5, 6, 7, 8, 9, 10, 11, 12} OBVIOUS
<1> QED
  BY <1>1, <1>2, <1>3, <1>4, <1>5, <1>6, <1>7, <1>8, <1>9, <1>10, <1>11, <1>12, <1>13

LEMMA ShmemFlows == \A p \in 1 .. 14 : Flow(exercise_shared_anonymous_memory[p], 3, p)
<1>1. Flow(exercise_shared_anonymous_memory[1], 3, 1)
  <2>1. exercise_shared_anonymous_memory[1] = Ph("shmem") BY DEF exercise_shared_anonymous_memory
  <2>2. Calm(3, 1) BY ShmemQuiet
  <2>3. "shmem" \notin Labels BY DEF Labels
  <2> QED BY QuietPhase, <2>1, <2>2, <2>3
<1>2. Flow(exercise_shared_anonymous_memory[2], 3, 2)
  <2>1. exercise_shared_anonymous_memory[2] = Do("mmap", {"shared"}, {}, Return({}))
    BY DEF exercise_shared_anonymous_memory
  <2>2. Named(3, 2, "mmap") BY DEF Named, Labels, LabelAt
  <2>3. {"shared"} \subseteq Things BY DEF Things
  <2>4. Leads(3, 2, 2 + 1, {}, {"shared"}) BY DEF Leads, May, Must, Certain, ShmemHolds
  <2>5. Fails(3, 2, 15, {}, "mmap") BY DEF Fails, May, Must, Certain, Excused, ShmemHolds
  <2>6. Sizes[3] + 1 = 15 BY DEF Sizes
  <2>7. Flow(Do("mmap", {"shared"}, {}, Return({})), 3, 2)
    BY ReturnFlow, <2>2, <2>3, <2>4, <2>5, <2>6
  <2> QED BY <2>1, <2>7
<1>3. Flow(exercise_shared_anonymous_memory[3], 3, 3)
  <2>1. exercise_shared_anonymous_memory[3] = Ph("shared reads")
    BY DEF exercise_shared_anonymous_memory
  <2>2. Calm(3, 3) BY ShmemQuiet
  <2>3. "shared reads" \notin Labels BY DEF Labels
  <2> QED BY QuietPhase, <2>1, <2>2, <2>3
<1>4. Flow(exercise_shared_anonymous_memory[4], 3, 4)
  <2>1. exercise_shared_anonymous_memory[4] = Access({"shared"})
    BY DEF exercise_shared_anonymous_memory
  <2>2. Calm(3, 4) BY ShmemQuiet
  <2>3. Touches(3, 4, {"shared"}) BY DEF Touches, Things, Must, May, Certain, ShmemHolds
  <2> QED BY QuietAccess, <2>1, <2>2, <2>3
<1>5. Flow(exercise_shared_anonymous_memory[5], 3, 5)
  <2>1. exercise_shared_anonymous_memory[5] = Ph("child writes")
    BY DEF exercise_shared_anonymous_memory
  <2>2. Calm(3, 5) BY ShmemQuiet
  <2>3. "child writes" \notin Labels BY DEF Labels
  <2> QED BY QuietPhase, <2>1, <2>2, <2>3
<1>6. Flow(exercise_shared_anonymous_memory[6], 3, 6)
  <2>1. exercise_shared_anonymous_memory[6] = Access({"shared"})
    BY DEF exercise_shared_anonymous_memory
  <2>2. Calm(3, 6) BY ShmemQuiet
  <2>3. Touches(3, 6, {"shared"}) BY DEF Touches, Things, Must, May, Certain, ShmemHolds
  <2> QED BY QuietAccess, <2>1, <2>2, <2>3
<1>7. Flow(exercise_shared_anonymous_memory[7], 3, 7)
  <2>1. exercise_shared_anonymous_memory[7] = Do("fork, compare", {}, {}, Note)
    BY DEF exercise_shared_anonymous_memory
  <2>2. Calm(3, 7) BY ShmemQuiet
  <2>3. "fork, compare" \notin Labels BY DEF Labels
  <2> QED BY QuietNote, <2>1, <2>2, <2>3
<1>8. Flow(exercise_shared_anonymous_memory[8], 3, 8)
  <2>1. exercise_shared_anonymous_memory[8] = Ph("pageout") BY DEF exercise_shared_anonymous_memory
  <2>2. Calm(3, 8) BY ShmemQuiet
  <2>3. "pageout" \notin Labels BY DEF Labels
  <2> QED BY QuietPhase, <2>1, <2>2, <2>3
<1>9. Flow(exercise_shared_anonymous_memory[9], 3, 9)
  <2>1. exercise_shared_anonymous_memory[9] = IfSwap("unmap")
    BY DEF exercise_shared_anonymous_memory
  <2>2. Calm(3, 9) BY ShmemQuiet
  <2>3. Jump(3, 9, "unmap", 13) BY DEF Jump, Labels, LabelAt
  <2>4. Leads(3, 9, 13, {}, {}) BY DEF Leads, May, Must, Certain, ShmemHolds
  <2> QED BY QuietSwap, <2>1, <2>2, <2>3, <2>4
<1>10. Flow(exercise_shared_anonymous_memory[10], 3, 10)
  <2>1. exercise_shared_anonymous_memory[10] = Do("madvise", {}, {}, NoteAnd("unmap"))
    BY DEF exercise_shared_anonymous_memory
  <2>2. Calm(3, 10) BY ShmemQuiet
  <2>3. "madvise" \notin Labels BY DEF Labels
  <2>4. Jump(3, 10, "unmap", 13) BY DEF Jump, Labels, LabelAt
  <2>5. Fails(3, 10, 13, {}, "madvise") BY DEF Fails, May, Must, Certain, Excused, ShmemHolds
  <2> QED BY QuietNoteAnd, <2>1, <2>2, <2>3, <2>4, <2>5
<1>11. Flow(exercise_shared_anonymous_memory[11], 3, 11)
  <2>1. exercise_shared_anonymous_memory[11] = Ph("refault") BY DEF exercise_shared_anonymous_memory
  <2>2. Calm(3, 11) BY ShmemQuiet
  <2>3. "refault" \notin Labels BY DEF Labels
  <2> QED BY QuietPhase, <2>1, <2>2, <2>3
<1>12. Flow(exercise_shared_anonymous_memory[12], 3, 12)
  <2>1. exercise_shared_anonymous_memory[12] = Access({"shared"})
    BY DEF exercise_shared_anonymous_memory
  <2>2. Calm(3, 12) BY ShmemQuiet
  <2>3. Touches(3, 12, {"shared"}) BY DEF Touches, Things, Must, May, Certain, ShmemHolds
  <2> QED BY QuietAccess, <2>1, <2>2, <2>3
<1>13. Flow(exercise_shared_anonymous_memory[13], 3, 13)
  <2>1. exercise_shared_anonymous_memory[13] = Ph("unmap") BY DEF exercise_shared_anonymous_memory
  <2>2. Named(3, 13, "unmap") BY DEF Named, Labels, LabelAt
  <2>3. Leads(3, 13, 13 + 1, {}, {}) BY DEF Leads, May, Must, Certain, ShmemHolds
  <2>4. Flow(Ph("unmap"), 3, 13) BY PhaseFlow, <2>2, <2>3
  <2> QED BY <2>1, <2>4
<1>14. Flow(exercise_shared_anonymous_memory[14], 3, 14)
  <2>1. exercise_shared_anonymous_memory[14] = Sure("munmap", {"shared"})
    BY DEF exercise_shared_anonymous_memory
  <2>2. Named(3, 14, "munmap") BY DEF Named, Labels, LabelAt
  <2>3. Leads(3, 14, 14 + 1, {"shared"}, {}) BY DEF Leads, May, Must, Certain, ShmemHolds
  <2>4. Flow(Sure("munmap", {"shared"}), 3, 14) BY SureFlow, <2>2, <2>3
  <2> QED BY <2>1, <2>4
<1> SUFFICES ASSUME NEW p \in 1 .. 14 PROVE Flow(exercise_shared_anonymous_memory[p], 3, p)
  OBVIOUS
<1>15. p \in {1, 2, 3, 4, 5, 6, 7, 8, 9, 10, 11, 12, 13, 14} OBVIOUS
<1> QED
  BY <1>1, <1>2, <1>3, <1>4, <1>5, <1>6, <1>7, <1>8, <1>9, <1>10, <1>11, <1>12, <1>13, <1>14, <1>15

LEMMA ThpAnonymousFlows == \A p \in 1 .. 18 : Flow(ThpAnonymous[p], 4, p)
<1>1. Flow(ThpAnonymous[1], 4, 1)
  <2>1. ThpAnonymous[1] = Ph("aligned") BY DEF ThpAnonymous
  <2>2. Calm(4, 1) BY ThpQuiet
  <2>3. "aligned" \notin Labels BY DEF Labels
  <2> QED BY QuietPhase, <2>1, <2>2, <2>3
<1>2. Flow(ThpAnonymous[2], 4, 2)
  <2>1. ThpAnonymous[2] = Do("mmap", {"prefix", "thp", "suffix"}, {}, Return({}))
    BY DEF ThpAnonymous
  <2>2. Named(4, 2, "mmap") BY DEF Named, Labels, LabelAt
  <2>3. {"prefix", "thp", "suffix"} \subseteq Things BY DEF Things
  <2>4. Leads(4, 2, 2 + 1, {}, {"prefix", "thp", "suffix"})
    BY DEF Leads, May, Must, Certain, ThpHolds
  <2>5. Fails(4, 2, 33, {}, "mmap") BY DEF Fails, May, Must, Certain, Excused, ThpHolds
  <2>6. Sizes[4] + 1 = 33 BY DEF Sizes
  <2>7. Flow(Do("mmap", {"prefix", "thp", "suffix"}, {}, Return({})), 4, 2)
    BY ReturnFlow, <2>2, <2>3, <2>4, <2>5, <2>6
  <2> QED BY <2>1, <2>7
<1>3. Flow(ThpAnonymous[3], 4, 3)
  <2>1. ThpAnonymous[3] = Do("munmap prefix", {}, {"prefix"}, Return({"prefix", "thp", "suffix"}))
    BY DEF ThpAnonymous
  <2>2. Named(4, 3, "munmap prefix") BY DEF Named, Labels, LabelAt
  <2>3. {} \subseteq Things OBVIOUS
  <2>4. Leads(4, 3, 3 + 1, {"prefix"}, {}) BY DEF Leads, May, Must, Certain, ThpHolds
  <2>5. Fails(4, 3, 33, {"prefix", "thp", "suffix"}, "munmap prefix")
    BY DEF Fails, May, Must, Certain, Excused, ThpHolds
  <2>6. Sizes[4] + 1 = 33 BY DEF Sizes
  <2>7. Flow(Do("munmap prefix", {}, {"prefix"}, Return({"prefix", "thp", "suffix"})), 4, 3)
    BY ReturnFlow, <2>2, <2>3, <2>4, <2>5, <2>6
  <2> QED BY <2>1, <2>7
<1>4. Flow(ThpAnonymous[4], 4, 4)
  <2>1. ThpAnonymous[4] = Do("munmap suffix", {}, {"suffix"}, Return({"thp", "suffix"}))
    BY DEF ThpAnonymous
  <2>2. Named(4, 4, "munmap suffix") BY DEF Named, Labels, LabelAt
  <2>3. {} \subseteq Things OBVIOUS
  <2>4. Leads(4, 4, 4 + 1, {"suffix"}, {}) BY DEF Leads, May, Must, Certain, ThpHolds
  <2>5. Fails(4, 4, 33, {"thp", "suffix"}, "munmap suffix")
    BY DEF Fails, May, Must, Certain, Excused, ThpHolds
  <2>6. Sizes[4] + 1 = 33 BY DEF Sizes
  <2>7. Flow(Do("munmap suffix", {}, {"suffix"}, Return({"thp", "suffix"})), 4, 4)
    BY ReturnFlow, <2>2, <2>3, <2>4, <2>5, <2>6
  <2> QED BY <2>1, <2>7
<1>5. Flow(ThpAnonymous[5], 4, 5)
  <2>1. ThpAnonymous[5] = Ph("base pages") BY DEF ThpAnonymous
  <2>2. Calm(4, 5) BY ThpQuiet
  <2>3. "base pages" \notin Labels BY DEF Labels
  <2> QED BY QuietPhase, <2>1, <2>2, <2>3
<1>6. Flow(ThpAnonymous[6], 4, 6)
  <2>1. ThpAnonymous[6] = Do("madvise", {}, {}, Return({"thp"})) BY DEF ThpAnonymous
  <2>2. Calm(4, 6) BY ThpQuiet
  <2>3. "madvise" \notin Labels BY DEF Labels
  <2>4. Fails(4, 6, 33, {"thp"}, "madvise") BY DEF Fails, May, Must, Certain, Excused, ThpHolds
  <2>5. Sizes[4] + 1 = 33 BY DEF Sizes
  <2> QED BY QuietReturn, <2>1, <2>2, <2>3, <2>4, <2>5
<1>7. Flow(ThpAnonymous[7], 4, 7)
  <2>1. ThpAnonymous[7] = Ph("populate") BY DEF ThpAnonymous
  <2>2. Calm(4, 7) BY ThpQuiet
  <2>3. "populate" \notin Labels BY DEF Labels
  <2> QED BY QuietPhase, <2>1, <2>2, <2>3
<1>8. Flow(ThpAnonymous[8], 4, 8)
  <2>1. ThpAnonymous[8] = Access({"thp"}) BY DEF ThpAnonymous
  <2>2. Calm(4, 8) BY ThpQuiet
  <2>3. Touches(4, 8, {"thp"}) BY DEF Touches, Things, Must, May, Certain, ThpHolds
  <2> QED BY QuietAccess, <2>1, <2>2, <2>3
<1>9. Flow(ThpAnonymous[9], 4, 9)
  <2>1. ThpAnonymous[9] = Ph("collapse") BY DEF ThpAnonymous
  <2>2. Calm(4, 9) BY ThpQuiet
  <2>3. "collapse" \notin Labels BY DEF Labels
  <2> QED BY QuietPhase, <2>1, <2>2, <2>3
<1>10. Flow(ThpAnonymous[10], 4, 10)
  <2>1. ThpAnonymous[10] = Do("madvise", {}, {}, Return({"thp"})) BY DEF ThpAnonymous
  <2>2. Calm(4, 10) BY ThpQuiet
  <2>3. "madvise" \notin Labels BY DEF Labels
  <2>4. Fails(4, 10, 33, {"thp"}, "madvise") BY DEF Fails, May, Must, Certain, Excused, ThpHolds
  <2>5. Sizes[4] + 1 = 33 BY DEF Sizes
  <2> QED BY QuietReturn, <2>1, <2>2, <2>3, <2>4, <2>5
<1>11. Flow(ThpAnonymous[11], 4, 11)
  <2>1. ThpAnonymous[11] = Ph("split") BY DEF ThpAnonymous
  <2>2. Calm(4, 11) BY ThpQuiet
  <2>3. "split" \notin Labels BY DEF Labels
  <2> QED BY QuietPhase, <2>1, <2>2, <2>3
<1>12. Flow(ThpAnonymous[12], 4, 12)
  <2>1. ThpAnonymous[12] = Do("mprotect", {}, {}, Return({"thp"})) BY DEF ThpAnonymous
  <2>2. Calm(4, 12) BY ThpQuiet
  <2>3. "mprotect" \notin Labels BY DEF Labels
  <2>4. Fails(4, 12, 33, {"thp"}, "mprotect") BY DEF Fails, May, Must, Certain, Excused, ThpHolds
  <2>5. Sizes[4] + 1 = 33 BY DEF Sizes
  <2> QED BY QuietReturn, <2>1, <2>2, <2>3, <2>4, <2>5
<1>13. Flow(ThpAnonymous[13], 4, 13)
  <2>1. ThpAnonymous[13] = Ph("merge") BY DEF ThpAnonymous
  <2>2. Calm(4, 13) BY ThpQuiet
  <2>3. "merge" \notin Labels BY DEF Labels
  <2> QED BY QuietPhase, <2>1, <2>2, <2>3
<1>14. Flow(ThpAnonymous[14], 4, 14)
  <2>1. ThpAnonymous[14] = Do("mprotect", {}, {}, Return({"thp"})) BY DEF ThpAnonymous
  <2>2. Calm(4, 14) BY ThpQuiet
  <2>3. "mprotect" \notin Labels BY DEF Labels
  <2>4. Fails(4, 14, 33, {"thp"}, "mprotect") BY DEF Fails, May, Must, Certain, Excused, ThpHolds
  <2>5. Sizes[4] + 1 = 33 BY DEF Sizes
  <2> QED BY QuietReturn, <2>1, <2>2, <2>3, <2>4, <2>5
<1>15. Flow(ThpAnonymous[15], 4, 15)
  <2>1. ThpAnonymous[15] = Ph("collapse again") BY DEF ThpAnonymous
  <2>2. Calm(4, 15) BY ThpQuiet
  <2>3. "collapse again" \notin Labels BY DEF Labels
  <2> QED BY QuietPhase, <2>1, <2>2, <2>3
<1>16. Flow(ThpAnonymous[16], 4, 16)
  <2>1. ThpAnonymous[16] = Do("madvise", {}, {}, Return({"thp"})) BY DEF ThpAnonymous
  <2>2. Calm(4, 16) BY ThpQuiet
  <2>3. "madvise" \notin Labels BY DEF Labels
  <2>4. Fails(4, 16, 33, {"thp"}, "madvise") BY DEF Fails, May, Must, Certain, Excused, ThpHolds
  <2>5. Sizes[4] + 1 = 33 BY DEF Sizes
  <2> QED BY QuietReturn, <2>1, <2>2, <2>3, <2>4, <2>5
<1>17. Flow(ThpAnonymous[17], 4, 17)
  <2>1. ThpAnonymous[17] = Ph("unmap") BY DEF ThpAnonymous
  <2>2. Named(4, 17, "unmap") BY DEF Named, Labels, LabelAt
  <2>3. Leads(4, 17, 17 + 1, {}, {}) BY DEF Leads, May, Must, Certain, ThpHolds
  <2>4. Flow(Ph("unmap"), 4, 17) BY PhaseFlow, <2>2, <2>3
  <2> QED BY <2>1, <2>4
<1>18. Flow(ThpAnonymous[18], 4, 18)
  <2>1. ThpAnonymous[18] = Sure("munmap", {"thp"}) BY DEF ThpAnonymous
  <2>2. Named(4, 18, "munmap") BY DEF Named, Labels, LabelAt
  <2>3. Leads(4, 18, 18 + 1, {"thp"}, {}) BY DEF Leads, May, Must, Certain, ThpHolds
  <2>4. Flow(Sure("munmap", {"thp"}), 4, 18) BY SureFlow, <2>2, <2>3
  <2> QED BY <2>1, <2>4
<1> SUFFICES ASSUME NEW p \in 1 .. 18 PROVE Flow(ThpAnonymous[p], 4, p)
  OBVIOUS
<1>19. p \in {1, 2, 3, 4, 5, 6, 7, 8, 9, 10, 11, 12, 13, 14, 15, 16, 17, 18} OBVIOUS
<1> QED

    BY <1>1, <1>2, <1>3, <1>4, <1>5, <1>6, <1>7, <1>8, <1>9, <1>10, <1>11, <1>12, <1>13, <1>14, <1>15, <1>16,
     <1>17, <1>18, <1>19

LEMMA ThpFileFlows == \A p \in 1 .. 14 : Flow(ThpFile[p], 4, p + 18)
<1>1. Flow(ThpFile[1], 4, 19)
  <2>1. ThpFile[1] = Ph("prepare file") BY DEF ThpFile
  <2>2. Calm(4, 19) BY ThpQuiet
  <2>3. "prepare file" \notin Labels BY DEF Labels
  <2> QED BY QuietPhase, <2>1, <2>2, <2>3
<1>2. Flow(ThpFile[2], 4, 20)
  <2>1. ThpFile[2] = Do("mkstemp", {"fd", "path"}, {}, Return({})) BY DEF ThpFile
  <2>2. Named(4, 20, "mkstemp") BY DEF Named, Labels, LabelAt
  <2>3. {"fd", "path"} \subseteq Things BY DEF Things
  <2>4. Leads(4, 20, 20 + 1, {}, {"fd", "path"}) BY DEF Leads, May, Must, Certain, ThpHolds
  <2>5. Fails(4, 20, 33, {}, "mkstemp") BY DEF Fails, May, Must, Certain, Excused, ThpHolds
  <2>6. Sizes[4] + 1 = 33 BY DEF Sizes
  <2>7. Flow(Do("mkstemp", {"fd", "path"}, {}, Return({})), 4, 20)
    BY ReturnFlow, <2>2, <2>3, <2>4, <2>5, <2>6
  <2> QED BY <2>1, <2>7
<1>3. Flow(ThpFile[3], 4, 21)
  <2>1. ThpFile[3] = Do("ftruncate", {}, {}, Return({"fd", "path"})) BY DEF ThpFile
  <2>2. Calm(4, 21) BY ThpQuiet
  <2>3. "ftruncate" \notin Labels BY DEF Labels
  <2>4. Fails(4, 21, 33, {"fd", "path"}, "ftruncate")
    BY DEF Fails, May, Must, Certain, Excused, ThpHolds
  <2>5. Sizes[4] + 1 = 33 BY DEF Sizes
  <2> QED BY QuietReturn, <2>1, <2>2, <2>3, <2>4, <2>5
<1>4. Flow(ThpFile[4], 4, 22)
  <2>1. ThpFile[4] = Do("pwrite", {}, {}, Return({"fd", "path"})) BY DEF ThpFile
  <2>2. Calm(4, 22) BY ThpQuiet
  <2>3. "pwrite" \notin Labels BY DEF Labels
  <2>4. Fails(4, 22, 33, {"fd", "path"}, "pwrite")
    BY DEF Fails, May, Must, Certain, Excused, ThpHolds
  <2>5. Sizes[4] + 1 = 33 BY DEF Sizes
  <2> QED BY QuietReturn, <2>1, <2>2, <2>3, <2>4, <2>5
<1>5. Flow(ThpFile[5], 4, 23)
  <2>1. ThpFile[5] = Do("fsync, fadvise", {}, {}, Note) BY DEF ThpFile
  <2>2. Calm(4, 23) BY ThpQuiet
  <2>3. "fsync, fadvise" \notin Labels BY DEF Labels
  <2> QED BY QuietNote, <2>1, <2>2, <2>3
<1>6. Flow(ThpFile[6], 4, 24)
  <2>1. ThpFile[6] = Sure("unlink", {"path"}) BY DEF ThpFile
  <2>2. Named(4, 24, "unlink") BY DEF Named, Labels, LabelAt
  <2>3. Leads(4, 24, 24 + 1, {"path"}, {}) BY DEF Leads, May, Must, Certain, ThpHolds
  <2>4. Flow(Sure("unlink", {"path"}), 4, 24) BY SureFlow, <2>2, <2>3
  <2> QED BY <2>1, <2>4
<1>7. Flow(ThpFile[7], 4, 25)
  <2>1. ThpFile[7] = Ph("map file") BY DEF ThpFile
  <2>2. Calm(4, 25) BY ThpQuiet
  <2>3. "map file" \notin Labels BY DEF Labels
  <2> QED BY QuietPhase, <2>1, <2>2, <2>3
<1>8. Flow(ThpFile[8], 4, 26)
  <2>1. ThpFile[8] = Do("mmap", {"file_thp"}, {}, Return({"fd"})) BY DEF ThpFile
  <2>2. Named(4, 26, "mmap") BY DEF Named, Labels, LabelAt
  <2>3. {"file_thp"} \subseteq Things BY DEF Things
  <2>4. Leads(4, 26, 26 + 1, {}, {"file_thp"}) BY DEF Leads, May, Must, Certain, ThpHolds
  <2>5. Fails(4, 26, 33, {"fd"}, "mmap") BY DEF Fails, May, Must, Certain, Excused, ThpHolds
  <2>6. Sizes[4] + 1 = 33 BY DEF Sizes
  <2>7. Flow(Do("mmap", {"file_thp"}, {}, Return({"fd"})), 4, 26)
    BY ReturnFlow, <2>2, <2>3, <2>4, <2>5, <2>6
  <2> QED BY <2>1, <2>7
<1>9. Flow(ThpFile[9], 4, 27)
  <2>1. ThpFile[9] = Do("madvise", {}, {}, Note) BY DEF ThpFile
  <2>2. Calm(4, 27) BY ThpQuiet
  <2>3. "madvise" \notin Labels BY DEF Labels
  <2> QED BY QuietNote, <2>1, <2>2, <2>3
<1>10. Flow(ThpFile[10], 4, 28)
  <2>1. ThpFile[10] = Ph("huge faults") BY DEF ThpFile
  <2>2. Calm(4, 28) BY ThpQuiet
  <2>3. "huge faults" \notin Labels BY DEF Labels
  <2> QED BY QuietPhase, <2>1, <2>2, <2>3
<1>11. Flow(ThpFile[11], 4, 29)
  <2>1. ThpFile[11] = Access({"file_thp"}) BY DEF ThpFile
  <2>2. Calm(4, 29) BY ThpQuiet
  <2>3. Touches(4, 29, {"file_thp"}) BY DEF Touches, Things, Must, May, Certain, ThpHolds
  <2> QED BY QuietAccess, <2>1, <2>2, <2>3
<1>12. Flow(ThpFile[12], 4, 30)
  <2>1. ThpFile[12] = Ph("unmap file") BY DEF ThpFile
  <2>2. Calm(4, 30) BY ThpQuiet
  <2>3. "unmap file" \notin Labels BY DEF Labels
  <2> QED BY QuietPhase, <2>1, <2>2, <2>3
<1>13. Flow(ThpFile[13], 4, 31)
  <2>1. ThpFile[13] = Sure("munmap", {"file_thp"}) BY DEF ThpFile
  <2>2. Named(4, 31, "munmap") BY DEF Named, Labels, LabelAt
  <2>3. Leads(4, 31, 31 + 1, {"file_thp"}, {}) BY DEF Leads, May, Must, Certain, ThpHolds
  <2>4. Flow(Sure("munmap", {"file_thp"}), 4, 31) BY SureFlow, <2>2, <2>3
  <2> QED BY <2>1, <2>4
<1>14. Flow(ThpFile[14], 4, 32)
  <2>1. ThpFile[14] = Sure("close", {"fd"}) BY DEF ThpFile
  <2>2. Named(4, 32, "close") BY DEF Named, Labels, LabelAt
  <2>3. Leads(4, 32, 32 + 1, {"fd"}, {}) BY DEF Leads, May, Must, Certain, ThpHolds
  <2>4. Flow(Sure("close", {"fd"}), 4, 32) BY SureFlow, <2>2, <2>3
  <2> QED BY <2>1, <2>4
<1> SUFFICES ASSUME NEW p \in 1 .. 14 PROVE Flow(ThpFile[p], 4, p + 18)
  OBVIOUS
<1>15. p \in {1, 2, 3, 4, 5, 6, 7, 8, 9, 10, 11, 12, 13, 14} OBVIOUS
<1> QED
  BY <1>1, <1>2, <1>3, <1>4, <1>5, <1>6, <1>7, <1>8, <1>9, <1>10, <1>11, <1>12, <1>13, <1>14, <1>15

\* The instructions of an exercise, by their place.
LEMMA Joined ==
  ASSUME NEW s, NEW t, NEW n \in Nat, NEW m \in Nat, s = [p \in 1 .. n |-> s[p]], t = [p \in 1 .. m |-> t[p]]
  PROVE  /\ Len(s \o t) = n + m
         /\ \A p \in 1 .. n : (s \o t)[p] = s[p]
         /\ \A p \in 1 .. m : (s \o t)[p + n] = t[p]
<1> DEFINE S == {s[p] : p \in 1 .. n} \cup {t[p] : p \in 1 .. m}
<1>1. s \in Seq(S) /\ Len(s) = n
  <2>1. \A p \in 1 .. n : s[p] \in S OBVIOUS
  <2> HIDE DEF S
  <2>2. [p \in 1 .. n |-> s[p]] \in Seq(S) BY <2>1
  <2>3. DOMAIN s = 1 .. n OBVIOUS
  <2> QED BY <2>2, <2>3
<1>2. t \in Seq(S) /\ Len(t) = m
  <2>1. \A p \in 1 .. m : t[p] \in S OBVIOUS
  <2> HIDE DEF S
  <2>2. [p \in 1 .. m |-> t[p]] \in Seq(S) BY <2>1
  <2>3. DOMAIN t = 1 .. m OBVIOUS
  <2> QED BY <2>2, <2>3
<1> HIDE DEF S
<1>3. /\ Len(s \o t) = Len(s) + Len(t)
      /\ \A p \in 1 .. Len(s) + Len(t) : (s \o t)[p] = IF p <= Len(s) THEN s[p] ELSE t[p - Len(s)]
  BY <1>1, <1>2, ConcatProperties
<1>4. \A p \in 1 .. n : (s \o t)[p] = s[p]
  BY <1>1, <1>2, <1>3
<1>5. \A p \in 1 .. m : (s \o t)[p + n] = t[p]
  <2> SUFFICES ASSUME NEW p \in 1 .. m PROVE (s \o t)[p + n] = t[p]
    OBVIOUS
  <2>1. p + n \in 1 .. n + m /\ ~(p + n <= n) /\ (p + n) - n = p
    OBVIOUS
  <2> QED BY <2>1, <1>1, <1>2, <1>3
<1> QED BY <1>1, <1>2, <1>3, <1>4, <1>5

LEMMA FileFlows ==
  /\ Len(exercise_file_backed_memory) = 58
  /\ \A p \in 1 .. 58 : Flow(exercise_file_backed_memory[p], 1, p)
<1>1. FileShared = [p \in 1 .. 35 |-> FileShared[p]] BY DEF FileShared
<1>2. FilePrivate = [p \in 1 .. 23 |-> FilePrivate[p]] BY DEF FilePrivate
<1>3. /\ Len(exercise_file_backed_memory) = 35 + 23
      /\ \A p \in 1 .. 35 : exercise_file_backed_memory[p] = FileShared[p]
      /\ \A p \in 1 .. 23 : exercise_file_backed_memory[p + 35] = FilePrivate[p]
  BY <1>1, <1>2, Joined DEF exercise_file_backed_memory
<1>4. ASSUME NEW p \in 1 .. 58 PROVE Flow(exercise_file_backed_memory[p], 1, p)
  <2>1. CASE p \in 1 .. 35 BY <1>3, <2>1, FileSharedFlows
  <2>2. CASE p \notin 1 .. 35
    <3>1. PICK k \in 1 .. 23 : p = k + 35
      <4>1. p - 35 \in 1 .. 23 /\ p = (p - 35) + 35 BY <2>2
      <4> QED BY <4>1
    <3>2. exercise_file_backed_memory[p] = FilePrivate[k] /\ Flow(FilePrivate[k], 1, p)
      BY <1>3, <3>1, FilePrivateFlows
    <3> QED BY <3>2
  <2> QED BY <2>1, <2>2
<1> QED BY <1>3, <1>4

LEMMA AnonFlows ==
  /\ Len(exercise_private_anonymous_memory) = 38
  /\ \A p \in 1 .. 38 : Flow(exercise_private_anonymous_memory[p], 2, p)
<1>1. AnonSplit = [p \in 1 .. 26 |-> AnonSplit[p]] BY DEF AnonSplit
<1>2. AnonDiscard = [p \in 1 .. 12 |-> AnonDiscard[p]] BY DEF AnonDiscard
<1>3. /\ Len(exercise_private_anonymous_memory) = 26 + 12
      /\ \A p \in 1 .. 26 : exercise_private_anonymous_memory[p] = AnonSplit[p]
      /\ \A p \in 1 .. 12 : exercise_private_anonymous_memory[p + 26] = AnonDiscard[p]
  BY <1>1, <1>2, Joined DEF exercise_private_anonymous_memory
<1>4. ASSUME NEW p \in 1 .. 38 PROVE Flow(exercise_private_anonymous_memory[p], 2, p)
  <2>1. CASE p \in 1 .. 26 BY <1>3, <2>1, AnonSplitFlows
  <2>2. CASE p \notin 1 .. 26
    <3>1. PICK k \in 1 .. 12 : p = k + 26
      <4>1. p - 26 \in 1 .. 12 /\ p = (p - 26) + 26 BY <2>2
      <4> QED BY <4>1
    <3>2. exercise_private_anonymous_memory[p] = AnonDiscard[k] /\ Flow(AnonDiscard[k], 2, p)
      BY <1>3, <3>1, AnonDiscardFlows
    <3> QED BY <3>2
  <2> QED BY <2>1, <2>2
<1> QED BY <1>3, <1>4

LEMMA ThpFlows ==
  /\ Len(exercise_transparent_huge_pages) = 32
  /\ \A p \in 1 .. 32 : Flow(exercise_transparent_huge_pages[p], 4, p)
<1>1. ThpAnonymous = [p \in 1 .. 18 |-> ThpAnonymous[p]] BY DEF ThpAnonymous
<1>2. ThpFile = [p \in 1 .. 14 |-> ThpFile[p]] BY DEF ThpFile
<1>3. /\ Len(exercise_transparent_huge_pages) = 18 + 14
      /\ \A p \in 1 .. 18 : exercise_transparent_huge_pages[p] = ThpAnonymous[p]
      /\ \A p \in 1 .. 14 : exercise_transparent_huge_pages[p + 18] = ThpFile[p]
  BY <1>1, <1>2, Joined DEF exercise_transparent_huge_pages
<1>4. ASSUME NEW p \in 1 .. 32 PROVE Flow(exercise_transparent_huge_pages[p], 4, p)
  <2>1. CASE p \in 1 .. 18 BY <1>3, <2>1, ThpAnonymousFlows
  <2>2. CASE p \notin 1 .. 18
    <3>1. PICK k \in 1 .. 14 : p = k + 18
      <4>1. p - 18 \in 1 .. 14 /\ p = (p - 18) + 18 BY <2>2
      <4> QED BY <4>1
    <3>2. exercise_transparent_huge_pages[p] = ThpFile[k] /\ Flow(ThpFile[k], 4, p)
      BY <1>3, <3>1, ThpFileFlows
    <3> QED BY <3>2
  <2> QED BY <2>1, <2>2
<1> QED BY <1>3, <1>4

LEMMA EveryFlow ==
  /\ DOMAIN Exercises = 1 .. 4
  /\ \A ex \in 1 .. 4 : Len(Exercises[ex]) = Sizes[ex] /\ Sizes[ex] \in 1 .. 58
  /\ \A ex \in 1 .. 4 : \A p \in 1 .. Sizes[ex] : Flow(Exercises[ex][p], ex, p)
<1>1. /\ DOMAIN Exercises = 1 .. 4
      /\ Exercises[1] = exercise_file_backed_memory /\ Exercises[2] = exercise_private_anonymous_memory
      /\ Exercises[3] = exercise_shared_anonymous_memory /\ Exercises[4] = exercise_transparent_huge_pages
  BY DEF Exercises
<1>2. Sizes[1] = 58 /\ Sizes[2] = 38 /\ Sizes[3] = 14 /\ Sizes[4] = 32 BY DEF Sizes
<1>3. Len(exercise_shared_anonymous_memory) = 14 BY DEF exercise_shared_anonymous_memory
<1>4. ASSUME NEW ex \in 1 .. 4
      PROVE  /\ Len(Exercises[ex]) = Sizes[ex] /\ Sizes[ex] \in 1 .. 58
             /\ \A p \in 1 .. Sizes[ex] : Flow(Exercises[ex][p], ex, p)
  <2>1. CASE ex = 1 BY <2>1, <1>1, <1>2, FileFlows
  <2>2. CASE ex = 2 BY <2>2, <1>1, <1>2, AnonFlows
  <2>3. CASE ex = 3 BY <2>3, <1>1, <1>2, <1>3, ShmemFlows
  <2>4. CASE ex = 4 BY <2>4, <1>1, <1>2, ThpFlows
  <2> QED BY <2>1, <2>2, <2>3, <2>4
<1> QED BY <1>1, <1>4

\* Where the exercise goes on: the CHOOSE of GoOn has one place to find.
LEMMA OneLabel ==
  ASSUME NEW ex \in 1 .. 4, NEW to \in Labels, NEW j, LabelAt(ex, to, j)
  PROVE  /\ j \in 1 .. Sizes[ex] /\ Exercises[ex][j].name = to
         /\ \A n \in 1 .. Sizes[ex] : Exercises[ex][n].name = to => n = j
<1>1. j \in 1 .. Sizes[ex]
  <2>1. Sizes[1] = 58 /\ Sizes[2] = 38 /\ Sizes[3] = 14 /\ Sizes[4] = 32 BY DEF Sizes
  <2>2. ex \in {1, 2, 3, 4} OBVIOUS
  <2>3. CASE ex = 1
    <3>1. ex # 2 /\ ex # 3 /\ ex # 4 BY <2>3
    <3>2. j = 52 \/ j = 57 BY <3>1, Zenon DEF LabelAt
    <3> QED BY <2>1, <2>3, <3>2
  <2>4. CASE ex = 2
    <3>1. j = 17 \/ j = 27 \/ j = 36 BY <2>4 DEF LabelAt
    <3> QED BY <2>1, <2>4, <3>1
  <2>5. CASE ex = 3
    <3>1. j = 13 BY <2>5 DEF LabelAt
    <3> QED BY <2>1, <2>5, <3>1
  <2>6. CASE ex = 4
    <3>1. j = 17 BY <2>6 DEF LabelAt
    <3> QED BY <2>1, <2>6, <3>1
  <2> QED BY <2>2, <2>3, <2>4, <2>5, <2>6
<1>2. \A n \in 1 .. Sizes[ex] : Named(ex, n, Exercises[ex][n].name)
  BY EveryFlow DEF Flow
<1>3. Exercises[ex][j].name = to
  BY <1>1, <1>2 DEF Named
<1>4. ASSUME NEW n \in 1 .. Sizes[ex], Exercises[ex][n].name = to PROVE n = j
  <2>1. LabelAt(ex, to, n) BY <1>2, <1>4, Zenon DEF Named
  <2>2. CASE ex = 1 /\ to = "truncate" /\ j = 52 BY <2>1, <2>2 DEF LabelAt
  <2>3. CASE ex = 1 /\ to = "unmap views" /\ j = 57 BY <2>1, <2>3 DEF LabelAt
  <2>4. CASE ex = 2 /\ to = "hole" /\ j = 17 BY <2>1, <2>4 DEF LabelAt
  <2>5. CASE ex = 2 /\ to = "discard" /\ j = 27 BY <2>1, <2>5 DEF LabelAt
  <2>6. CASE ex = 2 /\ to = "unmap" /\ j = 36 BY <2>1, <2>6 DEF LabelAt
  <2>7. CASE ex = 3 /\ to = "unmap" /\ j = 13 BY <2>1, <2>7 DEF LabelAt
  <2>8. CASE ex = 4 /\ to = "unmap" /\ j = 17 BY <2>1, <2>8 DEF LabelAt
  <2> QED BY <2>2, <2>3, <2>4, <2>5, <2>6, <2>7, <2>8 DEF LabelAt
<1> QED BY <1>1, <1>3, <1>4

MmPlace ==
  /\ at \in [ex : 0 .. 5, i : 1 .. 58]
  /\ at.ex \in 1 .. 4 => at.i <= Sizes[at.ex]

LEMMA GoesTo ==
  ASSUME MmPlace, at.ex \in 1 .. 4, NEW to, NEW j, Jump(at.ex, at.i, to, j), GoOn(to)
  PROVE  /\ j \in 1 .. Sizes[at.ex] + 1
         /\ at' = IF j > Sizes[at.ex] THEN [ex |-> at.ex + 1, i |-> 1] ELSE [at EXCEPT !.i = j]
<1> DEFINE prog == Exercises[at.ex]
<1>1. Len(prog) = Sizes[at.ex] /\ Sizes[at.ex] \in 1 .. 58 BY EveryFlow
<1>2. at.i \in 1 .. Sizes[at.ex]
  <2>1. at.i \in 1 .. 58 /\ at.i <= Sizes[at.ex] BY DEF MmPlace
  <2>2. \A a, b : a \in 1 .. 58 /\ b \in 1 .. 58 /\ a <= b => a \in 1 .. b OBVIOUS
  <2> QED BY <1>1, <2>1, <2>2, Zenon
<1>3. CASE to = "next"
  <2>1. j = at.i + 1 BY <1>3 DEF Jump, Labels
  <2>2. at' = IF at.i + 1 > Len(prog) THEN [ex |-> at.ex + 1, i |-> 1] ELSE [at EXCEPT !.i = at.i + 1]
    BY <1>3 DEF GoOn
  <2> QED BY <1>1, <1>2, <2>1, <2>2
<1>4. CASE to = "return"
  <2>1. j = Sizes[at.ex] + 1 BY <1>4 DEF Jump, Labels
  <2>2. at' = IF Len(prog) + 1 > Len(prog) THEN [ex |-> at.ex + 1, i |-> 1] ELSE [at EXCEPT !.i = Len(prog) + 1]
    BY <1>4 DEF GoOn
  <2> QED BY <1>1, <2>1, <2>2
<1>5. CASE to # "next" /\ to # "return"
  <2>1. to \in Labels /\ at.i <= j /\ LabelAt(at.ex, to, j) BY <1>5 DEF Jump
  <2>2. /\ j \in 1 .. Sizes[at.ex] /\ prog[j].name = to
        /\ \A n \in 1 .. Sizes[at.ex] : prog[n].name = to => n = j
    BY <2>1, OneLabel
  <2> DEFINE k == CHOOSE n \in at.i .. Len(prog) : prog[n].name = to
  <2>3. at' = IF k > Len(prog) THEN [ex |-> at.ex + 1, i |-> 1] ELSE [at EXCEPT !.i = k]
    BY <1>5 DEF GoOn
  <2>4. \E n \in at.i .. Len(prog) : prog[n].name = to BY <1>1, <1>2, <2>1, <2>2
  <2>5. k \in at.i .. Len(prog) /\ prog[k].name = to BY <2>4
  <2> HIDE DEF k
  <2>6. k = j BY <1>1, <1>2, <2>2, <2>5
  <2> QED BY <1>1, <2>2, <2>3, <2>6
<1> QED BY <1>3, <1>4, <1>5

\* After the last instruction, and before the first, nothing is held.
LEMMA NothingAtTheEnds ==
  /\ \A ex \in 1 .. 4 : \A r : ~May(ex, Sizes[ex] + 1, r)
  /\ \A ex, r : ~May(ex, 1, r)
  /\ \A p, r : ~May(0, p, r) /\ ~May(5, p, r)
<1>1. Sizes[1] = 58 /\ Sizes[2] = 38 /\ Sizes[3] = 14 /\ Sizes[4] = 32 BY DEF Sizes
<1>2. \A r : ~FileHolds(59, r) /\ ~FileHolds(1, r) BY DEF FileHolds
<1>3. \A r : ~AnonHolds(39, r) /\ ~AnonHolds(1, r) BY DEF AnonHolds
<1>4. \A r : ~ShmemHolds(15, r) /\ ~ShmemHolds(1, r) BY DEF ShmemHolds
<1>5. \A r : ~ThpHolds(33, r) /\ ~ThpHolds(1, r) BY DEF ThpHolds
<1>6. ASSUME NEW ex \in 1 .. 4, NEW r PROVE ~May(ex, Sizes[ex] + 1, r)
  <2>1. CASE ex = 1 BY <2>1, <1>1, <1>2 DEF May
  <2>2. CASE ex = 2 BY <2>2, <1>1, <1>3 DEF May
  <2>3. CASE ex = 3 BY <2>3, <1>1, <1>4 DEF May
  <2>4. CASE ex = 4 BY <2>4, <1>1, <1>5 DEF May
  <2> QED BY <2>1, <2>2, <2>3, <2>4
<1>7. \A ex, r : ~May(ex, 1, r) BY <1>2, <1>3, <1>4, <1>5 DEF May
<1>8. \A p, r : ~May(0, p, r) /\ ~May(5, p, r) BY DEF May
<1> QED BY <1>6, <1>7, <1>8

\* What is held at the next instruction is what is held at j.
SameAs(ex, j) ==
  /\ \A r : May(at.ex, at.i, r) <=> May(ex, j, r)
  /\ \A r : May(at.ex, at.i, r) => (Certain(at.i, r) <=> Certain(j, r))

LEMMA Arrives ==
  ASSUME MmPlace, at.ex \in 1 .. 4, NEW to, NEW j, Jump(at.ex, at.i, to, j), GoOn(to),
         NEW ex, ex = at.ex
  PROVE  MmPlace' /\ SameAs(ex, j)'
<1>1. /\ j \in 1 .. Sizes[ex] + 1 /\ Sizes[ex] \in 1 .. 58
      /\ at' = IF j > Sizes[ex] THEN [ex |-> ex + 1, i |-> 1] ELSE [at EXCEPT !.i = j]
  BY GoesTo, EveryFlow
<1>2. CASE j > Sizes[ex]
  <2>1. j = Sizes[ex] + 1 /\ at'.ex = ex + 1 /\ at'.i = 1 /\ at' \in [ex : 0 .. 5, i : 1 .. 58]
    BY <1>1, <1>2
  <2>2. MmPlace'
    <3>1. at'.ex \in 1 .. 4 => Sizes[at'.ex] \in 1 .. 58 BY EveryFlow
    <3> QED BY <2>1, <3>1 DEF MmPlace
  <2>3. \A r : ~May(ex, j, r) BY <2>1, NothingAtTheEnds
  <2>4. \A r : ~May(at'.ex, at'.i, r) BY <2>1, NothingAtTheEnds
  <2> QED BY <2>2, <2>3, <2>4 DEF SameAs
<1>3. CASE ~(j > Sizes[ex])
  <2>1. at' = [at EXCEPT !.i = j] /\ j \in 1 .. Sizes[ex] BY <1>1, <1>3
  <2>2. at'.ex = ex /\ at'.i = j /\ at' \in [ex : 0 .. 5, i : 1 .. 58] BY <2>1, <1>1 DEF MmPlace
  <2>3. MmPlace' BY <2>1, <2>2, <1>1 DEF MmPlace
  <2> QED BY <2>2, <2>3 DEF SameAs
<1> QED BY <1>2, <1>3

MmHeld ==
  /\ mm \subseteq Things
  /\ \A r \in mm : May(at.ex, at.i, r) \/ Excused(r, failed)
  /\ failed = {} => \A r \in Things : May(at.ex, at.i, r) => r \in mm
  /\ \A r \in Things : May(at.ex, at.i, r) /\ Certain(at.i, r) => r \in mm
  /\ result = 0 <=> failed = {}

MmInv ==
  /\ MmPlace
  /\ exit_code \in {0, 1, 2}
  /\ exit_code = 2 => MmHeld
  /\ exit_code # 2 => at # [ex |-> 5, i |-> 1] /\ VerdictAndCleanUp

\* The same without the truth value in Must.
LEMMA LeadsParts ==
  ASSUME NEW ex, NEW p, NEW j, NEW del, NEW add, Leads(ex, p, j, del, add)
  PROVE  /\ \A r \in Things : (May(ex, p, r) /\ r \notin del) \/ r \in add => May(ex, j, r)
         /\ \A r \in Things : May(ex, j, r) => (May(ex, p, r) /\ r \notin del) \/ r \in add
         /\ \A r \in Things : May(ex, j, r) /\ Certain(j, r) =>
                                (May(ex, p, r) /\ Certain(p, r) /\ r \notin del) \/ r \in add
<1>1. \A r \in Things : (May(ex, p, r) /\ r \notin del) \/ r \in add => May(ex, j, r)
  BY DEF Leads
<1>2. \A r \in Things : Must(ex, j, r, TRUE) => (Must(ex, p, r, TRUE) /\ r \notin del) \/ r \in add
  BY Zenon DEF Leads
<1>3. \A r \in Things : Must(ex, j, r, FALSE) => (Must(ex, p, r, FALSE) /\ r \notin del) \/ r \in add
  BY Zenon DEF Leads
<1>4. \A r \in Things : May(ex, j, r) => (May(ex, p, r) /\ r \notin del) \/ r \in add
  BY <1>2, Zenon DEF Must
<1>5. \A r \in Things : May(ex, j, r) /\ Certain(j, r) =>
                          (May(ex, p, r) /\ Certain(p, r) /\ r \notin del) \/ r \in add
  BY <1>3, Zenon DEF Must
<1> QED BY <1>1, <1>4, <1>5

LEMMA FailsParts ==
  ASSUME NEW ex, NEW p, NEW j, NEW release, NEW name, Fails(ex, p, j, release, name)
  PROVE  /\ \A r \in Things : May(ex, p, r) /\ r \notin release => May(ex, j, r) \/ Excused(r, {name})
         /\ \A r \in Things : May(ex, j, r) /\ Certain(j, r) =>
                                May(ex, p, r) /\ Certain(p, r) /\ r \notin release
<1>1. \A r \in Things : Must(ex, j, r, FALSE) => Must(ex, p, r, FALSE) /\ r \notin release
  BY Zenon DEF Fails
<1>2. \A r \in Things : May(ex, j, r) /\ Certain(j, r) =>
                          May(ex, p, r) /\ Certain(p, r) /\ r \notin release
  BY <1>1, Zenon DEF Must
<1> QED BY <1>2 DEF Fails

\* A step that goes well takes and gives back what its instruction says.
LEMMA LeadsKeep ==
  ASSUME MmHeld, NEW ex, NEW p, NEW j, NEW del, NEW add, ex = at.ex, p = at.i, Leads(ex, p, j, del, add),
         add \subseteq Things, mm' = (mm \ del) \cup add, SameAs(ex, j)', UNCHANGED <<result, failed>>
  PROVE  MmHeld'
<1>1. /\ \A r \in Things : (May(ex, p, r) /\ r \notin del) \/ r \in add => May(ex, j, r)
      /\ \A r \in Things : May(ex, j, r) => (May(ex, p, r) /\ r \notin del) \/ r \in add
      /\ \A r \in Things : May(ex, j, r) /\ Certain(j, r) =>
                             (May(ex, p, r) /\ Certain(p, r) /\ r \notin del) \/ r \in add
  BY LeadsParts, Zenon
<1>2. /\ \A r : May(at.ex, at.i, r)' <=> May(ex, j, r)
      /\ \A r : May(ex, j, r) => (Certain(at.i, r)' <=> Certain(j, r))
  BY DEF SameAs
<1>3. mm \subseteq Things /\ \A r \in mm : May(ex, p, r) \/ Excused(r, failed)
  BY DEF MmHeld
<1>4. mm' \subseteq Things
  BY <1>3
<1>5. \A r \in mm' : May(at.ex, at.i, r)' \/ Excused(r, failed)'
  <2>1. \A r \in mm' : May(ex, j, r) \/ Excused(r, failed)
    BY <1>1, <1>3
  <2>2. \A r : Excused(r, failed)' <=> Excused(r, failed)
    BY DEF Excused
  <2> QED BY <1>2, <2>1, <2>2
<1>6. failed' = {} => \A r \in Things : May(at.ex, at.i, r)' => r \in mm'
  <2>1. failed = {} => \A r \in Things : May(ex, p, r) => r \in mm
    BY DEF MmHeld
  <2> QED BY <1>1, <1>2, <2>1
<1>7. \A r \in Things : May(at.ex, at.i, r)' /\ Certain(at.i, r)' => r \in mm'
  <2>1. \A r \in Things : May(ex, p, r) /\ Certain(p, r) => r \in mm
    BY DEF MmHeld
  <2> QED BY <1>1, <1>2, <2>1
<1>8. result' = 0 <=> failed' = {}
  BY DEF MmHeld
<1> QED BY <1>4, <1>5, <1>6, <1>7, <1>8 DEF MmHeld

\* A step that fails gives back what its answer says, and leaves at most what is excused.
LEMMA FailsKeep ==
  ASSUME MmHeld, NEW ex, NEW p, NEW j, NEW release, NEW name, ex = at.ex, p = at.i,
         Fails(ex, p, j, release, name), mm' = mm \ release, SameAs(ex, j)',
         \A r : Excused(r, {name}) \/ Excused(r, failed) => Excused(r, failed'),
         result' = -1, failed' # {}
  PROVE  MmHeld'
<1>1. /\ \A r \in Things : May(ex, p, r) /\ r \notin release => May(ex, j, r) \/ Excused(r, {name})
      /\ \A r \in Things : May(ex, j, r) /\ Certain(j, r) =>
                             May(ex, p, r) /\ Certain(p, r) /\ r \notin release
  BY FailsParts, Zenon
<1>2. /\ \A r : May(at.ex, at.i, r)' <=> May(ex, j, r)
      /\ \A r : May(ex, j, r) => (Certain(at.i, r)' <=> Certain(j, r))
  BY DEF SameAs
<1>3. mm \subseteq Things /\ \A r \in mm : May(ex, p, r) \/ Excused(r, failed)
  BY DEF MmHeld
<1>4. mm' \subseteq Things
  BY <1>3
<1>5. \A r \in mm' : May(at.ex, at.i, r)' \/ Excused(r, failed')
  <2>1. \A r \in mm' : May(ex, j, r) \/ Excused(r, failed')
    BY <1>1, <1>3
  <2> QED BY <1>2, <2>1
<1>6. \A r \in Things : May(at.ex, at.i, r)' /\ Certain(at.i, r)' => r \in mm'
  <2>1. \A r \in Things : May(ex, p, r) /\ Certain(p, r) => r \in mm
    BY DEF MmHeld
  <2> QED BY <1>1, <1>2, <2>1
<1>7. ~(result' = 0)
  OBVIOUS
<1> QED BY <1>4, <1>5, <1>6, <1>7 DEF MmHeld

\* What is excused is what VerdictAndCleanUp excepts.
LEMMA ExcusedOnly ==
  ASSUME NEW m, NEW f, \A r \in m : Excused(r, f)
  PROVE  m \subseteq UNION {IF "munmap hole" \in f THEN A({5}) ELSE {},
                            IF "mremap grow" \in f THEN A({8}) ELSE {}}
<1>1. A({5}) = {"anon 5"} /\ A({8}) = {"anon 8"}
  BY Parts
<1> SUFFICES ASSUME NEW r \in m
             PROVE  \/ r \in IF "munmap hole" \in f THEN A({5}) ELSE {}
                    \/ r \in IF "mremap grow" \in f THEN A({8}) ELSE {}
  OBVIOUS
<1>2. Excused(r, f)
  OBVIOUS
<1> QED
  BY <1>1, <1>2 DEF Excused

LEMMA MmInitially == MmInit => MmInv
<1> SUFFICES ASSUME MmInit PROVE MmInv
  OBVIOUS
<1>1. at = [ex |-> 0, i |-> 1] /\ mm = {} /\ result = 0 /\ failed = {} /\ exit_code = 2
  BY DEF MmInit
<1>2. MmPlace
  BY <1>1 DEF MmPlace
<1>3. \A r : ~May(at.ex, at.i, r)
  BY <1>1, NothingAtTheEnds
<1>4. MmHeld
  BY <1>1, <1>3 DEF MmHeld
<1> QED
  BY <1>1, <1>2, <1>4 DEF MmInv

LEMMA AtAnInstruction ==
  ASSUME MmInv, InExercise
  PROVE  MmPlace /\ MmHeld /\ at.ex \in 1 .. 4 /\ at.i \in Nat /\ exit_code = 2 /\ Flow(Now, at.ex, at.i)
<1>1. MmPlace /\ MmHeld /\ at.ex \in 1 .. 4 /\ exit_code = 2
  BY EveryFlow DEF MmInv, InExercise
<1>2. at.i \in 1 .. 58 /\ at.i <= Sizes[at.ex] /\ Sizes[at.ex] \in 1 .. 58
  BY <1>1, EveryFlow DEF MmPlace
<1>3. \A a, b : a \in 1 .. 58 /\ b \in 1 .. 58 /\ a <= b => a \in 1 .. b /\ a \in Nat
  OBVIOUS
<1>4. at.i \in 1 .. Sizes[at.ex] /\ at.i \in Nat
  BY <1>2, <1>3, Zenon
<1>5. Flow(Exercises[at.ex][at.i], at.ex, at.i)
  BY <1>1, <1>4, EveryFlow
<1> QED
  BY <1>1, <1>4, <1>5 DEF Now

\* A step to the next instruction that goes well.
LEMMA NextKeeps ==
  ASSUME MmInv, InExercise, NEW del, NEW add, Leads(at.ex, at.i, at.i + 1, del, add), add \subseteq Things,
         mm' = (mm \ del) \cup add, GoOn("next"), UNCHANGED <<result, failed, exit_code>>
  PROVE  MmInv'
<1>1. PICK ex, p : ex = at.ex /\ p = at.i
  OBVIOUS
<1>2. MmPlace /\ MmHeld /\ at.ex \in 1 .. 4 /\ exit_code = 2
  BY AtAnInstruction
<1>3. Jump(at.ex, at.i, "next", at.i + 1)
  BY DEF Jump
<1>4. PICK j : j = at.i + 1
  OBVIOUS
<1>5. MmPlace' /\ SameAs(ex, j)'
  BY <1>1, <1>2, <1>3, <1>4, Arrives
<1>6. Leads(ex, p, j, del, add)
  BY <1>1, <1>4
<1>7. MmHeld'
  BY <1>1, <1>2, <1>5, <1>6, LeadsKeep
<1> QED
  BY <1>2, <1>5, <1>7 DEF MmInv

LEMMA StayKeeps ==
  ASSUME MmInv, InExercise, Leads(at.ex, at.i, at.i + 1, {}, {}), GoOn("next"),
         UNCHANGED <<mm, result, failed, exit_code>>
  PROVE  MmInv'
<1>1. mm' = (mm \ {}) \cup {} /\ {} \subseteq Things
  OBVIOUS
<1> QED
  BY <1>1, NextKeeps

\* A step that fails, noted.
LEMMA HandleKeeps ==
  ASSUME MmInv, InExercise, NEW fail, NEW j, NEW name, Handle(fail), fail.note = TRUE,
         Jump(at.ex, at.i, fail.to, j), Fails(at.ex, at.i, j, fail.release, name),
         \A r : Excused(r, {name}) \/ Excused(r, failed) => Excused(r, failed'), failed' # {},
         exit_code' = exit_code
  PROVE  MmInv'
<1>1. PICK ex, p : ex = at.ex /\ p = at.i
  OBVIOUS
<1>2. MmPlace /\ MmHeld /\ at.ex \in 1 .. 4 /\ exit_code = 2
  BY AtAnInstruction
<1>3. result' = -1 /\ mm' = mm \ fail.release /\ GoOn(fail.to)
  BY DEF Handle
<1>4. MmPlace' /\ SameAs(ex, j)'
  BY <1>1, <1>2, <1>3, Arrives
<1>5. Fails(ex, p, j, fail.release, name)
  BY <1>1
<1>6. MmHeld'
  BY <1>1, <1>2, <1>3, <1>4, <1>5, FailsKeep
<1> QED
  BY <1>2, <1>4, <1>6 DEF MmInv

LEMMA StartUpKeeps ==
  ASSUME MmInv, NEW ok \in BOOLEAN, StartUp(ok)
  PROVE  MmInv'
<1>1. /\ at.ex = 0 /\ exit_code = 2 /\ at' = [ex |-> 1, i |-> 1] /\ UNCHANGED <<mm, result>>
      /\ failed' = (IF ok THEN failed ELSE failed \cup {"start"}) /\ exit_code' = (IF ok THEN 2 ELSE 1)
  BY DEF StartUp
<1>2. at'.ex = 1 /\ at'.i = 1 /\ at' # [ex |-> 5, i |-> 1] /\ at' \in [ex : 0 .. 5, i : 1 .. 58]
  BY <1>1
<1>3. MmPlace'
  <2>1. Sizes[1] = 58
    BY DEF Sizes
  <2> QED
    BY <1>2, <2>1 DEF MmPlace
<1>4. MmHeld
  BY <1>1 DEF MmInv
<1>5. \A r : ~May(at.ex, at.i, r) /\ ~May(at.ex, at.i, r)'
  BY <1>1, <1>2, NothingAtTheEnds
<1>6. CASE ok
  <2>1. failed' = failed /\ exit_code' = 2
    BY <1>1, <1>6
  <2>2. MmHeld'
    <3>1. \A r : Excused(r, failed)' <=> Excused(r, failed)
      BY <2>1 DEF Excused
    <3>2. mm \subseteq Things /\ (\A r \in mm : Excused(r, failed)) /\ (result = 0 <=> failed = {})
      BY <1>4, <1>5 DEF MmHeld
    <3> QED
      BY <1>1, <1>5, <2>1, <3>1, <3>2 DEF MmHeld
  <2> QED
    BY <1>3, <2>1, <2>2 DEF MmInv
<1>7. CASE ~ok
  <2>1. exit_code' = 1 /\ failed' # {} /\ failed \subseteq failed'
    BY <1>1, <1>7
  <2>2. \A r \in mm' : Excused(r, failed)'
    BY <1>1, <1>4, <1>5, <2>1 DEF MmHeld, Excused
  <2>3. mm' \subseteq UNION {IF "munmap hole" \in failed' THEN A({5}) ELSE {},
                             IF "mremap grow" \in failed' THEN A({8}) ELSE {}}
    BY <2>2, ExcusedOnly
  <2>4. VerdictAndCleanUp'
    BY <2>1, <2>3 DEF VerdictAndCleanUp
  <2> QED
    BY <1>2, <1>3, <2>1, <2>4 DEF MmInv
<1> QED
  BY <1>6, <1>7

LEMMA PhaseStepKeeps == MmInv /\ PhaseStep => MmInv'
<1> SUFFICES ASSUME MmInv, PhaseStep PROVE MmInv'
  OBVIOUS
<1>1. InExercise /\ Now.op = "phase" /\ GoOn("next") /\ UNCHANGED <<mm, result, failed, exit_code>>
  BY DEF PhaseStep
<1>2. Leads(at.ex, at.i, at.i + 1, {}, {})
  BY <1>1, AtAnInstruction DEF Flow
<1> QED
  BY <1>1, <1>2, StayKeeps

LEMMA AccessStepKeeps == MmInv /\ AccessStep => MmInv'
<1> SUFFICES ASSUME MmInv, AccessStep PROVE MmInv'
  OBVIOUS
<1>1. InExercise /\ Now.op = "access" /\ GoOn("next") /\ UNCHANGED <<mm, result, failed, exit_code>>
  BY DEF AccessStep
<1>2. Leads(at.ex, at.i, at.i + 1, {}, {})
  BY <1>1, AtAnInstruction DEF Flow
<1> QED
  BY <1>1, <1>2, StayKeeps

LEMMA CallSucceedsKeeps == MmInv /\ CallSucceeds => MmInv'
<1> SUFFICES ASSUME MmInv, CallSucceeds PROVE MmInv'
  OBVIOUS
<1>1. /\ InExercise /\ Now.op \in {"call", "sure"} /\ GoOn("next")
      /\ mm' = (mm \ Now.del) \cup Now.add /\ UNCHANGED <<result, failed, exit_code>>
  BY DEF CallSucceeds
<1>2. Now.add \subseteq Things /\ Leads(at.ex, at.i, at.i + 1, Now.del, Now.add)
  BY <1>1, AtAnInstruction DEF Flow
<1> QED
  BY <1>1, <1>2, NextKeeps

LEMMA CallFailsKeeps == MmInv /\ CallFails => MmInv'
<1> SUFFICES ASSUME MmInv, CallFails PROVE MmInv'
  OBVIOUS
<1>1. /\ InExercise /\ Now.op = "call" /\ Handle(Now.fail)
      /\ failed' = failed \cup {Now.name} /\ exit_code' = exit_code
  BY DEF CallFails
<1>2. Now.fail.note = TRUE
  BY <1>1, AtAnInstruction DEF Flow
<1>3. PICK j : Jump(at.ex, at.i, Now.fail.to, j) /\ Fails(at.ex, at.i, j, Now.fail.release, Now.name)
  BY <1>1, AtAnInstruction DEF Flow
<1>4. \A r : Excused(r, {Now.name}) \/ Excused(r, failed) => Excused(r, failed')
  BY <1>1 DEF Excused
<1>5. failed' # {}
  BY <1>1
<1> QED
  BY <1>1, <1>2, <1>3, <1>4, <1>5, HandleKeeps

\* A view is missing only after its mmap() failed.
LEMMA UnlessStepKeeps == MmInv /\ UnlessStep => MmInv'
<1> SUFFICES ASSUME MmInv, UnlessStep PROVE MmInv'
  OBVIOUS
<1>1. InExercise /\ Now.op = "unless" /\ UNCHANGED <<failed, exit_code>>
  BY DEF UnlessStep
<1>2. /\ Now.fail.note = TRUE /\ Passes(at.ex, at.i, Now.add)
      /\ MmHeld
  BY <1>1, AtAnInstruction DEF Flow
<1>3. CASE Now.add \subseteq mm
  <2>1. GoOn("next") /\ UNCHANGED <<mm, result>>
    BY <1>3 DEF UnlessStep
  <2>2. Now.add \subseteq Things /\ mm' = (mm \ {}) \cup Now.add
    BY <1>2, <1>3, <2>1 DEF MmHeld
  <2>3. Leads(at.ex, at.i, at.i + 1, {}, Now.add)
    <3>1. \A r \in Things : (May(at.ex, at.i, r) /\ r \notin {}) \/ r \in Now.add => May(at.ex, at.i + 1, r)
      BY <1>2 DEF Passes
    <3>2. \A r \in Things, clean \in BOOLEAN :
            Must(at.ex, at.i + 1, r, clean) => (Must(at.ex, at.i, r, clean) /\ r \notin {}) \/ r \in Now.add
      BY <1>2, Zenon DEF Passes
    <3> QED
      BY <3>1, <3>2, Zenon DEF Leads
  <2> QED
    BY <1>1, <2>1, <2>2, <2>3, NextKeeps
<1>4. CASE ~(Now.add \subseteq mm)
  <2>1. Handle(Now.fail)
    BY <1>4 DEF UnlessStep
  <2>2. PICK j : Jump(at.ex, at.i, Now.fail.to, j) /\ Fails(at.ex, at.i, j, Now.fail.release, "unless")
    BY <1>1, AtAnInstruction DEF Flow
  <2>3. \A r : Excused(r, {"unless"}) \/ Excused(r, failed) => Excused(r, failed')
    BY <1>1 DEF Excused
  <2>4. failed' # {}
    <3>1. failed = {} => \A r \in Things : May(at.ex, at.i, r) => r \in mm
      BY <1>2 DEF MmHeld
    <3>2. \A r \in Now.add : r \in Things /\ May(at.ex, at.i, r)
      BY <1>2, Zenon DEF Passes
    <3> QED
      BY <1>1, <1>4, <3>1, <3>2
  <2> QED
    BY <1>1, <1>2, <2>1, <2>2, <2>3, <2>4, HandleKeeps
<1> QED
  BY <1>3, <1>4

LEMMA SwapStepKeeps == MmInv /\ SwapStep => MmInv'
<1> SUFFICES ASSUME MmInv, SwapStep PROVE MmInv'
  OBVIOUS
<1>1. InExercise /\ Now.op = "swap" /\ UNCHANGED <<mm, result, failed, exit_code>>
  BY DEF SwapStep
<1>2. /\ Leads(at.ex, at.i, at.i + 1, {}, {}) /\ MmHeld /\ MmPlace /\ at.ex \in 1 .. 4 /\ exit_code = 2
      /\ \E j : Jump(at.ex, at.i, Now.fail.to, j) /\ Leads(at.ex, at.i, j, {}, {})
  BY <1>1, AtAnInstruction DEF Flow
<1>3. CASE swap
  <2>1. GoOn("next")
    BY <1>3 DEF SwapStep
  <2> QED
    BY <1>1, <1>2, <2>1, StayKeeps
<1>4. CASE ~swap
  <2>1. GoOn(Now.fail.to)
    BY <1>4 DEF SwapStep
  <2>2. PICK ex, p : ex = at.ex /\ p = at.i
    OBVIOUS
  <2>3. PICK j : Jump(at.ex, at.i, Now.fail.to, j) /\ Leads(at.ex, at.i, j, {}, {})
    BY <1>2
  <2>4. MmPlace' /\ SameAs(ex, j)'
    BY <1>2, <2>1, <2>2, <2>3, Arrives
  <2>5. Leads(ex, p, j, {}, {}) /\ mm' = (mm \ {}) \cup {} /\ {} \subseteq Things
    BY <1>1, <2>2, <2>3
  <2>6. MmHeld'
    BY <1>1, <1>2, <2>2, <2>4, <2>5, LeadsKeep
  <2> QED
    BY <1>1, <1>2, <2>4, <2>6 DEF MmInv
<1> QED
  BY <1>3, <1>4

LEMMA CompleteKeeps == MmInv /\ Complete => MmInv'
<1> SUFFICES ASSUME MmInv, Complete PROVE MmInv'
  OBVIOUS
<1>1. at = [ex |-> 5, i |-> 1] /\ at' = [at EXCEPT !.i = 2] /\ UNCHANGED <<mm, result, failed, exit_code>>
  BY DEF Complete
<1>2. exit_code = 2 /\ MmHeld
  BY <1>1 DEF MmInv
<1>3. at.ex = 5 /\ at'.ex = 5 /\ at' \in [ex : 0 .. 5, i : 1 .. 58]
  BY <1>1
<1>4. MmPlace'
  BY <1>3 DEF MmPlace
<1>5. \A r : ~May(at.ex, at.i, r) /\ ~May(at.ex, at.i, r)'
  BY <1>3, NothingAtTheEnds
<1>6. \A r : Excused(r, failed)' <=> Excused(r, failed)
  BY <1>1 DEF Excused
<1>7. MmHeld'
  BY <1>1, <1>2, <1>5, <1>6 DEF MmHeld
<1> QED
  BY <1>1, <1>2, <1>4, <1>7 DEF MmInv

LEMMA ExitKeeps == MmInv /\ Verdict => MmInv'
<1> SUFFICES ASSUME MmInv, Verdict PROVE MmInv'
  OBVIOUS
<1>1. /\ at = [ex |-> 5, i |-> 2] /\ exit_code = 2 /\ exit_code' = (IF result = 0 THEN 0 ELSE 1)
      /\ UNCHANGED <<at, mm, result, failed>>
  BY DEF Verdict
<1>2. MmHeld /\ MmPlace /\ at.ex = 5 /\ at' # [ex |-> 5, i |-> 1]
  BY <1>1 DEF MmInv
<1>3. MmPlace'
  BY <1>1, <1>2 DEF MmPlace
<1>4. \A r \in mm : Excused(r, failed)
  BY <1>2, NothingAtTheEnds DEF MmHeld
<1>5. mm \subseteq UNION {IF "munmap hole" \in failed THEN A({5}) ELSE {},
                         IF "mremap grow" \in failed THEN A({8}) ELSE {}}
  BY <1>4, ExcusedOnly
<1>6. exit_code' = 0 <=> failed = {}
  <2>1. result = 0 <=> failed = {}
    BY <1>2 DEF MmHeld
  <2> QED
    BY <1>1, <2>1
<1>7. VerdictAndCleanUp'
  BY <1>1, <1>5, <1>6 DEF VerdictAndCleanUp
<1>8. exit_code' \in {0, 1, 2} /\ exit_code' # 2
  BY <1>1
<1> QED
  BY <1>2, <1>3, <1>7, <1>8 DEF MmInv

LEMMA MmQuiet == MmInv /\ UNCHANGED <<at, mm, result, failed, exit_code>> => MmInv'
BY DEF MmInv, MmPlace, MmHeld, VerdictAndCleanUp

LEMMA MmInvariant == MmSpec => []MmInv
<1>1. MmInv /\ [MmNext]_mm_vars => MmInv'
  <2> SUFFICES ASSUME MmInv, [MmNext]_mm_vars PROVE MmInv'
    OBVIOUS
  <2>1. ASSUME NEW ok \in BOOLEAN, StartUp(ok) PROVE MmInv'
    BY <2>1, StartUpKeeps
  <2>2. CASE MmRing
    BY <2>2, MmQuiet DEF MmRing
  <2>3. CASE UNCHANGED mm_vars
    BY <2>3, MmQuiet DEF mm_vars
  <2> QED

      BY <2>1, <2>2, <2>3, PhaseStepKeeps, CallSucceedsKeeps, CallFailsKeeps, AccessStepKeeps, UnlessStepKeeps,
       SwapStepKeeps, CompleteKeeps, ExitKeeps DEF MmNext, MmStep
<1> QED
  BY MmInitially, <1>1, PTL DEF MmSpec

(* The workload never touches what is not mapped, for every number of failing calls and
   whichever they are: every access of the four exercises stands where no failure can have
   left its mapping out, or behind a test for it. *)
THEOREM WorkloadNeverAccessesWild == MmSpec => []NoWildAccess
<1>1. MmInv => NoWildAccess
  <2> SUFFICES ASSUME MmInv, InExercise, Now.op = "access" PROVE Now.add \subseteq mm
    BY DEF NoWildAccess
  <2>1. Touches(at.ex, at.i, Now.add) /\ MmHeld
    BY AtAnInstruction DEF Flow
  <2>2. \A r \in Now.add : r \in Things /\ May(at.ex, at.i, r) /\ Certain(at.i, r)
    BY <2>1, Zenon DEF Touches, Must
  <2> QED
    BY <2>1, <2>2 DEF MmHeld
<1> QED
  BY MmInvariant, <1>1, PTL

(* When the workload ends, its verdict tells of every call that failed, and it holds
   nothing any more but the two ranges the code has no call for. *)
THEOREM WorkloadAlwaysCleansUp == MmSpec => []VerdictAndCleanUp
<1>1. MmInv => VerdictAndCleanUp
  BY DEF MmInv, VerdictAndCleanUp
<1> QED
  BY MmInvariant, <1>1, PTL

-----------------------------------------------------------------------------
(* The allocator stages of the kapi module *)

Cache  == Obj("custom_cache")
Inside == ToSet(CustomObjects)

\* What is allocated before the position kapi_init() is at.
Before(s, k) == s < stage \/ (s = stage /\ k < item)

\* The cache comes behind its objects, in what the clean-up has still to look at.
CacheLast(t) ==
  \A j, k \in 1 .. Len(t) : j < k /\ t[j] = Cache => t[k] \notin Inside

KapiTypes ==
  /\ mod \in {"absent", "init", "loaded", "undo", "exit"}
  /\ stage \in 1 .. 4 /\ item \in 1 .. Len(AllocOrder[stage])
  /\ held \subseteq Objects
  /\ live = [o \in Objects |-> IF o \in held THEN 1 ELSE 0]

KapiInv ==
  /\ KapiTypes
  /\ mod = "absent" => held = {}
  /\ mod = "init" => \A s \in 1 .. 4 : \A k \in 1 .. Len(AllocOrder[s]) :
                       AllocOrder[s][k] \in held <=> Before(s, k)
  /\ mod \in {"undo", "exit"} => /\ todo \in Seq(Objects)
                                 /\ held \subseteq ToSet(todo)
                                 /\ CacheLast(todo)
  /\ held \cap Inside # {} => Cache \in held

\* What a list of four lists holds.
LEMMA FourLists ==
  ASSUME NEW a, NEW b, NEW c, NEW d
  PROVE  LET t == <<a, b, c, d>>
         IN Len(t) = 4 /\ t[1] = a /\ t[2] = b /\ t[3] = c /\ t[4] = d /\ DOMAIN t = 1 .. 4
OBVIOUS

LEMMA Stages ==
  /\ AllocOrder[1] = PageAllocs /\ AllocOrder[2] = SlabAllocs
  /\ AllocOrder[3] = CustomAllocs /\ AllocOrder[4] = VmallocAllocs
  /\ DOMAIN AllocOrder = 1 .. 4 /\ Len(AllocOrder) = 4
  /\ FreeOrder[1] = PageFrees /\ FreeOrder[2] = SlabFrees
  /\ FreeOrder[3] = CustomFrees /\ FreeOrder[4] = VmallocFrees
<1>1. /\ AllocOrder[1] = PageAllocs /\ AllocOrder[2] = SlabAllocs
      /\ AllocOrder[3] = CustomAllocs /\ AllocOrder[4] = VmallocAllocs
      /\ DOMAIN AllocOrder = 1 .. 4 /\ Len(AllocOrder) = 4
  BY FourLists DEF AllocOrder
<1>2. /\ FreeOrder[1] = PageFrees /\ FreeOrder[2] = SlabFrees
      /\ FreeOrder[3] = CustomFrees /\ FreeOrder[4] = VmallocFrees
  BY FourLists DEF FreeOrder
<1> QED
  BY <1>1, <1>2

\* Lists of two, and of five.
LEMMA TwoItems ==
  ASSUME NEW a, NEW b
  PROVE  LET t == <<a, b>>
         IN Len(t) = 2 /\ t[1] = a /\ t[2] = b /\ t \in Seq({a, b})
OBVIOUS

LEMMA FiveItems ==
  ASSUME NEW a, NEW b, NEW c, NEW d, NEW e
  PROVE  LET t == <<a, b, c, d, e>>
         IN /\ Len(t) = 5 /\ t[1] = a /\ t[2] = b /\ t[3] = c /\ t[4] = d /\ t[5] = e
            /\ t \in Seq({a, b, c, d, e})
OBVIOUS

\* What two lists hold together.
LEMMA ToSetOfBoth ==
  ASSUME NEW S, NEW s \in Seq(S), NEW t \in Seq(S)
  PROVE  ToSet(s \o t) = ToSet(s) \cup ToSet(t)
<1> DEFINE u == s \o t
<1>1. /\ u \in Seq(S) /\ Len(u) = Len(s) + Len(t)
      /\ \A n \in 1 .. Len(s) : u[n] = s[n]
      /\ \A n \in 1 .. Len(t) : u[Len(s) + n] = t[n]
      /\ Len(s) \in Nat /\ Len(t) \in Nat
  OBVIOUS
<1>2. DOMAIN u = 1 .. Len(u) /\ DOMAIN s = 1 .. Len(s) /\ DOMAIN t = 1 .. Len(t)
  BY <1>1
<1> HIDE DEF u
<1>3. ASSUME NEW x \in ToSet(u) PROVE x \in ToSet(s) \cup ToSet(t)
  <2>1. PICK n \in 1 .. Len(u) : u[n] = x
    BY <1>2, <1>3 DEF ToSet
  <2>2. CASE n <= Len(s)
    <3>1. n \in 1 .. Len(s)
      BY <1>1, <2>2
    <3>2. x = s[n]
      BY <1>1, <2>1, <3>1
    <3> QED
      BY <1>2, <3>1, <3>2 DEF ToSet
  <2>3. CASE n > Len(s)
    <3>1. n - Len(s) \in 1 .. Len(t) /\ n = Len(s) + (n - Len(s))
      BY <1>1, <2>3
    <3>2. x = t[n - Len(s)]
      BY <1>1, <2>1, <3>1
    <3> QED
      BY <1>2, <3>1, <3>2 DEF ToSet
  <2> QED
    BY <1>1, <2>2, <2>3
<1>4. ASSUME NEW x \in ToSet(s) PROVE x \in ToSet(u)
  <2>1. PICK n \in 1 .. Len(s) : s[n] = x
    BY <1>2, <1>4 DEF ToSet
  <2> QED
    BY <1>1, <1>2, <2>1 DEF ToSet
<1>5. ASSUME NEW x \in ToSet(t) PROVE x \in ToSet(u)
  <2>1. PICK n \in 1 .. Len(t) : t[n] = x
    BY <1>2, <1>5 DEF ToSet
  <2>2. Len(s) + n \in 1 .. Len(u)
    BY <1>1
  <2> QED
    BY <1>1, <1>2, <2>1, <2>2 DEF ToSet
<1> QED
  BY <1>3, <1>4, <1>5 DEF u

\* A list whose first entry is taken away.
LEMMA ToSetOfTail ==
  ASSUME NEW S, NEW s \in Seq(S), s # <<>>
  PROVE  /\ Tail(s) \in Seq(S) /\ Head(s) \in S
         /\ ToSet(s) = {Head(s)} \cup ToSet(Tail(s))
<1>1. /\ Len(s) \in Nat \ {0} /\ Tail(s) \in Seq(S) /\ Len(Tail(s)) = Len(s) - 1
      /\ \A n \in 1 .. Len(s) - 1 : Tail(s)[n] = s[n + 1]
      /\ Head(s) = s[1]
  OBVIOUS
<1>2. DOMAIN s = 1 .. Len(s) /\ DOMAIN Tail(s) = 1 .. Len(s) - 1
  BY <1>1
<1>3. ASSUME NEW x \in ToSet(s) PROVE x \in {Head(s)} \cup ToSet(Tail(s))
  <2>1. PICK n \in 1 .. Len(s) : s[n] = x
    BY <1>2, <1>3 DEF ToSet
  <2>2. CASE n # 1
    <3>1. n - 1 \in 1 .. Len(s) - 1 /\ Tail(s)[n - 1] = x
      BY <1>1, <2>1, <2>2
    <3> QED
      BY <1>2, <3>1 DEF ToSet
  <2> QED
    BY <1>1, <2>1, <2>2
<1>4. ASSUME NEW x \in ToSet(Tail(s)) PROVE x \in ToSet(s)
  <2>1. PICK n \in 1 .. Len(s) - 1 : Tail(s)[n] = x
    BY <1>2, <1>4 DEF ToSet
  <2>2. n + 1 \in 1 .. Len(s) /\ s[n + 1] = x
    BY <1>1, <2>1
  <2> QED
    BY <1>2, <2>2 DEF ToSet
<1>5. Head(s) \in ToSet(s) /\ Head(s) \in S
  <2>1. 1 \in 1 .. Len(s)
    BY <1>1
  <2> QED
    BY <1>1, <1>2, <2>1 DEF ToSet
<1> QED
  BY <1>1, <1>3, <1>4, <1>5

\* No two names and numbers make the same object.
LEMMA ObjectsDiffer ==
  /\ \A x, y : Obj(x) = Obj(y) => x = y
  /\ CustomObjects \in Seq(Inside) /\ Len(CustomObjects) = CacheObjects
  /\ \A n \in 1 .. CacheObjects : /\ CustomObjects[n] \in Inside
                                  /\ \A x : Obj(x) # CustomObjects[n]
                                  /\ \A m \in 1 .. CacheObjects :
                                       CustomObjects[n] = CustomObjects[m] => n = m
  /\ \A o \in Inside : \A x : Obj(x) # o
<1>1. \A x, y : Obj(x) = Obj(y) => x = y
  BY DEF Obj
<1>2. \A n \in 1 .. CacheObjects : CustomObjects[n] = <<"custom_object", n>>
  BY KapiAssumption DEF CustomObjects
<1>3. DOMAIN CustomObjects = 1 .. CacheObjects
  BY KapiAssumption DEF CustomObjects
<1>4. \A n \in 1 .. CacheObjects : CustomObjects[n] \in Inside
  BY <1>3 DEF Inside, ToSet
<1>5. CustomObjects \in Seq(Inside) /\ Len(CustomObjects) = CacheObjects
  <2>1. CustomObjects = [n \in 1 .. CacheObjects |-> CustomObjects[n]]
    BY KapiAssumption DEF CustomObjects
  <2>2. CustomObjects \in [1 .. CacheObjects -> Inside]
    BY <1>4, <2>1, Zenon
  <2> QED
    BY <1>3, <2>2, KapiAssumption
<1>6. \A n \in 1 .. CacheObjects : \A x : Obj(x) # CustomObjects[n]
  BY <1>2, KapiAssumption DEF Obj
<1>7. \A n, m \in 1 .. CacheObjects : CustomObjects[n] = CustomObjects[m] => n = m
  BY <1>2, KapiAssumption
<1>8. \A o \in Inside : \E n \in 1 .. CacheObjects : o = CustomObjects[n]
  BY <1>3, Zenon DEF Inside, ToSet
<1> QED
  BY <1>1, <1>4, <1>5, <1>6, <1>7, <1>8

\* What kapi_init() allocates, position by position.
LEMMA Items ==
  /\ Len(PageAllocs) = 5
  /\ PageAllocs[1] = Obj("one_page") /\ PageAllocs[2] = Obj("zero_page")
  /\ PageAllocs[3] = Obj("order_pages") /\ PageAllocs[4] = Obj("page_desc")
  /\ PageAllocs[5] = Obj("exact_pages")
  /\ Len(SlabAllocs) = 2
  /\ SlabAllocs[1] = Obj("slab_buf") /\ SlabAllocs[2] = Obj("slab_context")
  /\ Len(CustomAllocs) = CacheObjects + 1
  /\ CustomAllocs[1] = Cache
  /\ \A k \in 2 .. CacheObjects + 1 : CustomAllocs[k] = CustomObjects[k - 1]
  /\ Len(VmallocAllocs) = 2
  /\ VmallocAllocs[1] = Obj("vbuf") /\ VmallocAllocs[2] = Obj("vzbuf")
<1>1. /\ Len(PageAllocs) = 5
      /\ PageAllocs[1] = Obj("one_page") /\ PageAllocs[2] = Obj("zero_page")
      /\ PageAllocs[3] = Obj("order_pages") /\ PageAllocs[4] = Obj("page_desc")
      /\ PageAllocs[5] = Obj("exact_pages")
  BY FiveItems DEF PageAllocs
<1>2. /\ Len(SlabAllocs) = 2
      /\ SlabAllocs[1] = Obj("slab_buf") /\ SlabAllocs[2] = Obj("slab_context")
  BY TwoItems DEF SlabAllocs
<1>3. /\ Len(VmallocAllocs) = 2
      /\ VmallocAllocs[1] = Obj("vbuf") /\ VmallocAllocs[2] = Obj("vzbuf")
  BY TwoItems DEF VmallocAllocs
<1>4. ASSUME NEW c, NEW S, NEW t \in Seq(S)
      PROVE  /\ Len(<<c>> \o t) = Len(t) + 1 /\ (<<c>> \o t)[1] = c
             /\ \A k \in 2 .. Len(t) + 1 : (<<c>> \o t)[k] = t[k - 1]
  <2>1. <<c>> \in Seq(S \cup {c}) /\ t \in Seq(S \cup {c}) /\ Len(<<c>>) = 1 /\ Len(t) \in Nat
    OBVIOUS
  <2> QED
    BY <2>1
<1>5. /\ Len(CustomAllocs) = CacheObjects + 1
      /\ CustomAllocs[1] = Cache
      /\ \A k \in 2 .. CacheObjects + 1 : CustomAllocs[k] = CustomObjects[k - 1]
  BY <1>4, ObjectsDiffer DEF CustomAllocs, Cache
<1> QED
  BY <1>1, <1>2, <1>3, <1>5

\* No object is allocated twice.
LEMMA AllocatedOnce ==
  ASSUME NEW s \in 1 .. 4, NEW t \in 1 .. 4, NEW j \in 1 .. Len(AllocOrder[s]),
         NEW k \in 1 .. Len(AllocOrder[t]), AllocOrder[s][j] = AllocOrder[t][k]
  PROVE  s = t /\ j = k
<1> DEFINE Names(n) ==
             CASE n = 1 -> {"one_page", "zero_page", "order_pages", "page_desc", "exact_pages"}
               [] n = 2 -> {"slab_buf", "slab_context"}
               [] n = 4 -> {"vbuf", "vzbuf"}
               [] OTHER -> {"custom_cache"}
<1>0. ASSUME NEW n \in {1, 2, 4}, NEW i0 \in 1 .. Len(AllocOrder[n])
      PROVE  \E x \in Names(n) : AllocOrder[n][i0] = Obj(x)
  <2>1. CASE n = 1
    BY <2>1, Stages, Items
  <2>2. CASE n = 2
    BY <2>2, Stages, Items
  <2>3. CASE n = 4
    BY <2>3, Stages, Items
  <2> QED
    BY <2>1, <2>2, <2>3
<1>0a. ASSUME NEW i0 \in 1 .. Len(AllocOrder[3])
       PROVE  \/ AllocOrder[3][i0] = Obj("custom_cache") /\ i0 = 1
              \/ AllocOrder[3][i0] = CustomObjects[i0 - 1] /\ i0 - 1 \in 1 .. CacheObjects
  BY Stages, Items, KapiAssumption DEF Cache
<1>1. CASE s # 3 /\ t # 3
  <2>1. PICK x \in Names(s) : AllocOrder[s][j] = Obj(x)
    BY <1>0, <1>1
  <2>2. PICK y \in Names(t) : AllocOrder[t][k] = Obj(y)
    BY <1>0, <1>1
  <2>3. x = y
    BY <2>1, <2>2, ObjectsDiffer
  <2>4. s = t
    BY <1>1, <2>3
  <2>5. CASE s = 1
    BY <2>4, <2>5, Stages, Items, ObjectsDiffer
  <2>6. CASE s = 2
    BY <2>4, <2>6, Stages, Items, ObjectsDiffer
  <2>7. CASE s = 4
    BY <2>4, <2>7, Stages, Items, ObjectsDiffer
  <2> QED
    BY <1>1, <2>4, <2>5, <2>6, <2>7
<1>2. CASE s = 3 /\ t = 3
  BY <1>2, <1>0a, ObjectsDiffer
<1>3. CASE s = 3 /\ t # 3
  <2>1. PICK y \in Names(t) : AllocOrder[t][k] = Obj(y)
    BY <1>0, <1>3
  <2>2. y # "custom_cache"
    BY <1>3, <2>1
  <2> QED
    BY <1>3, <1>0a, <2>1, <2>2, ObjectsDiffer
<1>4. CASE s # 3 /\ t = 3
  <2>1. PICK x \in Names(s) : AllocOrder[s][j] = Obj(x)
    BY <1>0, <1>4
  <2>2. x # "custom_cache"
    BY <1>4, <2>1
  <2> QED
    BY <1>4, <1>0a, <2>1, <2>2, ObjectsDiffer
<1> QED
  BY <1>1, <1>2, <1>3, <1>4

\* The objects are what stands at the positions.
LEMMA ObjectsAreItems ==
  /\ \A s \in 1 .. 4 : ToSet(AllocOrder[s]) \subseteq Objects
  /\ \A o \in Objects : \E s \in 1 .. 4 : o \in ToSet(AllocOrder[s])
BY Stages, Zenon DEF Objects

LEMMA ItemsOfStage ==
  ASSUME NEW s \in 1 .. 4
  PROVE  /\ Len(AllocOrder[s]) \in Nat \ {0}
         /\ DOMAIN AllocOrder[s] = 1 .. Len(AllocOrder[s])
<1>1. DOMAIN PageAllocs = 1 .. Len(PageAllocs) /\ Len(PageAllocs) \in Nat \ {0}
  BY FiveItems DEF PageAllocs
<1>2. DOMAIN SlabAllocs = 1 .. Len(SlabAllocs) /\ Len(SlabAllocs) \in Nat \ {0}
  BY TwoItems DEF SlabAllocs
<1>3. DOMAIN VmallocAllocs = 1 .. Len(VmallocAllocs) /\ Len(VmallocAllocs) \in Nat \ {0}
  BY TwoItems DEF VmallocAllocs
<1>4. DOMAIN CustomAllocs = 1 .. Len(CustomAllocs) /\ Len(CustomAllocs) = CacheObjects + 1
  <2>1. <<Cache>> \in Seq(Inside \cup {Cache}) /\ CustomObjects \in Seq(Inside \cup {Cache})
    BY ObjectsDiffer
  <2>2. <<Cache>> \o CustomObjects \in Seq(Inside \cup {Cache})
    BY <2>1
  <2> QED
    BY <2>2, Items DEF CustomAllocs, Cache
<1>5. CASE s = 1
  BY <1>1, <1>5, Stages
<1>6. CASE s = 2
  BY <1>2, <1>6, Stages
<1>7. CASE s = 3
  BY <1>4, <1>7, Stages, KapiAssumption
<1>8. CASE s = 4
  BY <1>3, <1>8, Stages
<1> QED
  BY <1>5, <1>6, <1>7, <1>8

LEMMA AllocatedIsObject ==
  ASSUME NEW s \in 1 .. 4, NEW k \in 1 .. Len(AllocOrder[s])
  PROVE  AllocOrder[s][k] \in ToSet(AllocOrder[s]) /\ AllocOrder[s][k] \in Objects
<1>1. k \in DOMAIN AllocOrder[s]
  BY ItemsOfStage
<1>2. AllocOrder[s][k] \in ToSet(AllocOrder[s])
  BY <1>1, Zenon DEF ToSet
<1> QED
  BY <1>2, ObjectsAreItems

\* What a list of two, and of five, holds.
LEMMA ToSetOfTwo ==
  ASSUME NEW a, NEW b
  PROVE  ToSet(<<a, b>>) = {a, b}
<1> DEFINE t == <<a, b>>
<1>1. DOMAIN t = {1, 2} /\ t[1] = a /\ t[2] = b
  OBVIOUS
<1> HIDE DEF t
<1>2. ToSet(t) = {a, b}
  BY <1>1 DEF ToSet
<1> QED
  BY <1>2 DEF t

LEMMA ToSetOfFive ==
  ASSUME NEW a, NEW b, NEW c, NEW d, NEW e
  PROVE  ToSet(<<a, b, c, d, e>>) = {a, b, c, d, e}
<1> DEFINE t == <<a, b, c, d, e>>
<1>1. DOMAIN t = {1, 2, 3, 4, 5} /\ t[1] = a /\ t[2] = b /\ t[3] = c /\ t[4] = d /\ t[5] = e
  OBVIOUS
<1> HIDE DEF t
<1>2. ToSet(t) = {a, b, c, d, e}
  BY <1>1 DEF ToSet
<1> QED
  BY <1>2 DEF t

LEMMA ToSetOfOne ==
  ASSUME NEW a
  PROVE  ToSet(<<a>>) = {a}
<1> DEFINE t == <<a>>
<1>1. DOMAIN t = {1} /\ t[1] = a
  OBVIOUS
<1> HIDE DEF t
<1>2. ToSet(t) = {a}
  BY <1>1 DEF ToSet
<1> QED
  BY <1>2 DEF t

\* Every free function looks at the pointers its stage sets, and at nothing else.
LEMMA StagesAreFreed ==
  /\ ToSet(PageFrees) = ToSet(PageAllocs) /\ PageFrees \in Seq(ToSet(PageAllocs))
  /\ ToSet(SlabFrees) = ToSet(SlabAllocs) /\ SlabFrees \in Seq(ToSet(SlabAllocs))
  /\ ToSet(CustomFrees) = ToSet(CustomAllocs) /\ CustomFrees \in Seq(ToSet(CustomAllocs))
  /\ ToSet(CustomAllocs) = Inside \cup {Cache}
  /\ ToSet(VmallocFrees) = ToSet(VmallocAllocs) /\ VmallocFrees \in Seq(ToSet(VmallocAllocs))
<1>1. ToSet(PageFrees) = ToSet(PageAllocs) /\ PageFrees \in Seq(ToSet(PageAllocs))
  <2>1. ToSet(PageAllocs) = {Obj("one_page"), Obj("zero_page"), Obj("order_pages"),
                             Obj("page_desc"), Obj("exact_pages")}
    BY ToSetOfFive DEF PageAllocs
  <2>2. ToSet(PageFrees) = {Obj("exact_pages"), Obj("page_desc"), Obj("order_pages"),
                            Obj("zero_page"), Obj("one_page")}
    BY ToSetOfFive DEF PageFrees
  <2>3. ToSet(PageFrees) = ToSet(PageAllocs)
    BY <2>1, <2>2
  <2>4. PageFrees \in Seq({Obj("exact_pages"), Obj("page_desc"), Obj("order_pages"),
                           Obj("zero_page"), Obj("one_page")})
    BY FiveItems, Zenon DEF PageFrees
  <2> QED
    BY <2>2, <2>3, <2>4
<1>2. ToSet(SlabFrees) = ToSet(SlabAllocs) /\ SlabFrees \in Seq(ToSet(SlabAllocs))
  <2>1. ToSet(SlabAllocs) = {Obj("slab_buf"), Obj("slab_context")}
    BY ToSetOfTwo, Zenon DEF SlabAllocs
  <2>2. ToSet(SlabFrees) = {Obj("slab_context"), Obj("slab_buf")}
    BY ToSetOfTwo, Zenon DEF SlabFrees
  <2>3. ToSet(SlabFrees) = ToSet(SlabAllocs)
    BY <2>1, <2>2
  <2>4. SlabFrees \in Seq({Obj("slab_context"), Obj("slab_buf")})
    BY TwoItems, Zenon DEF SlabFrees
  <2> QED
    BY <2>2, <2>3, <2>4
<1>3. /\ ToSet(CustomFrees) = ToSet(CustomAllocs) /\ CustomFrees \in Seq(ToSet(CustomAllocs))
      /\ ToSet(CustomAllocs) = Inside \cup {Cache}
  <2> DEFINE S == Inside \cup {Cache}
  <2>1. <<Cache>> \in Seq(S) /\ CustomObjects \in Seq(S)
    BY ObjectsDiffer
  <2>2. ToSet(<<Cache>>) = {Cache}
    BY ToSetOfOne
  <2>3. ToSet(<<Cache>> \o CustomObjects) = {Cache} \cup Inside
    <3> HIDE DEF S
    <3>1. ToSet(<<Cache>> \o CustomObjects) = ToSet(<<Cache>>) \cup ToSet(CustomObjects)
      BY <2>1, ToSetOfBoth
    <3> QED
      BY <3>1, <2>2 DEF Inside
  <2>4. ToSet(CustomObjects \o <<Cache>>) = Inside \cup {Cache}
    <3> HIDE DEF S
    <3>1. ToSet(CustomObjects \o <<Cache>>) = ToSet(CustomObjects) \cup ToSet(<<Cache>>)
      BY <2>1, ToSetOfBoth
    <3> QED
      BY <3>1, <2>2 DEF Inside
  <2>5. CustomObjects \o <<Cache>> \in Seq(S)
    BY <2>1
  <2> QED
    BY <2>3, <2>4, <2>5 DEF CustomAllocs, CustomFrees, Cache
<1>4. ToSet(VmallocFrees) = ToSet(VmallocAllocs) /\ VmallocFrees \in Seq(ToSet(VmallocAllocs))
  <2>1. ToSet(VmallocAllocs) = {Obj("vbuf"), Obj("vzbuf")}
    BY ToSetOfTwo, Zenon DEF VmallocAllocs
  <2>2. ToSet(VmallocFrees) = {Obj("vzbuf"), Obj("vbuf")}
    BY ToSetOfTwo, Zenon DEF VmallocFrees
  <2>3. ToSet(VmallocFrees) = ToSet(VmallocAllocs)
    BY <2>1, <2>2
  <2>4. VmallocFrees \in Seq({Obj("vzbuf"), Obj("vbuf")})
    BY TwoItems, Zenon DEF VmallocFrees
  <2> QED
    BY <2>2, <2>3, <2>4
<1> QED
  BY <1>1, <1>2, <1>3, <1>4

\* The cache stays behind its objects when lists are put together the right way round.
LEMMA CacheLastOfBoth ==
  ASSUME NEW S, NEW s \in Seq(S), NEW t \in Seq(S), CacheLast(s), CacheLast(t),
         Cache \notin ToSet(s) \/ ToSet(t) \cap Inside = {}
  PROVE  CacheLast(s \o t)
<1> DEFINE u == s \o t
<1>1. /\ Len(u) = Len(s) + Len(t)
      /\ \A n \in 1 .. Len(s) : u[n] = s[n]
      /\ \A n \in 1 .. Len(u) : n > Len(s) => n - Len(s) \in 1 .. Len(t) /\ u[n] = t[n - Len(s)]
      /\ Len(s) \in Nat /\ Len(t) \in Nat /\ DOMAIN s = 1 .. Len(s) /\ DOMAIN t = 1 .. Len(t)
  OBVIOUS
<1>2. \A n \in 1 .. Len(s) : s[n] \in ToSet(s)
  BY <1>1 DEF ToSet
<1>3. \A n \in 1 .. Len(t) : t[n] \in ToSet(t)
  BY <1>1 DEF ToSet
<1> HIDE DEF u
<1>4. ASSUME NEW j \in 1 .. Len(u), NEW k \in 1 .. Len(u), j < k, u[j] = Cache
      PROVE  u[k] \notin Inside
  <2>1. CASE k <= Len(s)
    <3>1. j \in 1 .. Len(s) /\ k \in 1 .. Len(s)
      BY <1>1, <1>4, <2>1
    <3> QED
      BY <1>1, <1>4, <3>1 DEF CacheLast
  <2>2. CASE k > Len(s) /\ j <= Len(s)
    <3>1. j \in 1 .. Len(s)
      BY <1>1, <2>2
    <3>2. Cache \in ToSet(s) /\ u[k] \in ToSet(t)
      BY <1>1, <1>2, <1>3, <1>4, <2>2, <3>1
    <3> QED
      BY <3>2
  <2>3. CASE j > Len(s)
    <3>1. /\ j - Len(s) \in 1 .. Len(t) /\ t[j - Len(s)] = Cache
          /\ k - Len(s) \in 1 .. Len(t) /\ u[k] = t[k - Len(s)]
          /\ j - Len(s) < k - Len(s)
      BY <1>1, <1>4, <2>3
    <3> QED
      BY <3>1 DEF CacheLast
  <2> QED
    BY <1>1, <1>4, <2>1, <2>2, <2>3
<1>5. CacheLast(u)
  BY <1>4 DEF CacheLast
<1> QED
  BY <1>5 DEF u

\* A list without the cache, or without its objects.
LEMMA CacheLastWithout ==
  ASSUME NEW S, NEW s \in Seq(S), Cache \notin ToSet(s) \/ ToSet(s) \cap Inside = {}
  PROVE  CacheLast(s)
<1>1. \A n \in 1 .. Len(s) : s[n] \in ToSet(s)
  BY DEF ToSet
<1> QED
  BY <1>1 DEF CacheLast

LEMMA CacheLastOfTail ==
  ASSUME NEW S, NEW s \in Seq(S), s # <<>>, CacheLast(s)
  PROVE  /\ CacheLast(Tail(s))
         /\ Head(s) = Cache => ToSet(Tail(s)) \cap Inside = {}
<1>1. /\ Len(s) \in Nat \ {0} /\ Len(Tail(s)) = Len(s) - 1
      /\ \A n \in 1 .. Len(s) - 1 : Tail(s)[n] = s[n + 1] /\ n + 1 \in 1 .. Len(s)
      /\ Head(s) = s[1] /\ DOMAIN Tail(s) = 1 .. Len(s) - 1
  OBVIOUS
<1>2. CacheLast(Tail(s))
  BY <1>1 DEF CacheLast
<1>3. ASSUME Head(s) = Cache, NEW o \in ToSet(Tail(s)) PROVE o \notin Inside
  <2>1. PICK n \in 1 .. Len(s) - 1 : Tail(s)[n] = o
    BY <1>1, <1>3 DEF ToSet
  <2>2. n + 1 \in 1 .. Len(s) /\ s[n + 1] = o /\ 1 \in 1 .. Len(s) /\ 1 < n + 1 /\ s[1] = Cache
    BY <1>1, <1>3, <2>1
  <2> QED
    BY <2>2 DEF CacheLast
<1> QED
  BY <1>2, <1>3

\* The cache and its objects belong to the third stage.
LEMMA CacheBelongsToThird ==
  ASSUME NEW s \in {1, 2, 4}
  PROVE  Cache \notin ToSet(AllocOrder[s]) /\ ToSet(AllocOrder[s]) \cap Inside = {}
<1>1. ToSet(AllocOrder[3]) = Inside \cup {Cache}
  BY Stages, StagesAreFreed
<1>2. ASSUME NEW o \in ToSet(AllocOrder[s]), o \in ToSet(AllocOrder[3]) PROVE FALSE
  <2>1. PICK j \in 1 .. Len(AllocOrder[s]) : AllocOrder[s][j] = o
    BY <1>2, ItemsOfStage DEF ToSet
  <2>2. PICK k \in 1 .. Len(AllocOrder[3]) : AllocOrder[3][k] = o
    BY <1>2, ItemsOfStage DEF ToSet
  <2> QED
    BY <2>1, <2>2, AllocatedOnce
<1> QED
  BY <1>1, <1>2

\* free_custom_slab_cache() frees the objects before their cache.
LEMMA CustomFreesInOrder == CacheLast(CustomFrees)
<1> DEFINE S == Inside \cup {Cache}
<1>1. <<Cache>> \in Seq(S) /\ CustomObjects \in Seq(S)
  BY ObjectsDiffer
<1>2. Cache \notin ToSet(CustomObjects)
  BY ObjectsDiffer DEF Inside, Cache
<1>3. ToSet(<<Cache>>) = {Cache} /\ Cache \notin Inside
  BY ToSetOfOne, ObjectsDiffer DEF Cache
<1> HIDE DEF S
<1>4. CacheLast(CustomObjects) /\ CacheLast(<<Cache>>)
  BY <1>1, <1>2, <1>3, CacheLastWithout
<1>5. CacheLast(CustomObjects \o <<Cache>>)
  BY <1>1, <1>2, <1>3, <1>4, CacheLastOfBoth
<1> QED
  BY <1>5 DEF CustomFrees, Cache

\* What is freed before stage s holds the objects of all the stages before it.
LEMMA FreedBefore ==
  /\ FreesBefore[1] = <<>> /\ FreesBefore[2] = PageFrees
  /\ FreesBefore[3] = SlabFrees \o PageFrees
  /\ FreesBefore[4] = CustomFrees \o (SlabFrees \o PageFrees)
BY FourLists DEF FreesBefore

LEMMA UndoIsComplete ==
  ASSUME NEW s \in 1 .. 4
  PROVE  /\ FreesBefore[s] \in Seq(Objects)
         /\ \A t \in 1 .. s - 1 : ToSet(AllocOrder[t]) \subseteq ToSet(FreesBefore[s])
         /\ CacheLast(FreesBefore[s])
         /\ s <= 3 => Cache \notin ToSet(FreesBefore[s]) /\ ToSet(FreesBefore[s]) \cap Inside = {}
<1>1. /\ PageFrees \in Seq(Objects) /\ SlabFrees \in Seq(Objects)
      /\ CustomFrees \in Seq(Objects)
  <2>1. /\ ToSet(PageAllocs) \subseteq Objects /\ ToSet(SlabAllocs) \subseteq Objects
        /\ ToSet(CustomAllocs) \subseteq Objects
    BY ObjectsAreItems, Stages
  <2> QED
    BY <2>1, StagesAreFreed
<1>2. /\ Cache \notin ToSet(PageFrees) /\ ToSet(PageFrees) \cap Inside = {}
      /\ Cache \notin ToSet(SlabFrees) /\ ToSet(SlabFrees) \cap Inside = {}
  BY CacheBelongsToThird, Stages, StagesAreFreed
<1> DEFINE p == SlabFrees \o PageFrees
<1>3. p \in Seq(Objects) /\ ToSet(p) = ToSet(SlabFrees) \cup ToSet(PageFrees)
  BY <1>1, ToSetOfBoth
<1>4. CacheLast(PageFrees) /\ CacheLast(p)
  <2> HIDE DEF p
  <2> QED
    BY <1>1, <1>2, <1>3, CacheLastWithout
<1>5. CASE s = 1
  <2>1. FreesBefore[s] = <<>> /\ <<>> \in Seq(Objects) /\ ToSet(<<>>) = {}
    BY <1>5, FreedBefore DEF ToSet
  <2>2. CacheLast(<<>>)
    BY DEF CacheLast
  <2> QED
    BY <1>5, <2>1, <2>2
<1>6. CASE s = 2
  BY <1>1, <1>2, <1>4, <1>6, FreedBefore, Stages, StagesAreFreed
<1>7. CASE s = 3
  <2>1. FreesBefore[s] = p
    BY <1>7, FreedBefore
  <2> HIDE DEF p
  <2> QED
    BY <1>2, <1>3, <1>4, <1>7, <2>1, Stages, StagesAreFreed
<1>8. CASE s = 4
  <2>1. FreesBefore[s] = CustomFrees \o p
    BY <1>8, FreedBefore
  <2> HIDE DEF p
  <2>2. CustomFrees \o p \in Seq(Objects) /\ ToSet(CustomFrees \o p) = ToSet(CustomFrees) \cup ToSet(p)
    BY <1>1, <1>3, ToSetOfBoth
  <2>3. CacheLast(CustomFrees)
    BY CustomFreesInOrder
  <2>4. ToSet(p) \cap Inside = {}
    BY <1>2, <1>3
  <2>5. CacheLast(CustomFrees \o p)
    BY <1>1, <1>3, <1>4, <2>3, <2>4, CacheLastOfBoth
  <2> QED
    BY <1>3, <1>8, <2>1, <2>2, <2>5, Stages, StagesAreFreed
<1> QED
  BY <1>5, <1>6, <1>7, <1>8

\* The undo of stage s, with or without the failing stage's own pointers.
LEMMA UndoPlanned ==
  ASSUME NEW s \in 1 .. 4, NEW first \in BOOLEAN
  PROVE  /\ UndoPlan(s, first) \in Seq(Objects)
         /\ \A t \in 1 .. s - 1 : ToSet(AllocOrder[t]) \subseteq ToSet(UndoPlan(s, first))
         /\ ~first => ToSet(AllocOrder[s]) \subseteq ToSet(UndoPlan(s, first))
         /\ CacheLast(UndoPlan(s, first))
<1> DEFINE f == FreeOrder[s]  b == FreesBefore[s]
<1>1. /\ b \in Seq(Objects) /\ CacheLast(b)
      /\ \A t \in 1 .. s - 1 : ToSet(AllocOrder[t]) \subseteq ToSet(b)
      /\ s <= 3 => ToSet(b) \cap Inside = {}
  BY UndoIsComplete
<1>2. f \in Seq(ToSet(AllocOrder[s])) /\ ToSet(f) = ToSet(AllocOrder[s])
  <2>1. CASE s = 1
    BY <2>1, Stages, StagesAreFreed
  <2>2. CASE s = 2
    BY <2>2, Stages, StagesAreFreed
  <2>3. CASE s = 3
    BY <2>3, Stages, StagesAreFreed
  <2>4. CASE s = 4
    BY <2>4, Stages, StagesAreFreed
  <2> QED
    BY <2>1, <2>2, <2>3, <2>4
<1>3. f \in Seq(Objects)
  BY <1>2, ObjectsAreItems
<1>4. first => UndoPlan(s, first) = <<>> \o b
  BY DEF UndoPlan
<1>5. ~first => UndoPlan(s, first) = f \o b
  BY DEF UndoPlan
<1> HIDE DEF f, b
<1>6. CASE first
  <2>1. <<>> \o b = b
    BY <1>1
  <2> QED
    BY <1>1, <1>4, <1>6, <2>1
<1>7. CASE ~first
  <2>1. f \o b \in Seq(Objects) /\ ToSet(f \o b) = ToSet(f) \cup ToSet(b)
    BY <1>1, <1>3, ToSetOfBoth
  <2>2. CacheLast(f)
    <3>1. CASE s = 3
      BY <3>1, Stages, CustomFreesInOrder DEF f
    <3>2. CASE s # 3
      BY <1>2, <3>2, CacheBelongsToThird, CacheLastWithout
    <3> QED
      BY <3>1, <3>2
  <2>3. Cache \notin ToSet(f) \/ ToSet(b) \cap Inside = {}
    <3>1. CASE s = 4
      BY <1>2, <3>1, CacheBelongsToThird
    <3> QED
      BY <1>1, <3>1
  <2>4. CacheLast(f \o b)
    BY <1>1, <1>3, <2>2, <2>3, CacheLastOfBoth
  <2> QED
    BY <1>1, <1>2, <1>5, <1>7, <2>1, <2>4
<1> QED
  BY <1>6, <1>7

LEMMA KapiInitially == KapiInit => KapiInv
<1> SUFFICES ASSUME KapiInit PROVE KapiInv
  OBVIOUS
<1>1. 1 \in 1 .. Len(AllocOrder[1])
  BY ItemsOfStage
<1>2. live = [o \in Objects |-> IF o \in held THEN 1 ELSE 0]
  BY DEF KapiInit
<1> QED
  BY <1>1, <1>2 DEF KapiInit, KapiInv, KapiTypes

LEMMA InsmodKeeps ==
  ASSUME KapiInv, Insmod
  PROVE  KapiInv'
<1>1. 1 \in 1 .. Len(AllocOrder[1])
  BY ItemsOfStage
<1>2. held = {} /\ held' = {} /\ live' = live /\ stage' = 1 /\ item' = 1 /\ mod' = "init"
  BY DEF Insmod, KapiInv
<1>3. KapiTypes'
  BY <1>1, <1>2 DEF KapiInv, KapiTypes
<1>4. \A s \in 1 .. 4 : \A k \in 1 .. Len(AllocOrder[s]) : ~Before(s, k)'
  BY <1>2, ItemsOfStage DEF Before
<1> QED
  BY <1>2, <1>3, <1>4 DEF KapiInv

\* One more allocation: of an object that was not there.
LEMMA AllocatedNow ==
  ASSUME KapiInv, mod = "init",
         live' = [live EXCEPT ![Current] = @ + 1], held' = held \cup {Current}
  PROVE  /\ Current \in ToSet(AllocOrder[stage]) /\ Current \in Objects /\ Current \notin held
         /\ held' \subseteq Objects
         /\ live' = [o \in Objects |-> IF o \in held' THEN 1 ELSE 0]
         /\ held' \cap Inside # {} => Cache \in held'
<1>1. stage \in 1 .. 4 /\ item \in 1 .. Len(AllocOrder[stage])
  BY DEF KapiInv, KapiTypes
<1>2. Current \in ToSet(AllocOrder[stage]) /\ Current \in Objects
  BY <1>1, AllocatedIsObject DEF Current
<1>3. Current \notin held
  BY <1>1 DEF KapiInv, Before, Current
<1>4. live' = [o \in Objects |-> IF o \in held' THEN 1 ELSE 0]
  BY <1>2, <1>3 DEF KapiInv, KapiTypes
<1>5. held' \cap Inside # {} => Cache \in held'
  <2>1. CASE Current \in Inside
    <3>1. stage = 3
      BY <1>1, <1>2, <2>1, CacheBelongsToThird
    <3>2. Current # Cache
      BY <2>1, ObjectsDiffer DEF Cache
    <3>3. item # 1
      BY <3>1, <3>2, Stages, Items DEF Current
    <3>4. 1 \in 1 .. Len(AllocOrder[3]) /\ AllocOrder[3][1] = Cache /\ Before(3, 1)
      BY <1>1, <3>1, <3>3, ItemsOfStage, Stages, Items DEF Before
    <3> QED
      BY <3>4 DEF KapiInv
  <2>2. CASE Current \notin Inside
    BY <2>2 DEF KapiInv
  <2> QED
    BY <2>1, <2>2
<1> QED
  BY <1>2, <1>3, <1>4, <1>5 DEF KapiInv, KapiTypes

LEMMA AllocateKeeps ==
  ASSUME KapiInv, Allocate
  PROVE  KapiInv'
<1>1. /\ held' \subseteq Objects
      /\ live' = [o \in Objects |-> IF o \in held' THEN 1 ELSE 0]
      /\ held' \cap Inside # {} => Cache \in held'
  BY AllocatedNow DEF Allocate
<1>2. /\ stage \in 1 .. 4 /\ item \in 1 .. Len(AllocOrder[stage]) /\ mod = "init"
      /\ Len(AllocOrder[stage]) \in Nat /\ Len(AllocOrder) = 4
      /\ held' = held \cup {AllocOrder[stage][item]}
  BY ItemsOfStage, Stages DEF KapiInv, KapiTypes, Allocate, Current
<1>3. ASSUME NEW s \in 1 .. 4, NEW k \in 1 .. Len(AllocOrder[s])
      PROVE  AllocOrder[s][k] \in held' <=> Before(s, k) \/ (s = stage /\ k = item)
  <2>1. AllocOrder[s][k] \in held <=> Before(s, k)
    BY <1>2 DEF KapiInv
  <2>2. AllocOrder[s][k] = AllocOrder[stage][item] => s = stage /\ k = item
    BY <1>2, AllocatedOnce
  <2> QED
    BY <1>2, <2>1, <2>2
<1>4. CASE item < Len(AllocOrder[stage])
  <2>1. stage' = stage /\ item' = item + 1 /\ mod' = "init"
    BY <1>2, <1>4 DEF Allocate, NextStage
  <2>2. \A s \in 1 .. 4 : \A k \in 1 .. Len(AllocOrder[s]) :
          Before(s, k)' <=> Before(s, k) \/ (s = stage /\ k = item)
    BY <1>2, <2>1, ItemsOfStage DEF Before
  <2>3. KapiTypes'
    BY <1>1, <1>2, <1>4, <2>1 DEF KapiTypes
  <2> QED
    BY <1>1, <1>3, <2>1, <2>2, <2>3 DEF KapiInv
<1>5. CASE item = Len(AllocOrder[stage]) /\ stage < 4
  <2>1. stage' = stage + 1 /\ item' = 1 /\ mod' = "init"
    BY <1>2, <1>5 DEF Allocate, NextStage
  <2>2. \A s \in 1 .. 4 : \A k \in 1 .. Len(AllocOrder[s]) :
          Before(s, k)' <=> Before(s, k) \/ (s = stage /\ k = item)
    BY <1>2, <1>5, <2>1, ItemsOfStage DEF Before
  <2>3. KapiTypes'
    BY <1>1, <1>2, <1>5, <2>1, ItemsOfStage DEF KapiTypes
  <2> QED
    BY <1>1, <1>3, <2>1, <2>2, <2>3 DEF KapiInv
<1>6. CASE item = Len(AllocOrder[stage]) /\ stage = 4
  <2>1. stage' = stage /\ item' = item /\ mod' = "loaded"
    BY <1>2, <1>6 DEF Allocate, NextStage
  <2>2. KapiTypes'
    BY <1>1, <1>2, <2>1 DEF KapiTypes
  <2> QED
    BY <1>1, <2>1, <2>2 DEF KapiInv
<1> QED
  BY <1>2, <1>4, <1>5, <1>6

\* What kapi_init() holds is in the undo it starts.
LEMMA HeldIsUndone ==
  ASSUME KapiInv, mod = "init", NEW first \in BOOLEAN, first => item = 1
  PROVE  held \subseteq ToSet(UndoPlan(stage, first))
<1> SUFFICES ASSUME NEW o \in held PROVE o \in ToSet(UndoPlan(stage, first))
  OBVIOUS
<1>1. stage \in 1 .. 4 /\ item \in Nat /\ o \in Objects
  BY ItemsOfStage DEF KapiInv, KapiTypes
<1>2. PICK s \in 1 .. 4 : o \in ToSet(AllocOrder[s])
  BY <1>1, ObjectsAreItems
<1>3. PICK k \in 1 .. Len(AllocOrder[s]) : o = AllocOrder[s][k]
  BY <1>2, ItemsOfStage DEF ToSet
<1>4. Before(s, k)
  BY <1>3 DEF KapiInv
<1>5. CASE s < stage
  BY <1>1, <1>2, <1>5, UndoPlanned
<1>6. CASE s = stage /\ k < item
  <2>1. ~first
    BY <1>1, <1>6
  <2> QED
    BY <1>1, <1>2, <1>6, <2>1, UndoPlanned
<1> QED
  BY <1>4, <1>5, <1>6 DEF Before

LEMMA AllocateFailsKeeps ==
  ASSUME KapiInv, AllocateFails
  PROVE  KapiInv'
<1>1. stage \in 1 .. 4 /\ (item = 1) \in BOOLEAN
  BY DEF KapiInv, KapiTypes
<1>2. held \subseteq ToSet(UndoPlan(stage, item = 1))
  BY HeldIsUndone DEF AllocateFails
<1>3. UndoPlan(stage, item = 1) \in Seq(Objects) /\ CacheLast(UndoPlan(stage, item = 1))
  BY <1>1, UndoPlanned
<1>4. KapiTypes'
  BY DEF KapiInv, KapiTypes, AllocateFails
<1> QED
  BY <1>2, <1>3, <1>4 DEF KapiInv, AllocateFails, CacheLast

LEMMA NoDirectMappingKeeps ==
  ASSUME KapiInv, NoDirectMapping
  PROVE  KapiInv'
<1>1. stage \in 1 .. 4
  BY DEF KapiInv, KapiTypes
<1>2. /\ Current \in ToSet(AllocOrder[stage])
      /\ held' \subseteq Objects
      /\ live' = [o \in Objects |-> IF o \in held' THEN 1 ELSE 0]
      /\ held' \cap Inside # {} => Cache \in held'
  BY AllocatedNow DEF NoDirectMapping
<1>3. held \subseteq ToSet(UndoPlan(stage, FALSE))
  BY HeldIsUndone DEF NoDirectMapping
<1>4. /\ UndoPlan(stage, FALSE) \in Seq(Objects) /\ CacheLast(UndoPlan(stage, FALSE))
      /\ ToSet(AllocOrder[stage]) \subseteq ToSet(UndoPlan(stage, FALSE))
  BY <1>1, UndoPlanned
<1>5. /\ held' = held \cup {Current} /\ todo' = UndoPlan(stage, FALSE) /\ mod' = "undo"
      /\ stage' = stage /\ item' = item
  BY DEF NoDirectMapping
<1>6. held' \subseteq ToSet(todo')
  BY <1>2, <1>3, <1>4, <1>5
<1>7. KapiTypes'
  BY <1>2, <1>5 DEF KapiInv, KapiTypes
<1> QED
  BY <1>2, <1>4, <1>5, <1>6, <1>7 DEF KapiInv, CacheLast

\* kapi_exit() looks at every pointer.
LEMMA RmmodKeeps ==
  ASSUME KapiInv, Rmmod
  PROVE  KapiInv'
<1>1. UndoPlan(4, FALSE) = VmallocFrees \o FreesBefore[4]
  BY Stages DEF UndoPlan
<1>2. /\ UndoPlan(4, FALSE) \in Seq(Objects) /\ CacheLast(UndoPlan(4, FALSE))
      /\ \A s \in 1 .. 4 : ToSet(AllocOrder[s]) \subseteq ToSet(UndoPlan(4, FALSE))
  <2>1. 4 \in 1 .. 4 /\ FALSE \in BOOLEAN
    OBVIOUS
  <2>2. /\ UndoPlan(4, FALSE) \in Seq(Objects) /\ CacheLast(UndoPlan(4, FALSE))
        /\ \A s \in 1 .. 4 - 1 : ToSet(AllocOrder[s]) \subseteq ToSet(UndoPlan(4, FALSE))
        /\ ~FALSE => ToSet(AllocOrder[4]) \subseteq ToSet(UndoPlan(4, FALSE))
    BY <2>1, UndoPlanned, Zenon
  <2>3. \A s \in 1 .. 4 : s \in 1 .. 4 - 1 \/ s = 4
    OBVIOUS
  <2> QED
    BY <2>2, <2>3
<1>3. Objects \subseteq ToSet(UndoPlan(4, FALSE))
  BY <1>2, ObjectsAreItems
<1>4. KapiTypes'
  BY DEF KapiInv, KapiTypes, Rmmod
<1>5. todo' = UndoPlan(4, FALSE) /\ held' = held /\ mod' = "exit"
  BY <1>1 DEF Rmmod
<1>6. held \subseteq Objects
  BY DEF KapiInv, KapiTypes
<1> QED
  BY <1>2, <1>3, <1>4, <1>5, <1>6 DEF KapiInv, CacheLast

\* A pointer is freed if it is set; the cache only when none of its objects is left.
LEMMA FreeOneKeeps ==
  ASSUME KapiInv, FreeOne
  PROVE  KapiInv'
<1> DEFINE o == Head(todo)
<1>1. /\ todo \in Seq(Objects) /\ todo # <<>> /\ held \subseteq ToSet(todo) /\ CacheLast(todo)
      /\ mod' = mod /\ mod \in {"undo", "exit"} /\ todo' = Tail(todo)
  BY DEF KapiInv, FreeOne
<1>2. /\ Tail(todo) \in Seq(Objects) /\ o \in Objects
      /\ ToSet(todo) = {o} \cup ToSet(Tail(todo))
  BY <1>1, ToSetOfTail
<1>3. CacheLast(Tail(todo)) /\ (o = Cache => ToSet(Tail(todo)) \cap Inside = {})
  BY <1>1, CacheLastOfTail
<1>4. held' = held \ {o}
  BY DEF FreeOne
<1>5. live' = [x \in Objects |-> IF x \in held' THEN 1 ELSE 0]
  <2>1. CASE o \in held
    BY <1>2, <1>4, <2>1 DEF FreeOne, KapiInv, KapiTypes
  <2>2. CASE o \notin held
    BY <1>4, <2>2 DEF FreeOne, KapiInv, KapiTypes
  <2> QED
    BY <2>1, <2>2
<1> HIDE DEF o
<1>6. held' \subseteq ToSet(Tail(todo))
  BY <1>1, <1>2, <1>4
<1>7. held' \cap Inside # {} => Cache \in held'
  BY <1>3, <1>4, <1>6 DEF KapiInv
<1>8. KapiTypes'
  BY <1>4, <1>5 DEF KapiInv, KapiTypes, FreeOne
<1> QED
  BY <1>1, <1>2, <1>3, <1>6, <1>7, <1>8 DEF KapiInv, CacheLast

\* Nothing is left to look at, so nothing is held.
LEMMA CleanedUpKeeps ==
  ASSUME KapiInv, CleanedUp
  PROVE  KapiInv'
<1>1. todo = <<>> /\ held \subseteq ToSet(todo)
  BY DEF KapiInv, CleanedUp
<1>2. ToSet(<<>>) = {}
  BY DEF ToSet
<1>3. held = {} /\ held' = {} /\ mod' = "absent"
  BY <1>1, <1>2 DEF CleanedUp
<1>4. KapiTypes'
  BY DEF KapiInv, KapiTypes, CleanedUp
<1> QED
  BY <1>3, <1>4 DEF KapiInv

LEMMA KapiInvariant == ModuleSpec => []KapiInv
<1>1. KapiInv /\ [ModuleNext]_module_vars => KapiInv'
  <2> SUFFICES ASSUME KapiInv, [ModuleNext]_module_vars PROVE KapiInv'
    OBVIOUS
  <2>1. CASE UNCHANGED kapi_vars
    BY <2>1 DEF kapi_vars, KapiInv, KapiTypes, Before, CacheLast
  <2> QED
    BY <2>1, InsmodKeeps, AllocateKeeps, AllocateFailsKeeps, NoDirectMappingKeeps, RmmodKeeps,
       FreeOneKeeps, CleanedUpKeeps
       DEF ModuleNext, Load, PrintTable, RunStages, Unload, module_vars
<1>2. ModuleInit => KapiInv
  BY KapiInitially DEF ModuleInit
<1> QED
  BY <1>1, <1>2, PTL DEF ModuleSpec

(* For every number of cache objects, every number of insertions and every allocation that
   fails: a module that is not loaded owns nothing, and the custom cache outlives its
   objects. *)
THEOREM ModuleNeverLeaks == ModuleSpec => []NoLeak
<1>1. KapiInv => NoLeak
  <2> SUFFICES ASSUME KapiInv PROVE NoLeak
    OBVIOUS
  <2>1. \A x \in Objects : live[x] = IF x \in held THEN 1 ELSE 0
    BY DEF KapiInv, KapiTypes
  <2>2. mod = "absent" => \A x \in Objects : live[x] = 0
    BY <2>1 DEF KapiInv
  <2>3. ASSUME NEW n \in 1 .. CacheObjects, live[CustomObjects[n]] > 0
        PROVE  live[Cache] = 1
    <3>1. ToSet(AllocOrder[3]) = Inside \cup {Cache}
      BY Stages, StagesAreFreed
    <3>2. CustomObjects[n] \in Inside /\ CustomObjects[n] \in Objects /\ Cache \in Objects
      BY <3>1, ObjectsDiffer, ObjectsAreItems
    <3>3. CustomObjects[n] \in held
      BY <2>1, <2>3, <3>2
    <3>4. Cache \in held
      BY <3>2, <3>3 DEF KapiInv
    <3> QED
      BY <2>1, <3>2, <3>4
  <2> QED
    BY <2>2, <2>3 DEF NoLeak, Cache
<1> QED
  BY KapiInvariant, <1>1, PTL


-----------------------------------------------------------------------------
(* The address-space table: print_global_constants() prints no holes, and calls nothing
   reserved that it lists. *)

(* LayoutInv's parts, so that a proof step can name one. *)
CoveredBelow == \A a \in 0 .. Top - 1 : a < cursor => \E r \in gaps \cup spans : Covers(r, a)
AllCovered   == done => \A a \in 0 .. Top - 1 : \E r \in gaps \cup spans : Covers(r, a)
DoneAtEnd    == done => i = Count + 1
PrintedBelow == \A k \in 1 .. Count : k < i => regions[k].end <= cursor
GapsBetween  ==
  Sorted => \A g \in gaps, k \in 1 .. Count :
              \/ k < i /\ (regions[k].end <= g.start \/ g.end <= regions[k].start)
              \/ k >= i /\ g.end <= regions[k].start

LEMMA LayoutInvParts ==
  LayoutInv <=> /\ LayoutTypeOK
                /\ CoveredBelow
                /\ AllCovered
                /\ DoneAtEnd
                /\ PrintedBelow
                /\ GapsBetween
BY DEF LayoutInv, CoveredBelow, AllCovered, DoneAtEnd, PrintedBelow, GapsBetween

(* print_region() reports the region itself, or nothing. *)
LEMMA NonEmptyRegion ==
  ASSUME NEW r \in Region
  PROVE  /\ NonEmpty(r) \subseteq Region
         /\ \A x \in NonEmpty(r) : x = r
         /\ \A a \in Nat : Covers(r, a) => r \in NonEmpty(r)
BY LayoutAssumption DEF NonEmpty, Region, Covers

LEMMA LayoutInitially == LayoutInit => LayoutInv
<1> SUFFICES ASSUME LayoutInit PROVE LayoutInv
  OBVIOUS
<1>1. LayoutTypeOK
  <2>1. i \in 1 .. Count + 1 /\ cursor \in 0 .. Top
    BY LayoutAssumption DEF LayoutInit
  <2>2. done \in BOOLEAN
    BY Zenon DEF LayoutInit
  <2>3. QED
    BY <2>1, <2>2 DEF LayoutInit, LayoutTypeOK
<1>2. CoveredBelow /\ PrintedBelow
  BY LayoutAssumption DEF LayoutInit, CoveredBelow, PrintedBelow
<1>3. AllCovered /\ DoneAtEnd
  BY DEF LayoutInit, AllCovered, DoneAtEnd
<1>4. GapsBetween
  BY DEF LayoutInit, GapsBetween
<1>5. QED
  BY <1>1, <1>2, <1>3, <1>4, LayoutInvParts

(* One turn of the loop keeps the invariant. *)
LEMMA PrintRegionKeeps == LayoutInv /\ PrintRegion => LayoutInv'
<1> SUFFICES ASSUME LayoutInv, PrintRegion PROVE LayoutInv'
  OBVIOUS
<1> DEFINE r == regions[i]
           g == [start |-> cursor, end |-> r.start]
<1>1. /\ i \in 1 .. Count
      /\ r \in Region
      /\ g \in Region
      /\ cursor \in 0 .. Top
  BY LayoutAssumption DEF LayoutInv, LayoutTypeOK, PrintRegion, Region
<1>2. /\ gaps' = gaps \cup NonEmpty(g)
      /\ spans' = spans \cup NonEmpty(r)
      /\ cursor' = IF r.end > cursor THEN r.end ELSE cursor
      /\ i' = i + 1
      /\ regions' = regions /\ done' = done
  BY DEF PrintRegion
<1>3. ~done
  BY <1>1, LayoutAssumption DEF LayoutInv
<1>4. LayoutTypeOK'
  <2>1. gaps' \subseteq Region /\ spans' \subseteq Region
    BY <1>1, <1>2, NonEmptyRegion DEF LayoutInv, LayoutTypeOK
  <2>2. cursor' \in 0 .. Top /\ i' \in 1 .. Count + 1
    BY <1>1, <1>2, LayoutAssumption DEF Region
  <2>3. QED
    BY <2>1, <2>2, <1>2 DEF LayoutInv, LayoutTypeOK
<1>5. CoveredBelow'
  <2> SUFFICES ASSUME NEW a \in 0 .. Top - 1, a < cursor'
               PROVE  \E x \in gaps' \cup spans' : Covers(x, a)
    BY DEF CoveredBelow, Covers
  <2>1. CASE a < cursor
    BY <2>1, <1>2 DEF LayoutInv
  <2>2. CASE a >= cursor /\ a < r.start
    <3>1. Covers(g, a)
      BY <2>2 DEF Covers
    <3>2. QED
      BY <3>1, <1>1, <1>2, NonEmptyRegion, LayoutAssumption
  <2>3. CASE a >= cursor /\ a >= r.start
    <3>1. Covers(r, a)
      BY <2>3, <1>1, <1>2, LayoutAssumption DEF Covers, Region
    <3>2. QED
      BY <3>1, <1>1, <1>2, NonEmptyRegion, LayoutAssumption
  <2>4. QED
    BY <2>1, <2>2, <2>3, <1>1, LayoutAssumption DEF Region
<1>6. AllCovered' /\ DoneAtEnd'
  BY <1>2, <1>3 DEF AllCovered, DoneAtEnd
<1>7. PrintedBelow'
  <2> SUFFICES ASSUME NEW k \in 1 .. Count, k < i' PROVE regions[k].end <= cursor'
    BY <1>2 DEF PrintedBelow
  <2>1. CASE k = i
    BY <2>1, <1>1, <1>2, LayoutAssumption DEF Region
  <2>2. CASE k < i
    <3>1. regions[k].end <= cursor /\ regions[k].end \in 0 .. Top
      BY <2>2 DEF LayoutInv, LayoutTypeOK, Region
    <3>2. QED
      BY <3>1, <1>1, <1>2, LayoutAssumption DEF Region
  <2>3. QED
    BY <2>1, <2>2, <1>1, <1>2, LayoutAssumption
<1>8. GapsBetween'
  <2> SUFFICES ASSUME Sorted, NEW x \in gaps', NEW k \in 1 .. Count
               PROVE  \/ k < i' /\ (regions[k].end <= x.start \/ x.end <= regions[k].start)
                      \/ k >= i' /\ x.end <= regions[k].start
    BY <1>2 DEF GapsBetween, Sorted
  <2>1. CASE x \in gaps
    <3>1. \/ k < i /\ (regions[k].end <= x.start \/ x.end <= regions[k].start)
          \/ k >= i /\ x.end <= regions[k].start
      BY <2>1 DEF LayoutInv
    <3>2. QED
      BY <3>1, <1>1, <1>2, LayoutAssumption
  <2>2. CASE x \in NonEmpty(g)
    <3>1. x.start = cursor /\ x.end = regions[i].start
      BY <2>2, <1>1, NonEmptyRegion
    <3>2. k < i => regions[k].end <= cursor
      BY DEF LayoutInv
    <3>3. k >= i => regions[i].start <= regions[k].start
      BY <1>1 DEF Sorted
    <3>4. QED
      BY <3>1, <3>2, <3>3, <1>1, <1>2, LayoutAssumption
  <2>3. QED
    BY <2>1, <2>2, <1>2
<1>9. QED
  BY <1>4, <1>5, <1>6, <1>7, <1>8
     DEF LayoutInv, CoveredBelow, AllCovered, DoneAtEnd, PrintedBelow, GapsBetween

(* The line above the last region completes the table. *)
LEMMA PrintTopKeeps == LayoutInv /\ PrintTop => LayoutInv'
<1> SUFFICES ASSUME LayoutInv, PrintTop PROVE LayoutInv'
  OBVIOUS
<1> DEFINE g == [start |-> cursor, end |-> Top]
<1>1. /\ cursor \in 0 .. Top
      /\ g \in Region
  BY LayoutAssumption DEF LayoutInv, LayoutTypeOK, Region
<1>2. /\ gaps' = gaps \cup NonEmpty(g)
      /\ spans' = spans /\ cursor' = cursor /\ i' = i /\ regions' = regions
      /\ i = Count + 1
      /\ done' = TRUE
  BY DEF PrintTop
<1>3. LayoutTypeOK'
  BY <1>1, <1>2, NonEmptyRegion DEF LayoutInv, LayoutTypeOK
<1>4. \A a \in 0 .. Top - 1 : \E x \in gaps' \cup spans' : Covers(x, a)
  <2> SUFFICES ASSUME NEW a \in 0 .. Top - 1
               PROVE  \E x \in gaps' \cup spans' : Covers(x, a)
    OBVIOUS
  <2>1. CASE a < cursor
    BY <2>1, <1>2 DEF LayoutInv
  <2>2. CASE a >= cursor
    <3>1. Covers(g, a)
      BY <2>2, LayoutAssumption DEF Covers
    <3>2. QED
      BY <3>1, <1>1, <1>2, NonEmptyRegion, LayoutAssumption
  <2>3. QED
    BY <2>1, <2>2, <1>1, LayoutAssumption
<1>5. PrintedBelow'
  BY <1>2 DEF LayoutInv, PrintedBelow
<1>6. GapsBetween'
  <2> SUFFICES ASSUME Sorted, NEW x \in gaps', NEW k \in 1 .. Count
               PROVE  \/ k < i /\ (regions[k].end <= x.start \/ x.end <= regions[k].start)
                      \/ k >= i /\ x.end <= regions[k].start
    BY <1>2 DEF GapsBetween, Sorted
  <2>1. CASE x \in gaps
    BY <2>1 DEF LayoutInv
  <2>2. CASE x \in NonEmpty(g)
    <3>1. x.start = cursor /\ k < i
      BY <2>2, <1>1, <1>2, NonEmptyRegion, LayoutAssumption
    <3>2. QED
      BY <3>1 DEF LayoutInv
  <2>3. QED
    BY <2>1, <2>2, <1>2
<1>7. QED
  BY <1>2, <1>3, <1>4, <1>5, <1>6
     DEF LayoutInv, Covers, PrintedBelow, GapsBetween

LEMMA LayoutInvariant == LayoutSpec => []LayoutInv
<1>1. LayoutInv /\ [LayoutNext]_layout_vars => LayoutInv'
  <2> SUFFICES ASSUME LayoutInv, [LayoutNext]_layout_vars PROVE LayoutInv'
    OBVIOUS
  <2>1. CASE PrintRegion
    BY <2>1, PrintRegionKeeps
  <2>2. CASE PrintTop
    BY <2>2, PrintTopKeeps
  <2>3. CASE UNCHANGED layout_vars
    BY <2>3 DEF layout_vars, LayoutInv, LayoutTypeOK, Sorted, Covers
  <2>4. QED
    BY <2>1, <2>2, <2>3 DEF LayoutNext
<1>2. QED
  BY LayoutInitially, <1>1, PTL DEF LayoutSpec

-----------------------------------------------------------------------------
(* The lines print_global_constants() prints cover every address below ULONG_MAX, for any
   number of regions with any bounds. *)
THEOREM TableAlwaysCovers == LayoutSpec => []TableCovers
<1>1. LayoutInv => TableCovers
  BY DEF LayoutInv, TableCovers
<1>2. QED
  BY <1>1, LayoutInvariant, PTL

(* With the regions listed by start, no reserved gap it prints overlaps a region of the
   table. *)
THEOREM GapsAlwaysUnclaimed == LayoutSpec => []GapsAreUnclaimed
<1>1. LayoutInv => GapsAreUnclaimed
  <2> SUFFICES ASSUME LayoutInv, Sorted, NEW g \in gaps, NEW k \in 1 .. Count,
                      NEW a \in 0 .. Top - 1, Covers(g, a), Covers(regions[k], a)
               PROVE  FALSE
    BY DEF GapsAreUnclaimed
  <2>1. g \in Region /\ regions[k] \in Region
    BY DEF LayoutInv, LayoutTypeOK
  <2>2. regions[k].end <= g.start \/ g.end <= regions[k].start
    BY DEF LayoutInv
  <2>3. QED
    BY <2>1, <2>2, LayoutAssumption DEF Covers, Region
<1>2. QED
  BY <1>1, LayoutInvariant, PTL

-----------------------------------------------------------------------------
(* The trace of the virt-vtd observer *)

VtdFields == VtdMaps \cup {"request_counter", "guest_control", "out", "full", "lost"}

ProperVtd(b) == DOMAIN b = VtdFields /\ b.lost \in BOOLEAN

(***************************************************************************)
(* What one program does to the state b it finds: it tells rs, and its map *)
(* m holds v at key k afterwards.                                          *)
(***************************************************************************)
Effect(b, u, rs, m, k, v) ==
  /\ ProperVtd(u)
  /\ ~u.lost => /\ ~b.lost /\ u.out = rs
                /\ u.request_counter = b.request_counter /\ u.guest_control = b.guest_control
                /\ Here(u, m, k) = v
                /\ \A n \in VtdMaps : \A j : n # m \/ j # k => Here(u, n, j) = Here(b, n, j)

\* Whatever a program finds, it keeps the fields and never forgets a loss.
Lasting(b, u) == ProperVtd(u) /\ (b.lost => u.lost)

LEMMA OneRecord == \A r : Append(<<>>, r) = <<r>>
OBVIOUS

LEMMA FieldNames ==
  /\ VtdMaps \subseteq VtdFields
  /\ {"request_counter", "guest_control", "out", "full", "lost"} \subseteq VtdFields
  /\ \A m \in VtdMaps : m \notin {"request_counter", "guest_control", "out", "full", "lost"}
BY DEF VtdFields, VtdMaps

LEMMA NoEffect ==
  ASSUME NEW b, ProperVtd(b), b.out = <<>>, NEW m, NEW k
  PROVE  Effect(b, b, <<>>, m, k, Here(b, m, k))
BY DEF Effect

LEMMA SayEffect ==
  ASSUME NEW b, ProperVtd(b), b.out = <<>>, NEW m \in VtdMaps, NEW k, NEW r, NEW u, u = lab_output(b, r)
  PROVE  Effect(b, u, <<r>>, m, k, Here(b, m, k))
<1>1. /\ DOMAIN u = DOMAIN b /\ u.lost \in BOOLEAN
      /\ \A f \in DOMAIN b : f # "out" /\ f # "lost" => u[f] = b[f]
      /\ ~u.lost => ~b.lost
      /\ ~u.lost => u.out = Append(b.out, r)
  BY FieldNames, Told DEF ProperVtd
<1>2. ~u.lost => u.out = <<r>>
  BY <1>1, OneRecord
<1>3. u.request_counter = b.request_counter /\ u.guest_control = b.guest_control
  BY <1>1, FieldNames DEF ProperVtd
<1>4. \A n \in VtdMaps : \A j : Here(u, n, j) = Here(b, n, j)
  <2> TAKE n \in VtdMaps
  <2> TAKE j
  <2>1. u[n] = b[n]
    BY <1>1, FieldNames DEF ProperVtd
  <2> QED
    BY <2>1 DEF Here
<1>5. m \in VtdMaps => Here(u, m, k) = Here(b, m, k)
  BY <1>4
<1> QED
  BY <1>1, <1>2, <1>3, <1>4, <1>5 DEF Effect, ProperVtd

LEMMA PutEffect ==
  ASSUME NEW b, ProperVtd(b), b.out = <<>>, NEW m \in VtdMaps, NEW k, NEW v,
         NEW u, u = lab_map_update(b, m, k, v)
  PROVE  Effect(b, u, <<>>, m, k, {v})
<1>1. /\ DOMAIN u = DOMAIN b /\ u.lost \in BOOLEAN
      /\ \A f \in DOMAIN b : f # m /\ f # "lost" => u[f] = b[f]
      /\ ~u.lost => ~b.lost
      /\ ~u.lost => Here(u, m, k) = {v}
      /\ ~u.lost => \A j : j # k => Here(u, m, j) = Here(b, m, j)
  BY FieldNames, Updated DEF ProperVtd
<1>2. u.request_counter = b.request_counter /\ u.guest_control = b.guest_control /\ u.out = b.out
  BY <1>1, FieldNames DEF ProperVtd
<1>3. \A n \in VtdMaps : n # m => u[n] = b[n]
  BY <1>1, FieldNames DEF ProperVtd
<1>4. \A n \in VtdMaps : \A j : n # m => Here(u, n, j) = Here(b, n, j)
  BY <1>3 DEF Here
<1> QED
  BY <1>1, <1>2, <1>4 DEF Effect, ProperVtd

\* A record, then an update, or the other way round.
LEMMA PutAndSay ==
  ASSUME NEW b, ProperVtd(b), b.out = <<>>, NEW m \in VtdMaps, NEW k, NEW v, NEW r,
         NEW u, u = lab_output(lab_map_update(b, m, k, v), r)
  PROVE  Effect(b, u, <<r>>, m, k, {v})
<1> DEFINE p == lab_map_update(b, m, k, v)
<1>1. /\ DOMAIN p = DOMAIN b /\ p.lost \in BOOLEAN
      /\ \A f \in DOMAIN b : f # m /\ f # "lost" => p[f] = b[f]
      /\ ~p.lost => ~b.lost
      /\ ~p.lost => Here(p, m, k) = {v}
      /\ ~p.lost => \A j : j # k => Here(p, m, j) = Here(b, m, j)
  BY FieldNames, Updated DEF ProperVtd
<1>2. u = lab_output(p, r)
  OBVIOUS
<1> HIDE DEF p
<1>3. ProperVtd(p) /\ p.out = <<>>
  BY <1>1, FieldNames DEF ProperVtd
<1>4. Effect(p, u, <<r>>, m, k, Here(p, m, k))
  BY <1>2, <1>3, SayEffect
<1>5. p.request_counter = b.request_counter /\ p.guest_control = b.guest_control
  BY <1>1, FieldNames DEF ProperVtd
<1>6. \A n \in VtdMaps : n # m => p[n] = b[n]
  BY <1>1, FieldNames DEF ProperVtd
<1>7. \A n \in VtdMaps : \A j : n # m => Here(p, n, j) = Here(b, n, j)
  BY <1>6 DEF Here
<1> QED
  BY <1>1, <1>4, <1>5, <1>7 DEF Effect

LEMMA SayAndDrop ==
  ASSUME NEW b, ProperVtd(b), b.out = <<>>, NEW m \in VtdMaps, NEW k, NEW r,
         NEW u, u = bpf_map_delete_elem(lab_output(b, r), m, k)
  PROVE  Effect(b, u, <<r>>, m, k, {})
<1> DEFINE p == lab_output(b, r)
<1>1. Effect(b, p, <<r>>, m, k, Here(b, m, k))
  BY SayEffect
<1>2. u = bpf_map_delete_elem(p, m, k)
  OBVIOUS
<1> HIDE DEF p
<1>3. m \in DOMAIN p /\ ProperVtd(p)
  BY <1>1, FieldNames DEF Effect, ProperVtd
<1>4. /\ DOMAIN u = DOMAIN p
      /\ \A f \in DOMAIN p : f # m => u[f] = p[f]
      /\ Here(u, m, k) = {}
      /\ \A j : j # k => Here(u, m, j) = Here(p, m, j)
  BY <1>2, <1>3, Deleted
<1>5. /\ u.request_counter = p.request_counter /\ u.guest_control = p.guest_control
      /\ u.out = p.out /\ u.lost = p.lost
  BY <1>3, <1>4, FieldNames DEF ProperVtd
<1>6. \A n \in VtdMaps : n # m => u[n] = p[n]
  BY <1>3, <1>4, FieldNames DEF ProperVtd
<1>7. \A n \in VtdMaps : \A j : n # m => Here(u, n, j) = Here(p, n, j)
  BY <1>6 DEF Here
<1>8. ProperVtd(u)
  BY <1>3, <1>4, <1>5 DEF ProperVtd
<1> QED
  BY <1>1, <1>4, <1>5, <1>7, <1>8 DEF Effect

\* Records, field by field.
EventFields == {"kind", "operation", "args", "result", "phase"}

IsRecord(s, k, o, a, r, p) ==
  /\ DOMAIN s = EventFields /\ s.kind = k /\ s.operation = o /\ s.args = a /\ s.result = r
  /\ s.phase = p

LEMMA RecordIs ==
  ASSUME NEW s, s = [f \in EventFields |-> s[f]]
  PROVE  s = Say(s.kind, s.operation, s.args, s.result, s.phase)
BY DEF Say, EventFields

LEMMA EventIsRecord ==
  ASSUME NEW b, NEW kind
  PROVE  IsRecord(Event(b, kind), kind, NoOperation, <<>>, None, b.guest_control.phase)
BY DEF Event, EventFields, IsRecord

LEMMA RecordSays ==
  ASSUME NEW s, NEW k, NEW o, NEW a, NEW r, NEW p, IsRecord(s, k, o, a, r, p),
         s = [f \in EventFields |-> s[f]]
  PROVE  s = Say(k, o, a, r, p)
BY RecordIs DEF IsRecord

-----------------------------------------------------------------------------
\* One program on the host, by what its maps hold for the thread.
LEMMA EnterIoctl ==
  ASSUME NEW b, ProperVtd(b), b.out = <<>>, NEW t, NEW a, NEW u, u = enter_ioctl(b, t, a),
         NEW p, p = b.guest_control.phase, NEW id, id = b.request_counter + 1,
         NEW b1, b1 = [b EXCEPT !.request_counter = id]
  PROVE  /\ ~Followed(t, a.cmd) => u = b
         /\ Followed(t, a.cmd) =>
              Effect(b1, u, <<Say("IOCTL_ENTER", Sample(a, id), <<>>, None, p)>>,
                     "active_operations", t, {Sample(a, id)})
<1> DEFINE op == Sample(a, id)
           r  == [Event(b, "IOCTL_ENTER") EXCEPT !.operation = op]
<1>1. IsRecord(r, "IOCTL_ENTER", op, <<>>, None, p)
  BY EventIsRecord DEF EventFields, IsRecord
<1>2. r = [f \in EventFields |-> r[f]]
  BY EventIsRecord DEF IsRecord
<1>3. ~Followed(t, a.cmd) => u = b
  BY DEF enter_ioctl, Followed
<1>4. Followed(t, a.cmd) => u = lab_output(lab_map_update(b1, "active_operations", t, op), r)
  BY DEF enter_ioctl, Followed, reserve_event
<1>5. ProperVtd(b1) /\ b1.out = <<>>
  BY FieldNames DEF ProperVtd
<1> HIDE DEF r
<1>6. Followed(t, a.cmd) => Effect(b1, u, <<r>>, "active_operations", t, {op})
  BY <1>4, <1>5, PutAndSay DEF VtdMaps
<1>7. r = Say("IOCTL_ENTER", op, <<>>, None, p)
  BY <1>1, <1>2, RecordSays
<1> QED
  BY <1>3, <1>6, <1>7

LEMMA ExitIoctl ==
  ASSUME NEW b, ProperVtd(b), b.out = <<>>, NEW t, NEW u, u = exit_ioctl(b, t, 0),
         NEW p, p = b.guest_control.phase
  PROVE  /\ Here(b, "active_operations", t) = {} => u = b
         /\ \A v : Here(b, "active_operations", t) = {v} /\ t \in Qemu =>
              Effect(b, u, <<Say("IOCTL_EXIT", v, <<>>, 0, p)>>, "active_operations", t, {})
<1>1. Here(b, "active_operations", t) = {} => u = b
  BY HereIsHas DEF exit_ioctl
<1>2. ASSUME NEW v, Here(b, "active_operations", t) = {v}, t \in Qemu
      PROVE  Effect(b, u, <<Say("IOCTL_EXIT", v, <<>>, 0, p)>>, "active_operations", t, {})
  <2> DEFINE r == [Event(b, "IOCTL_EXIT") EXCEPT !.operation = b.active_operations[t], !.result = 0]
  <2>1. Has(b, "active_operations", t) /\ b.active_operations[t] = v
    BY <1>2, HereIsGet
  <2>2. IsRecord(r, "IOCTL_EXIT", v, <<>>, 0, p)
    BY <2>1, EventIsRecord DEF EventFields, IsRecord
  <2>3. r = [f \in EventFields |-> r[f]]
    BY EventIsRecord DEF IsRecord
  <2>4. u = bpf_map_delete_elem(lab_output(b, r), "active_operations", t)
    BY <1>2, <2>1 DEF exit_ioctl, reserve_event, current_process_is_qemu
  <2> HIDE DEF r
  <2>5. Effect(b, u, <<r>>, "active_operations", t, {})
    BY <2>4, SayAndDrop DEF VtdMaps
  <2>6. r = Say("IOCTL_EXIT", v, <<>>, 0, p)
    BY <2>2, <2>3, RecordSays
  <2> QED
    BY <2>5, <2>6
<1> QED
  BY <1>1, <1>2

LEMMA DomainExit ==
  ASSUME NEW b, ProperVtd(b), b.out = <<>>, NEW t, NEW u, u = host_domain_attach_exit(b, t, 0),
         NEW p, p = b.guest_control.phase
  PROVE  /\ Here(b, "host_pending_states", t) = {} => u = b
         /\ \A v : Here(b, "host_pending_states", t) = {v} /\ t \in Qemu =>
              Effect(b, u, <<Say("DOMAIN_ATTACH_EXIT", NoOperation, v, 0, p)>>, "host_pending_states", t, {})
<1>1. Here(b, "host_pending_states", t) = {} => u = b
  BY HereIsHas DEF host_domain_attach_exit
<1>2. ASSUME NEW v, Here(b, "host_pending_states", t) = {v}, t \in Qemu
      PROVE  Effect(b, u, <<Say("DOMAIN_ATTACH_EXIT", NoOperation, v, 0, p)>>, "host_pending_states", t, {})
  <2> DEFINE r == [Event(b, "DOMAIN_ATTACH_EXIT") EXCEPT !.args = b.host_pending_states[t], !.result = 0]
  <2>1. Has(b, "host_pending_states", t) /\ b.host_pending_states[t] = v
    BY <1>2, HereIsGet
  <2>2. IsRecord(r, "DOMAIN_ATTACH_EXIT", NoOperation, v, 0, p)
    BY <2>1, EventIsRecord DEF EventFields, IsRecord
  <2>3. r = [f \in EventFields |-> r[f]]
    BY EventIsRecord DEF IsRecord
  <2>4. u = bpf_map_delete_elem(lab_output(b, r), "host_pending_states", t)
    BY <1>2, <2>1 DEF host_domain_attach_exit, reserve_event, current_process_is_qemu
  <2> HIDE DEF r
  <2>5. Effect(b, u, <<r>>, "host_pending_states", t, {})
    BY <2>4, SayAndDrop DEF VtdMaps
  <2>6. r = Say("DOMAIN_ATTACH_EXIT", NoOperation, v, 0, p)
    BY <2>2, <2>3, RecordSays
  <2> QED
    BY <2>5, <2>6
<1> QED
  BY <1>1, <1>2

LEMMA MsiExit ==
  ASSUME NEW b, ProperVtd(b), b.out = <<>>, NEW t, NEW u, u = host_ir_msi_exit(b, t),
         NEW p, p = b.guest_control.phase
  PROVE  /\ Here(b, "host_pending_states", t) = {} => u = b
         /\ \A v : Here(b, "host_pending_states", t) = {v} /\ t \in Qemu =>
              Effect(b, u, <<Say("IR_MSI_MESSAGE", NoOperation, v, None, p)>>, "host_pending_states", t, {})
<1>1. Here(b, "host_pending_states", t) = {} => u = b
  BY HereIsHas DEF host_ir_msi_exit
<1>2. ASSUME NEW v, Here(b, "host_pending_states", t) = {v}, t \in Qemu
      PROVE  Effect(b, u, <<Say("IR_MSI_MESSAGE", NoOperation, v, None, p)>>, "host_pending_states", t, {})
  <2> DEFINE r == [Event(b, "IR_MSI_MESSAGE") EXCEPT !.args = b.host_pending_states[t]]
  <2>1. Has(b, "host_pending_states", t) /\ b.host_pending_states[t] = v
    BY <1>2, HereIsGet
  <2>2. IsRecord(r, "IR_MSI_MESSAGE", NoOperation, v, None, p)
    BY <2>1, EventIsRecord DEF EventFields, IsRecord
  <2>3. r = [f \in EventFields |-> r[f]]
    BY EventIsRecord DEF IsRecord
  <2>4. u = bpf_map_delete_elem(lab_output(b, r), "host_pending_states", t)
    BY <1>2, <2>1 DEF host_ir_msi_exit, reserve_event, current_process_is_qemu
  <2> HIDE DEF r
  <2>5. Effect(b, u, <<r>>, "host_pending_states", t, {})
    BY <2>4, SayAndDrop DEF VtdMaps
  <2>6. r = Say("IR_MSI_MESSAGE", NoOperation, v, None, p)
    BY <2>2, <2>3, RecordSays
  <2> QED
    BY <2>5, <2>6
<1> QED
  BY <1>1, <1>2

LEMMA MapHook ==
  ASSUME NEW b, ProperVtd(b), b.out = <<>>, NEW t, NEW a, NEW u, u = iommu_map(b, t, a),
         NEW p, p = b.guest_control.phase, NEW w, w = Here(b, "host_pending_states", t)
  PROVE  /\ Here(b, "active_operations", t) = {} => u = b
         /\ \A v : Here(b, "active_operations", t) = {v} /\ t \in Qemu =>
              Effect(b, u, Tell(v.op = "MAP" /\ v.status = "complete" /\ Within(v, a),
                                Say("IOMMU_MAP", v, <<a.iova, a.size>>, None, p)),
                     "host_pending_states", t, w)
<1>1. Here(b, "active_operations", t) = {} => u = b
  BY HereIsHas DEF iommu_map, CompleteOperation
<1>2. ASSUME NEW v, Here(b, "active_operations", t) = {v}, t \in Qemu
      PROVE  Effect(b, u, Tell(v.op = "MAP" /\ v.status = "complete" /\ Within(v, a),
                               Say("IOMMU_MAP", v, <<a.iova, a.size>>, None, p)),
                    "host_pending_states", t, w)
  <2> DEFINE r == [Event(b, "IOMMU_MAP") EXCEPT !.operation = b.active_operations[t],
                                         !.args = <<a.iova, a.size>>]
             c == v.op = "MAP" /\ v.status = "complete" /\ Within(v, a)
  <2>1. Has(b, "active_operations", t) /\ b.active_operations[t] = v
    BY <1>2, HereIsGet
  <2>2. IsRecord(r, "IOMMU_MAP", v, <<a.iova, a.size>>, None, p)
    BY <2>1, EventIsRecord DEF EventFields, IsRecord
  <2>3. r = [f \in EventFields |-> r[f]]
    BY EventIsRecord DEF IsRecord
  <2>4. ~c => u = b
    BY <2>1 DEF iommu_map, CompleteOperation
  <2>5. c => u = lab_output(b, r)
    BY <1>2, <2>1 DEF iommu_map, CompleteOperation, reserve_event, current_process_is_qemu
  <2> HIDE DEF r
  <2>6. r = Say("IOMMU_MAP", v, <<a.iova, a.size>>, None, p)
    BY <2>2, <2>3, RecordSays
  <2>7. c => Effect(b, u, <<r>>, "host_pending_states", t, w)
    BY <2>5, SayEffect DEF VtdMaps
  <2>8. ~c => Effect(b, u, <<>>, "host_pending_states", t, w)
    BY <2>4, NoEffect
  <2> HIDE DEF c
  <2>9. Effect(b, u, Tell(c, r), "host_pending_states", t, w)
    BY <2>7, <2>8 DEF Tell
  <2> QED
    BY <2>6, <2>9 DEF c
<1> QED
  BY <1>1, <1>2

LEMMA UnmapHook ==
  ASSUME NEW b, ProperVtd(b), b.out = <<>>, NEW t, NEW a, NEW u, u = iommu_unmap(b, t, a),
         NEW p, p = b.guest_control.phase, NEW w, w = Here(b, "host_pending_states", t)
  PROVE  /\ Here(b, "active_operations", t) = {} => u = b
         /\ \A v : Here(b, "active_operations", t) = {v} /\ t \in Qemu =>
              Effect(b, u, Tell(v.op = "UNMAP" /\ v.status = "complete" /\ (v.all \/ Within(v, a)),
                                Say("IOMMU_UNMAP", v, <<a.iova, a.size>>, None, p)),
                     "host_pending_states", t, w)
<1>1. Here(b, "active_operations", t) = {} => u = b
  BY HereIsHas DEF iommu_unmap, CompleteOperation
<1>2. ASSUME NEW v, Here(b, "active_operations", t) = {v}, t \in Qemu
      PROVE  Effect(b, u, Tell(v.op = "UNMAP" /\ v.status = "complete" /\ (v.all \/ Within(v, a)),
                               Say("IOMMU_UNMAP", v, <<a.iova, a.size>>, None, p)),
                    "host_pending_states", t, w)
  <2> DEFINE r == [Event(b, "IOMMU_UNMAP") EXCEPT !.operation = b.active_operations[t],
                                         !.args = <<a.iova, a.size>>]
             c == v.op = "UNMAP" /\ v.status = "complete" /\ (v.all \/ Within(v, a))
  <2>1. Has(b, "active_operations", t) /\ b.active_operations[t] = v
    BY <1>2, HereIsGet
  <2>2. IsRecord(r, "IOMMU_UNMAP", v, <<a.iova, a.size>>, None, p)
    BY <2>1, EventIsRecord DEF EventFields, IsRecord
  <2>3. r = [f \in EventFields |-> r[f]]
    BY EventIsRecord DEF IsRecord
  <2>4. ~c => u = b
    BY <2>1 DEF iommu_unmap, CompleteOperation
  <2>5. c => u = lab_output(b, r)
    BY <1>2, <2>1 DEF iommu_unmap, CompleteOperation, reserve_event, current_process_is_qemu
  <2> HIDE DEF r
  <2>6. r = Say("IOMMU_UNMAP", v, <<a.iova, a.size>>, None, p)
    BY <2>2, <2>3, RecordSays
  <2>7. c => Effect(b, u, <<r>>, "host_pending_states", t, w)
    BY <2>5, SayEffect DEF VtdMaps
  <2>8. ~c => Effect(b, u, <<>>, "host_pending_states", t, w)
    BY <2>4, NoEffect
  <2> HIDE DEF c
  <2>9. Effect(b, u, Tell(c, r), "host_pending_states", t, w)
    BY <2>7, <2>8 DEF Tell
  <2> QED
    BY <2>6, <2>9 DEF c
<1> QED
  BY <1>1, <1>2

LEMMA PlainHook ==
  ASSUME NEW b, ProperVtd(b), b.out = <<>>, NEW t, NEW kind, NEW u,
         u = reserve_event(b, t, Event(b, kind)), NEW p, p = b.guest_control.phase,
         NEW w, w = Here(b, "host_pending_states", t)
  PROVE  /\ t \notin Qemu => u = b
         /\ t \in Qemu => Effect(b, u, <<Say(kind, NoOperation, <<>>, None, p)>>,
                                 "host_pending_states", t, w)
<1> DEFINE r == Event(b, kind)
<1>1. r = Say(kind, NoOperation, <<>>, None, p)
  BY DEF Event, Say
<1>2. (t \notin Qemu => u = b) /\ (t \in Qemu => u = lab_output(b, r))
  BY DEF reserve_event, current_process_is_qemu
<1> HIDE DEF r
<1>3. t \in Qemu => Effect(b, u, <<r>>, "host_pending_states", t, w)
  BY <1>2, SayEffect DEF VtdMaps
<1> QED
  BY <1>1, <1>2, <1>3

LEMMA DomainEnter ==
  ASSUME NEW b, ProperVtd(b), b.out = <<>>, NEW t, NEW a, NEW u,
         u = host_domain_attach_enter(b, t, a), NEW p, p = b.guest_control.phase
  PROVE  /\ t \notin Qemu => u = b
         /\ t \in Qemu => Effect(b, u, <<Say("DOMAIN_ATTACH_ENTER", NoOperation, a, None, p)>>,
                                 "host_pending_states", t, {a})
<1> DEFINE r == [Event(b, "DOMAIN_ATTACH_ENTER") EXCEPT !.args = a]
<1>1. IsRecord(r, "DOMAIN_ATTACH_ENTER", NoOperation, a, None, p)
  BY EventIsRecord DEF EventFields, IsRecord
<1>2. r = [f \in EventFields |-> r[f]]
  BY EventIsRecord DEF IsRecord
<1>3. t \notin Qemu => u = b
  BY DEF host_domain_attach_enter, current_process_is_qemu
<1>4. t \in Qemu => u = lab_output(lab_map_update(b, "host_pending_states", t, a), r)
  BY DEF host_domain_attach_enter, reserve_event, current_process_is_qemu
<1> HIDE DEF r
<1>5. t \in Qemu => Effect(b, u, <<r>>, "host_pending_states", t, {a})
  BY <1>4, PutAndSay DEF VtdMaps
<1>6. r = Say("DOMAIN_ATTACH_ENTER", NoOperation, a, None, p)
  BY <1>1, <1>2, RecordSays
<1> QED
  BY <1>3, <1>5, <1>6

LEMMA MsiEntry ==
  ASSUME NEW b, ProperVtd(b), b.out = <<>>, NEW t, NEW a, NEW u, u = host_ir_msi_entry(b, t, a)
  PROVE  /\ t \notin Qemu => u = b
         /\ t \in Qemu => Effect(b, u, <<>>, "host_pending_states", t, {a})
<1>1. t \notin Qemu => u = b
  BY DEF host_ir_msi_entry, current_process_is_qemu
<1>2. t \in Qemu => u = lab_map_update(b, "host_pending_states", t, a)
  BY DEF host_ir_msi_entry, current_process_is_qemu
<1> QED
  BY <1>1, <1>2, PutEffect DEF VtdMaps

LEMMA QiSubmit ==
  ASSUME NEW b, ProperVtd(b), b.out = <<>>, NEW t \in Qemu, NEW a, NEW u, u = host_qi_submit(b, t, a),
         NEW p, p = b.guest_control.phase, NEW v, Here(b, "active_operations", t) = {v},
         v.op \in {"MAP", "UNMAP"}
  PROVE  Effect(b, u, <<Say("QI_SUBMIT", v, a, None, p)>>, "host_pending_states", t, {a})
<1> DEFINE r == [Event(b, "QI_SUBMIT") EXCEPT !.operation = b.active_operations[t], !.args = a]
<1>1. Has(b, "active_operations", t) /\ b.active_operations[t] = v
  BY HereIsGet
<1>2. IsRecord(r, "QI_SUBMIT", v, a, None, p)
  BY <1>1, EventIsRecord DEF EventFields, IsRecord
<1>3. r = [f \in EventFields |-> r[f]]
  BY EventIsRecord DEF IsRecord
<1>4. u = lab_output(lab_map_update(b, "host_pending_states", t, a), r)
  BY <1>1 DEF host_qi_submit, reserve_event, current_process_is_qemu
<1> HIDE DEF r
<1>5. r = Say("QI_SUBMIT", v, a, None, p)
  BY <1>2, <1>3, RecordSays
<1>6. Effect(b, u, <<r>>, "host_pending_states", t, {a})
  BY <1>4, PutAndSay DEF VtdMaps
<1> QED
  BY <1>5, <1>6

LEMMA QiSubmitIdle ==
  ASSUME NEW b, NEW t, NEW a, NEW v,
         \/ Here(b, "active_operations", t) = {}
         \/ Here(b, "active_operations", t) = {v} /\ v.op \notin {"MAP", "UNMAP"}
  PROVE  host_qi_submit(b, t, a) = b
<1>1. CASE Here(b, "active_operations", t) = {}
  BY <1>1, HereIsHas DEF host_qi_submit
<1>2. CASE Here(b, "active_operations", t) = {v} /\ v.op \notin {"MAP", "UNMAP"}
  <2>1. Has(b, "active_operations", t) /\ b.active_operations[t] = v
    BY <1>2, HereIsGet
  <2> QED
    BY <1>2, <2>1 DEF host_qi_submit
<1> QED
  BY <1>1, <1>2

LEMMA QiComplete ==
  ASSUME NEW b, ProperVtd(b), b.out = <<>>, NEW t, NEW u, u = host_qi_complete(b, t, 0),
         NEW p, p = b.guest_control.phase
  PROVE  /\ Here(b, "active_operations", t) = {} => u = b
         /\ Here(b, "host_pending_states", t) = {} => u = b
         /\ \A v, w : /\ Here(b, "active_operations", t) = {v}
                      /\ Here(b, "host_pending_states", t) = {w} /\ t \in Qemu
                      => Effect(b, u, <<Say("QI_COMPLETE", v, w, 0, p)>>,
                                "host_pending_states", t, {})
<1>1. Here(b, "active_operations", t) = {} \/ Here(b, "host_pending_states", t) = {} => u = b
  BY HereIsHas DEF host_qi_complete
<1>2. ASSUME NEW v, NEW w, Here(b, "active_operations", t) = {v},
             Here(b, "host_pending_states", t) = {w}, t \in Qemu
      PROVE  Effect(b, u, <<Say("QI_COMPLETE", v, w, 0, p)>>, "host_pending_states", t, {})
  <2> DEFINE r == [Event(b, "QI_COMPLETE") EXCEPT !.operation = b.active_operations[t],
                                                  !.args = b.host_pending_states[t], !.result = 0]
  <2>1. /\ Has(b, "active_operations", t) /\ b.active_operations[t] = v
        /\ Has(b, "host_pending_states", t) /\ b.host_pending_states[t] = w
    BY <1>2, HereIsGet
  <2>2. IsRecord(r, "QI_COMPLETE", v, w, 0, p)
    BY <2>1, EventIsRecord DEF EventFields, IsRecord
  <2>3. r = [f \in EventFields |-> r[f]]
    BY EventIsRecord DEF IsRecord
  <2>4. u = bpf_map_delete_elem(lab_output(b, r), "host_pending_states", t)
    BY <1>2, <2>1 DEF host_qi_complete, reserve_event, current_process_is_qemu
  <2> HIDE DEF r
  <2>5. r = Say("QI_COMPLETE", v, w, 0, p)
    BY <2>2, <2>3, RecordSays
  <2>6. Effect(b, u, <<r>>, "host_pending_states", t, {})
    BY <2>4, SayAndDrop DEF VtdMaps
  <2> QED
    BY <2>5, <2>6
<1> QED
  BY <1>1, <1>2

-----------------------------------------------------------------------------
(***************************************************************************)
(* The functions a call goes through: a pair is entered and left in two    *)
(* steps that follow each other, and each function belongs to one command. *)
(***************************************************************************)
Traced ==
  [fn : {"iommu_map", "iommu_unmap", "qi", "attach", "domain", "irte", "msi", "pi"},
   kind : {"", "call", "return"},
   a : {<<>>, <<"descriptor">>, <<"message">>, <<"domain">>} \cup Leaves \cup {[iova |-> 1, size |-> 1]}]

Belongs(cmd, f) ==
  /\ f.fn = "iommu_map" => cmd = "MAP" /\ f.a \in Leaves
  /\ f.fn = "iommu_unmap" => cmd = "UNMAP" /\ f.a \in Leaves
  /\ f.fn \in {"irte", "msi", "pi"} => cmd = "SET_IRQS"
  /\ f.fn \in {"attach", "domain"} => cmd = "SET_IOMMU"
  /\ f.fn \in {"qi", "domain", "msi"} <=> f.kind \in {"call", "return"}

PairedAt(s, k) ==
  /\ k = 1 => s[k].kind # "return"
  /\ s[k].kind = "call" <=> k < Len(s) /\ s[k + 1].kind = "return"
  /\ s[k].kind = "call" => s[k + 1].fn = s[k].fn

WellFormed(cmd, s) ==
  s \in Seq(Traced) /\ \A k \in 1 .. Len(s) : PairedAt(s, k) /\ Belongs(cmd, s[k])

\* Lists of functions put together.
LEMMA JoinedPaths ==
  ASSUME NEW S, NEW p \in Seq(S), NEW q \in Seq(S), NEW l, l = p \o q, NEW n, n = Len(p), NEW m, m = Len(q)
  PROVE  /\ l \in Seq(S) /\ Len(l) = n + m
         /\ \A ix \in 1 .. n : l[ix] = p[ix]
         /\ \A ix \in 1 .. m : l[n + ix] = q[ix]
<1>1. S \cup S = S
  OBVIOUS
<1> QED
  BY <1>1, Concatenated

IsPath(l, S, n, a, b, c, d, e, f) ==
  /\ l \in Seq(S) /\ Len(l) = n
  /\ n >= 1 => l[1] = a
  /\ n >= 2 => l[2] = b
  /\ n >= 3 => l[3] = c
  /\ n >= 4 => l[4] = d
  /\ n >= 5 => l[5] = e
  /\ n >= 6 => l[6] = f

LEMMA ShortPaths ==
  ASSUME NEW S, NEW a \in S, NEW b \in S, NEW c \in S
  PROVE  /\ IsPath(<<a>>, S, 1, a, a, a, a, a, a)
         /\ IsPath(<<a, b>>, S, 2, a, b, a, a, a, a)
         /\ IsPath(<<a, b, c>>, S, 3, a, b, c, a, a, a)
BY DEF IsPath

LEMMA PathPlusPath ==
  ASSUME NEW S, NEW p, NEW q, NEW l, l = p \o q, NEW a, NEW b, NEW c, NEW d, NEW e, NEW f
  PROVE  /\ IsPath(p, S, 1, a, a, a, a, a, a) /\ IsPath(q, S, 2, b, c, b, b, b, b)
            => IsPath(l, S, 3, a, b, c, a, a, a)
         /\ IsPath(p, S, 2, a, b, a, a, a, a) /\ IsPath(q, S, 1, c, c, c, c, c, c)
            => IsPath(l, S, 3, a, b, c, a, a, a)
         /\ IsPath(p, S, 3, a, b, c, a, a, a) /\ IsPath(q, S, 2, d, e, d, d, d, d)
            => IsPath(l, S, 5, a, b, c, d, e, a)
         /\ IsPath(p, S, 3, a, b, c, a, a, a) /\ IsPath(q, S, 3, d, e, f, d, d, d)
            => IsPath(l, S, 6, a, b, c, d, e, f)
<1> DEFINE J(n, m) == /\ l \in Seq(S) /\ Len(l) = n + m
                      /\ \A ix \in 1 .. n : l[ix] = p[ix]
                      /\ \A ix \in 1 .. m : l[n + ix] = q[ix]
<1>1. ASSUME NEW n, NEW m, p \in Seq(S), q \in Seq(S), n = Len(p), m = Len(q)
      PROVE  J(n, m)
  BY <1>1, JoinedPaths
<1>2. ASSUME IsPath(p, S, 1, a, a, a, a, a, a), IsPath(q, S, 2, b, c, b, b, b, b)
      PROVE  IsPath(l, S, 3, a, b, c, a, a, a)
  <2>1. J(1, 2)
    BY <1>1, <1>2 DEF IsPath
  <2>2. l[1] = p[1] /\ l[1 + 1] = q[1] /\ l[1 + 2] = q[2]
    BY <2>1
  <2> QED
    BY <1>2, <2>1, <2>2 DEF IsPath
<1>3. ASSUME IsPath(p, S, 2, a, b, a, a, a, a), IsPath(q, S, 1, c, c, c, c, c, c)
      PROVE  IsPath(l, S, 3, a, b, c, a, a, a)
  <2>1. J(2, 1)
    BY <1>1, <1>3 DEF IsPath
  <2>2. l[1] = p[1] /\ l[2] = p[2] /\ l[2 + 1] = q[1]
    BY <2>1
  <2> QED
    BY <1>3, <2>1, <2>2 DEF IsPath
<1>4. ASSUME IsPath(p, S, 3, a, b, c, a, a, a), IsPath(q, S, 2, d, e, d, d, d, d)
      PROVE  IsPath(l, S, 5, a, b, c, d, e, a)
  <2>1. J(3, 2)
    BY <1>1, <1>4 DEF IsPath
  <2>2. l[1] = p[1] /\ l[2] = p[2] /\ l[3] = p[3] /\ l[3 + 1] = q[1] /\ l[3 + 2] = q[2]
    BY <2>1
  <2> QED
    BY <1>4, <2>1, <2>2 DEF IsPath
<1>5. ASSUME IsPath(p, S, 3, a, b, c, a, a, a), IsPath(q, S, 3, d, e, f, d, d, d)
      PROVE  IsPath(l, S, 6, a, b, c, d, e, f)
  <2>1. J(3, 3)
    BY <1>1, <1>5 DEF IsPath
  <2>2. /\ l[1] = p[1] /\ l[2] = p[2] /\ l[3] = p[3]
        /\ l[3 + 1] = q[1] /\ l[3 + 2] = q[2] /\ l[3 + 3] = q[3]
    BY <2>1
  <2> QED
    BY <1>5, <2>1, <2>2 DEF IsPath
<1> QED
  BY <1>2, <1>3, <1>4, <1>5

LEMMA TracedFunctions ==
  /\ F("qi", "call", <<"descriptor">>) \in Traced /\ F("qi", "return", <<>>) \in Traced
  /\ F("irte", "", <<>>) \in Traced /\ F("pi", "", <<>>) \in Traced /\ F("attach", "", <<>>) \in Traced
  /\ F("msi", "call", <<"message">>) \in Traced /\ F("msi", "return", <<>>) \in Traced
  /\ F("domain", "call", <<"domain">>) \in Traced /\ F("domain", "return", <<>>) \in Traced
  /\ \A leaf \in Leaves : F("iommu_map", "", leaf) \in Traced /\ F("iommu_unmap", "", leaf) \in Traced
BY DEF F, Traced

LEMMA EveryPathWellFormed ==
  ASSUME NEW cmd \in Commands, NEW leaf \in LeavesOf(cmd)
  PROVE  WellFormed(cmd, PathOf(cmd, leaf))
<1> DEFINE s  == PathOf(cmd, leaf)
           q1 == F("qi", "call", <<"descriptor">>)
           q2 == F("qi", "return", <<>>)
           x  == F("iommu_map", "", leaf)
           y  == F("iommu_unmap", "", leaf)
           i1 == F("irte", "", <<>>)
           m1 == F("msi", "call", <<"message">>)
           m2 == F("msi", "return", <<>>)
           p1 == F("pi", "", <<>>)
           a1 == F("attach", "", <<>>)
           d1 == F("domain", "call", <<"domain">>)
           d2 == F("domain", "return", <<>>)
<1>1. /\ q1 \in Traced /\ q2 \in Traced /\ i1 \in Traced /\ m1 \in Traced /\ m2 \in Traced
      /\ p1 \in Traced /\ a1 \in Traced /\ d1 \in Traced /\ d2 \in Traced
  BY TracedFunctions
<1>2. /\ q1.fn = "qi" /\ q1.kind = "call" /\ q2.fn = "qi" /\ q2.kind = "return"
      /\ i1.fn = "irte" /\ i1.kind = "" /\ p1.fn = "pi" /\ p1.kind = ""
      /\ m1.fn = "msi" /\ m1.kind = "call" /\ m2.fn = "msi" /\ m2.kind = "return"
      /\ a1.fn = "attach" /\ a1.kind = "" /\ d1.fn = "domain" /\ d1.kind = "call"
      /\ d2.fn = "domain" /\ d2.kind = "return"
      /\ x.fn = "iommu_map" /\ x.kind = "" /\ x.a = leaf
      /\ y.fn = "iommu_unmap" /\ y.kind = "" /\ y.a = leaf
  BY DEF F
<1>3. Flush = <<q1, q2>>
  BY DEF Flush
<1>4. /\ cmd = "MAP" => s = <<x>> \o Flush
      /\ cmd = "UNMAP" => s = Flush \o <<y>>
      /\ cmd = "SET_IRQS" => s = (<<i1>> \o Flush) \o <<m1, m2, p1>>
      /\ cmd = "SET_IOMMU" => s = <<a1, d1, d2>> \o Flush
      /\ cmd = "REGION" => s = <<>>
  BY DEF PathOf
<1> HIDE DEF s, q1, q2, x, y, i1, m1, m2, p1, a1, d1, d2
<1>5. IsPath(Flush, Traced, 2, q1, q2, q1, q1, q1, q1)
  BY <1>1, <1>3, ShortPaths
<1>6. ASSUME cmd = "MAP"
      PROVE  WellFormed(cmd, s)
  <2>1. leaf \in Leaves /\ x \in Traced
    BY <1>6, TracedFunctions DEF LeavesOf, x
  <2>2. IsPath(<<x>>, Traced, 1, x, x, x, x, x, x)
    BY <2>1, ShortPaths
  <2>3. IsPath(s, Traced, 3, x, q1, q2, x, x, x)
    BY <1>4, <1>5, <1>6, <2>2, PathPlusPath
  <2>4. s \in Seq(Traced) /\ Len(s) = 3 /\ s[1] = x /\ s[2] = q1 /\ s[3] = q2
    BY <2>3 DEF IsPath
  <2>5. \A k \in 1 .. 3 : k = 1 \/ k = 2 \/ k = 3
    OBVIOUS
  <2>6. PairedAt(s, 1) /\ Belongs(cmd, s[1])
    <3>1. 1 + 1 = 2 /\ 1 < Len(s)
      BY <2>4
    <3> QED
      BY <1>2, <1>6, <2>1, <2>4, <3>1 DEF PairedAt, Belongs
  <2>7. PairedAt(s, 2) /\ Belongs(cmd, s[2])
    <3>1. 2 + 1 = 3 /\ 2 < Len(s)
      BY <2>4
    <3> QED
      BY <1>2, <1>6, <2>1, <2>4, <3>1 DEF PairedAt, Belongs
  <2>8. PairedAt(s, 3) /\ Belongs(cmd, s[3])
    <3>1. ~(3 < Len(s))
      BY <2>4
    <3> QED
      BY <1>2, <1>6, <2>1, <2>4, <3>1 DEF PairedAt, Belongs
  <2> QED
    BY <2>4, <2>5, <2>6, <2>7, <2>8 DEF WellFormed
<1>7. ASSUME cmd = "UNMAP"
      PROVE  WellFormed(cmd, s)
  <2>1. leaf \in Leaves /\ y \in Traced
    BY <1>7, TracedFunctions DEF LeavesOf, y
  <2>2. IsPath(<<y>>, Traced, 1, y, y, y, y, y, y)
    BY <2>1, ShortPaths
  <2>3. IsPath(s, Traced, 3, q1, q2, y, q1, q1, q1)
    BY <1>4, <1>5, <1>7, <2>2, PathPlusPath
  <2>4. s \in Seq(Traced) /\ Len(s) = 3 /\ s[1] = q1 /\ s[2] = q2 /\ s[3] = y
    BY <2>3 DEF IsPath
  <2>5. \A k \in 1 .. 3 : k = 1 \/ k = 2 \/ k = 3
    OBVIOUS
  <2>6. PairedAt(s, 1) /\ Belongs(cmd, s[1])
    <3>1. 1 + 1 = 2 /\ 1 < Len(s)
      BY <2>4
    <3> QED
      BY <1>2, <1>7, <2>1, <2>4, <3>1 DEF PairedAt, Belongs
  <2>7. PairedAt(s, 2) /\ Belongs(cmd, s[2])
    <3>1. 2 + 1 = 3 /\ 2 < Len(s)
      BY <2>4
    <3> QED
      BY <1>2, <1>7, <2>1, <2>4, <3>1 DEF PairedAt, Belongs
  <2>8. PairedAt(s, 3) /\ Belongs(cmd, s[3])
    <3>1. ~(3 < Len(s))
      BY <2>4
    <3> QED
      BY <1>2, <1>7, <2>1, <2>4, <3>1 DEF PairedAt, Belongs
  <2> QED
    BY <2>4, <2>5, <2>6, <2>7, <2>8 DEF WellFormed
<1>8. ASSUME cmd = "SET_IRQS"
      PROVE  WellFormed(cmd, s)
  <2> DEFINE h == <<i1>> \o Flush
  <2>1. IsPath(<<i1>>, Traced, 1, i1, i1, i1, i1, i1, i1)
    BY <1>1, ShortPaths
  <2>2. IsPath(h, Traced, 3, i1, q1, q2, i1, i1, i1)
    BY <1>5, <2>1, PathPlusPath
  <2>3. IsPath(<<m1, m2, p1>>, Traced, 3, m1, m2, p1, m1, m1, m1)
    BY <1>1, ShortPaths
  <2>4. s = h \o <<m1, m2, p1>>
    BY <1>4, <1>8
  <2> HIDE DEF h
  <2>5. IsPath(s, Traced, 6, i1, q1, q2, m1, m2, p1)
    BY <2>2, <2>3, <2>4, PathPlusPath
  <2>6. /\ s \in Seq(Traced) /\ Len(s) = 6 /\ s[1] = i1 /\ s[2] = q1 /\ s[3] = q2
        /\ s[4] = m1 /\ s[5] = m2 /\ s[6] = p1
    BY <2>5 DEF IsPath
  <2>7. \A k \in 1 .. 6 : k = 1 \/ k = 2 \/ k = 3 \/ k = 4 \/ k = 5 \/ k = 6
    OBVIOUS
  <2>8. PairedAt(s, 1) /\ Belongs(cmd, s[1])
    <3>1. 1 + 1 = 2 /\ 1 < Len(s)
      BY <2>6
    <3> QED
      BY <1>2, <1>8, <2>6, <3>1 DEF PairedAt, Belongs
  <2>9. PairedAt(s, 2) /\ Belongs(cmd, s[2])
    <3>1. 2 + 1 = 3 /\ 2 < Len(s)
      BY <2>6
    <3> QED
      BY <1>2, <1>8, <2>6, <3>1 DEF PairedAt, Belongs
  <2>10. PairedAt(s, 3) /\ Belongs(cmd, s[3])
    <3>1. 3 + 1 = 4 /\ 3 < Len(s)
      BY <2>6
    <3> QED
      BY <1>2, <1>8, <2>6, <3>1 DEF PairedAt, Belongs
  <2>11. PairedAt(s, 4) /\ Belongs(cmd, s[4])
    <3>1. 4 + 1 = 5 /\ 4 < Len(s)
      BY <2>6
    <3> QED
      BY <1>2, <1>8, <2>6, <3>1 DEF PairedAt, Belongs
  <2>12. PairedAt(s, 5) /\ Belongs(cmd, s[5])
    <3>1. 5 + 1 = 6 /\ 5 < Len(s)
      BY <2>6
    <3> QED
      BY <1>2, <1>8, <2>6, <3>1 DEF PairedAt, Belongs
  <2>13. PairedAt(s, 6) /\ Belongs(cmd, s[6])
    <3>1. ~(6 < Len(s))
      BY <2>6
    <3> QED
      BY <1>2, <1>8, <2>6, <3>1 DEF PairedAt, Belongs
  <2> QED
    BY <2>6, <2>7, <2>8, <2>9, <2>10, <2>11, <2>12, <2>13 DEF WellFormed
<1>9. ASSUME cmd = "SET_IOMMU"
      PROVE  WellFormed(cmd, s)
  <2>1. IsPath(<<a1, d1, d2>>, Traced, 3, a1, d1, d2, a1, a1, a1)
    BY <1>1, ShortPaths
  <2>2. IsPath(s, Traced, 5, a1, d1, d2, q1, q2, a1)
    BY <1>4, <1>5, <1>9, <2>1, PathPlusPath
  <2>3. /\ s \in Seq(Traced) /\ Len(s) = 5 /\ s[1] = a1 /\ s[2] = d1 /\ s[3] = d2
        /\ s[4] = q1 /\ s[5] = q2
    BY <2>2 DEF IsPath
  <2>4. \A k \in 1 .. 5 : k = 1 \/ k = 2 \/ k = 3 \/ k = 4 \/ k = 5
    OBVIOUS
  <2>5. PairedAt(s, 1) /\ Belongs(cmd, s[1])
    <3>1. 1 + 1 = 2 /\ 1 < Len(s)
      BY <2>3
    <3> QED
      BY <1>2, <1>9, <2>3, <3>1 DEF PairedAt, Belongs
  <2>6. PairedAt(s, 2) /\ Belongs(cmd, s[2])
    <3>1. 2 + 1 = 3 /\ 2 < Len(s)
      BY <2>3
    <3> QED
      BY <1>2, <1>9, <2>3, <3>1 DEF PairedAt, Belongs
  <2>7. PairedAt(s, 3) /\ Belongs(cmd, s[3])
    <3>1. 3 + 1 = 4 /\ 3 < Len(s)
      BY <2>3
    <3> QED
      BY <1>2, <1>9, <2>3, <3>1 DEF PairedAt, Belongs
  <2>8. PairedAt(s, 4) /\ Belongs(cmd, s[4])
    <3>1. 4 + 1 = 5 /\ 4 < Len(s)
      BY <2>3
    <3> QED
      BY <1>2, <1>9, <2>3, <3>1 DEF PairedAt, Belongs
  <2>9. PairedAt(s, 5) /\ Belongs(cmd, s[5])
    <3>1. ~(5 < Len(s))
      BY <2>3
    <3> QED
      BY <1>2, <1>9, <2>3, <3>1 DEF PairedAt, Belongs
  <2> QED
    BY <2>3, <2>4, <2>5, <2>6, <2>7, <2>8, <2>9 DEF WellFormed
<1>10. ASSUME cmd = "REGION"
       PROVE  WellFormed(cmd, s)
  <2>1. s \in Seq(Traced) /\ Len(s) = 0
    BY <1>4, <1>10
  <2> QED
    BY <2>1 DEF WellFormed
<1>11. WellFormed(cmd, s)
  BY <1>6, <1>7, <1>8, <1>9, <1>10 DEF Commands
<1> QED
  BY <1>11 DEF s

-----------------------------------------------------------------------------
\* p is what is left of s from its element k on.
From(p, s, k) ==
  /\ p \in Seq(Traced) /\ k \in Nat \ {0} /\ Len(p) + k = Len(s) + 1
  /\ \A ix \in 1 .. Len(p) : p[ix] = s[(k - 1) + ix]

LEMMA FromStart ==
  ASSUME NEW s \in Seq(Traced)
  PROVE  From(s, s, 1)
BY DEF From

LEMMA FromHead ==
  ASSUME NEW p, NEW s \in Seq(Traced), NEW k, From(p, s, k), p # <<>>
  PROVE  Head(p) = s[k] /\ k \in 1 .. Len(s)
<1>1. p \in Seq(Traced) /\ Len(p) \in Nat /\ Len(p) # 0
  BY DEF From
<1>2. 1 \in 1 .. Len(p) /\ (k - 1) + 1 = k /\ Len(s) \in Nat
  BY <1>1 DEF From
<1>3. Head(p) = p[1] /\ p[1] = s[k]
  BY <1>1, <1>2 DEF From
<1> QED
  BY <1>1, <1>2, <1>3 DEF From

LEMMA FromTail ==
  ASSUME NEW p, NEW s \in Seq(Traced), NEW k, From(p, s, k), p # <<>>
  PROVE  From(Tail(p), s, k + 1)
<1>1. p \in Seq(Traced) /\ Len(p) \in Nat /\ Len(p) # 0 /\ k \in Nat \ {0}
  BY DEF From
<1>2. /\ Tail(p) \in Seq(Traced) /\ Len(Tail(p)) = Len(p) - 1
      /\ \A ix \in 1 .. Len(Tail(p)) : Tail(p)[ix] = p[ix + 1]
  BY <1>1
<1>3. \A ix \in 1 .. Len(Tail(p)) : Tail(p)[ix] = s[((k + 1) - 1) + ix]
  <2> TAKE ix \in 1 .. Len(Tail(p))
  <2>1. ix + 1 \in 1 .. Len(p) /\ (k - 1) + (ix + 1) = ((k + 1) - 1) + ix
    BY <1>1, <1>2
  <2> QED
    BY <1>2, <2>1 DEF From
<1>4. k + 1 \in Nat \ {0} /\ Len(Tail(p)) + (k + 1) = Len(s) + 1
  BY <1>1, <1>2 DEF From
<1> QED
  BY <1>2, <1>3, <1>4 DEF From

LEMMA FromEnd ==
  ASSUME NEW p, NEW s \in Seq(Traced), NEW k \in Nat, From(p, s, k + 1), p = <<>>
  PROVE  ~(k < Len(s))
<1>1. Len(p) = 0 /\ Len(s) \in Nat
  OBVIOUS
<1>2. 0 + (k + 1) = Len(s) + 1
  BY <1>1 DEF From
<1> QED
  BY <1>1, <1>2

\* A call under way: its request, and what is left of its path.
CallFields == {"cmd", "id", "req", "path", "open"}
UnderWay(c) ==
  /\ c.cmd \in Commands /\ c.req \in Requests(c.cmd)
  /\ \E leaf \in LeavesOf(c.cmd) : \E k : From(c.path, PathOf(c.cmd, leaf), k)

HostShape ==
  /\ host = [t \in HostThreads |-> host[t]]
  /\ \A t \in HostThreads : /\ DOMAIN host[t] = CallFields
                            /\ host[t] = NoCall \/ UnderWay(host[t])
  /\ requests.tracked \in Nat

\* What the maps say of thread t when its call is c.
Sees(t, cmd, fn) == fn \in attached /\ t \in Qemu /\ (fn = "qi" => cmd \in {"MAP", "UNMAP"})
AtReturn(c) == c.path # <<>> /\ Head(c.path).kind = "return"
OpenOf(t, c) == IF AtReturn(c) /\ Sees(t, c.cmd, Head(c.path).fn) THEN {c.open} ELSE {}
ActiveOf(t, c) == IF Followed(t, c.cmd) THEN {OperationOf(c)} ELSE {}

HostMaps ==
  /\ vtd_bpf.request_counter = requests.tracked /\ vtd_bpf.guest_control.phase = "none"
  /\ \A t \in HostThreads :
       /\ Here(vtd_bpf, "active_operations", t) = ActiveOf(t, host[t])
       /\ Here(vtd_bpf, "host_pending_states", t) = OpenOf(t, host[t])

VtdHostInv == ProperVtd(vtd_bpf) /\ HostShape /\ (~vtd_bpf.lost => HostMaps)

\* The next function of a call, and what the maps hold before and after it.
Goes(t, c, d, f) ==
  /\ c.cmd \in Commands /\ c.req \in Requests(c.cmd) /\ f \in Traced /\ Belongs(c.cmd, f)
  /\ DOMAIN d = CallFields /\ UnderWay(d)
  /\ d.cmd = c.cmd /\ d.id = c.id /\ d.req = c.req
  /\ OpenOf(t, c) = (IF f.kind = "return" /\ Sees(t, c.cmd, f.fn) THEN {c.open} ELSE {})
  /\ OpenOf(t, d) = (IF f.kind = "call" /\ Sees(t, c.cmd, f.fn) THEN {f.a} ELSE {})

LEMMA PathAdvances ==
  ASSUME NEW t, NEW c, NEW d, NEW f, DOMAIN c = CallFields, c = NoCall \/ UnderWay(c),
         c.path # <<>>, f = Head(c.path),
         d = [c EXCEPT !.path = Tail(@), !.open = IF f.kind = "call" THEN f.a ELSE @]
  PROVE  Goes(t, c, d, f)
<1>1. UnderWay(c)
  BY DEF NoCall
<1>2. PICK leaf \in LeavesOf(c.cmd) : \E k : From(c.path, PathOf(c.cmd, leaf), k)
  BY <1>1 DEF UnderWay
<1> DEFINE s == PathOf(c.cmd, leaf)
<1>3. WellFormed(c.cmd, s)
  BY <1>1, EveryPathWellFormed DEF UnderWay
<1>4. PICK k : From(c.path, s, k)
  BY <1>2
<1>5. /\ DOMAIN d = CallFields /\ d.path = Tail(c.path)
      /\ d.open = IF f.kind = "call" THEN f.a ELSE c.open
      /\ d.cmd = c.cmd /\ d.id = c.id /\ d.req = c.req
  BY DEF CallFields
<1>6. UnderWay(d)
  <2>1. From(d.path, s, k + 1)
    BY <1>3, <1>4, <1>5, FromTail DEF WellFormed
  <2> QED
    BY <1>1, <1>5, <2>1 DEF UnderWay
<1> HIDE DEF s
<1>7. f = s[k] /\ k \in 1 .. Len(s) /\ k \in Nat /\ s \in Seq(Traced)
  BY <1>3, <1>4, FromHead DEF WellFormed
<1>8. PairedAt(s, k) /\ Belongs(c.cmd, f) /\ f \in Traced
  BY <1>3, <1>7 DEF WellFormed
<1>9. From(d.path, s, k + 1)
  BY <1>3, <1>4, <1>5, FromTail DEF WellFormed
<1>10. OpenOf(t, c) = (IF f.kind = "return" /\ Sees(t, c.cmd, f.fn) THEN {c.open} ELSE {})
  BY DEF OpenOf, AtReturn
<1>11. OpenOf(t, d) = (IF f.kind = "call" /\ Sees(t, c.cmd, f.fn) THEN {f.a} ELSE {})
  <2>1. CASE d.path = <<>>
    <3>2. ~(k < Len(s))
      BY <1>7, <1>9, <2>1, FromEnd
    <3> QED
      BY <1>8, <1>7, <2>1, <3>2 DEF OpenOf, AtReturn, PairedAt
  <2>2. CASE d.path # <<>>
    <3>1. Head(d.path) = s[k + 1] /\ k + 1 \in 1 .. Len(s)
      BY <1>7, <1>9, <2>2, FromHead
    <3>2. k < Len(s)
      BY <1>7, <3>1
    <3>3. AtReturn(d) <=> f.kind = "call"
      BY <1>7, <1>8, <2>2, <3>1, <3>2 DEF AtReturn, PairedAt
    <3>4. f.kind = "call" => Head(d.path).fn = f.fn
      BY <1>7, <1>8, <3>1 DEF PairedAt
    <3> QED
      BY <1>5, <3>3, <3>4 DEF OpenOf
  <2> QED
    BY <2>1, <2>2
<1> QED
  BY <1>1, <1>5, <1>6, <1>8, <1>10, <1>11 DEF Goes, UnderWay

-----------------------------------------------------------------------------
\* A step that starts a program starts it with an empty list of records.
Base == [vtd_bpf EXCEPT !.out = <<>>]

SameView(b) ==
  /\ ProperVtd(b) /\ b.out = <<>> /\ b.lost = vtd_bpf.lost
  /\ b.guest_control = vtd_bpf.guest_control
  /\ \A n \in VtdMaps : \A j : Here(b, n, j) = Here(vtd_bpf, n, j)

LEMMA BaseView ==
  ASSUME ProperVtd(vtd_bpf)
  PROVE  SameView(Base) /\ Base.request_counter = vtd_bpf.request_counter
<1>1. /\ DOMAIN Base = VtdFields /\ Base.out = <<>> /\ Base.lost = vtd_bpf.lost
      /\ Base.guest_control = vtd_bpf.guest_control
      /\ Base.request_counter = vtd_bpf.request_counter
      /\ \A n \in VtdMaps : Base[n] = vtd_bpf[n]
  BY FieldNames DEF Base, ProperVtd
<1>2. \A n \in VtdMaps : \A j : Here(Base, n, j) = Here(vtd_bpf, n, j)
  BY <1>1 DEF Here
<1> QED
  BY <1>1, <1>2 DEF SameView, ProperVtd

\* Two states with the same records, told and found, and nothing lost.
Exact == vtd_bpf.out = told

\* What a step of thread t does to its map m keeps the invariant.
OnlyCall(t) ==
  /\ host' = [x \in HostThreads |-> host'[x]]
  /\ \A x \in HostThreads : x # t => host'[x] = host[x]
  /\ DOMAIN host'[t] = CallFields
  /\ host'[t] = NoCall \/ UnderWay(host'[t])
  /\ requests'.tracked \in Nat /\ attached' = attached

MapsFollow(t, m, v) ==
  \/ /\ m = "active_operations" /\ v = ActiveOf(t, host'[t])
     /\ OpenOf(t, host'[t]) = OpenOf(t, host[t])
  \/ /\ m = "host_pending_states" /\ v = OpenOf(t, host'[t])
     /\ ActiveOf(t, host'[t]) = ActiveOf(t, host[t])

LEMMA HostKeeps ==
  ASSUME VtdHostInv, NEW t \in HostThreads, NEW m, NEW v, NEW b, OnlyCall(t),
         Lasting(vtd_bpf, vtd_bpf'),
         ~vtd_bpf.lost => /\ SameView(b) /\ b.request_counter = requests'.tracked
                          /\ Effect(b, vtd_bpf', told', m, t, v) /\ MapsFollow(t, m, v)
  PROVE  VtdHostInv' /\ (~vtd_bpf'.lost => Exact')
<1>1. ProperVtd(vtd_bpf')
  BY DEF Lasting
<1>2. HostShape'
  BY DEF VtdHostInv, HostShape, OnlyCall, UnderWay
<1>3. ASSUME ~vtd_bpf'.lost
      PROVE  HostMaps' /\ Exact'
  <2>1. ~vtd_bpf.lost /\ HostMaps
    BY <1>3 DEF Lasting, VtdHostInv, ProperVtd
  <2>2. /\ vtd_bpf'.out = told' /\ vtd_bpf'.request_counter = requests'.tracked
        /\ vtd_bpf'.guest_control = vtd_bpf.guest_control
        /\ Here(vtd_bpf', m, t) = v
        /\ \A n \in VtdMaps : \A j : n # m \/ j # t => Here(vtd_bpf', n, j) = Here(vtd_bpf, n, j)
    BY <1>3, <2>1 DEF Effect, SameView
  <2>3. ASSUME NEW x \in HostThreads
        PROVE  /\ Here(vtd_bpf', "active_operations", x) = ActiveOf(x, host'[x])
               /\ Here(vtd_bpf', "host_pending_states", x) = OpenOf(x, host'[x])
    <3>1. CASE x # t
      BY <2>1, <2>2, <3>1 DEF OnlyCall, HostMaps, VtdMaps
    <3>2. CASE x = t
      BY <2>1, <2>2, <3>2 DEF MapsFollow, HostMaps, VtdMaps
    <3> QED
      BY <3>1, <3>2
  <2> QED
    BY <2>1, <2>2, <2>3 DEF HostMaps, Exact, OnlyCall, OpenOf, ActiveOf, Sees, AtReturn
<1> QED
  BY <1>1, <1>2, <1>3 DEF VtdHostInv

-----------------------------------------------------------------------------
LEMMA LastingIsTransitive ==
  ASSUME NEW b, NEW u, NEW w, Lasting(b, u), Lasting(u, w)
  PROVE  Lasting(b, w)
BY DEF Lasting

LEMMA LastingOperations ==
  ASSUME NEW b, ProperVtd(b), NEW m \in VtdMaps, NEW k, NEW v, NEW r, NEW t
  PROVE  /\ Lasting(b, b) /\ Lasting(b, lab_output(b, r)) /\ Lasting(b, reserve_event(b, t, r))
         /\ Lasting(b, lab_map_update(b, m, k, v)) /\ Lasting(b, bpf_map_delete_elem(b, m, k))
<1>1. Lasting(b, lab_output(b, r))
  <2> DEFINE u == lab_output(b, r)
  <2>1. DOMAIN u = DOMAIN b /\ u.lost \in BOOLEAN /\ (~u.lost => ~b.lost)
    BY FieldNames, Told DEF ProperVtd
  <2> HIDE DEF u
  <2> QED
    BY <2>1 DEF Lasting, ProperVtd, u
<1>2. Lasting(b, lab_map_update(b, m, k, v))
  <2> DEFINE u == lab_map_update(b, m, k, v)
  <2>1. DOMAIN u = DOMAIN b /\ u.lost \in BOOLEAN /\ (~u.lost => ~b.lost)
    BY FieldNames, Updated DEF ProperVtd
  <2> HIDE DEF u
  <2> QED
    BY <2>1 DEF Lasting, ProperVtd, u
<1>3. Lasting(b, bpf_map_delete_elem(b, m, k))
  <2> DEFINE u == bpf_map_delete_elem(b, m, k)
  <2>1. DOMAIN u = DOMAIN b /\ u.lost = b.lost
    BY FieldNames, Deleted DEF ProperVtd
  <2> HIDE DEF u
  <2> QED
    BY <2>1 DEF Lasting, ProperVtd, u
<1>4. Lasting(b, b)
  BY DEF Lasting
<1> QED
  BY <1>1, <1>2, <1>3, <1>4 DEF reserve_event

\* The two compositions the programs are made of.
LEMMA LastingPairs ==
  ASSUME NEW b, ProperVtd(b), NEW m \in VtdMaps, NEW k, NEW v, NEW r, NEW t
  PROVE  /\ Lasting(b, reserve_event(lab_map_update(b, m, k, v), t, r))
         /\ Lasting(b, bpf_map_delete_elem(reserve_event(b, t, r), m, k))
         /\ Lasting(b, lab_output(lab_map_update(b, m, k, v), r))
         /\ Lasting(b, bpf_map_delete_elem(lab_output(b, r), m, k))
<1> DEFINE u == lab_map_update(b, m, k, v)
           w == reserve_event(b, t, r)
           x == lab_output(b, r)
<1>1. Lasting(b, u) /\ Lasting(b, w) /\ Lasting(b, x)
  BY LastingOperations
<1> HIDE DEF u, w, x
<1>2. ProperVtd(u) /\ ProperVtd(w) /\ ProperVtd(x)
  BY <1>1 DEF Lasting
<1>3. /\ Lasting(u, reserve_event(u, t, r)) /\ Lasting(w, bpf_map_delete_elem(w, m, k))
      /\ Lasting(u, lab_output(u, r)) /\ Lasting(x, bpf_map_delete_elem(x, m, k))
  BY <1>2, LastingOperations
<1>4. /\ Lasting(b, reserve_event(u, t, r)) /\ Lasting(b, bpf_map_delete_elem(w, m, k))
      /\ Lasting(b, lab_output(u, r)) /\ Lasting(b, bpf_map_delete_elem(x, m, k))
  BY <1>1, <1>3, LastingIsTransitive
<1> QED
  BY <1>4 DEF u, w, x

LEMMA LastingPrograms ==
  ASSUME NEW b, ProperVtd(b), NEW t, NEW a
  PROVE  /\ Lasting(b, enter_ioctl(b, t, a)) /\ Lasting(b, exit_ioctl(b, t, 0))
         /\ Lasting(b, iommu_map(b, t, a)) /\ Lasting(b, iommu_unmap(b, t, a))
         /\ Lasting(b, attach_device(b, t)) /\ Lasting(b, host_irte_activate(b, t))
         /\ Lasting(b, host_kvm_pi_irte_update(b, t))
         /\ Lasting(b, host_domain_attach_enter(b, t, a))
         /\ Lasting(b, host_domain_attach_exit(b, t, 0))
         /\ Lasting(b, host_qi_submit(b, t, a)) /\ Lasting(b, host_qi_complete(b, t, 0))
         /\ Lasting(b, host_ir_msi_entry(b, t, a)) /\ Lasting(b, host_ir_msi_exit(b, t))
<1>0. Lasting(b, b) /\ "active_operations" \in VtdMaps /\ "host_pending_states" \in VtdMaps
  BY LastingOperations DEF VtdMaps
<1>1. Lasting(b, enter_ioctl(b, t, a))
  <2> DEFINE id == b.request_counter + 1
             b1 == [b EXCEPT !.request_counter = id]
             op == Sample(a, id)
             r  == [Event(b, "IOCTL_ENTER") EXCEPT !.operation = op]
             u  == reserve_event(lab_map_update(b1, "active_operations", t, op), t, r)
  <2>1. ProperVtd(b1) /\ b1.lost = b.lost
    BY FieldNames DEF ProperVtd
  <2>2. enter_ioctl(b, t, a) = IF ~current_process_is_qemu(t) \/ ~is_tracked_ioctl(a.cmd) THEN b ELSE u
    BY DEF enter_ioctl
  <2> HIDE DEF b1, r, op
  <2>3. Lasting(b1, u)
    BY <1>0, <2>1, LastingPairs
  <2> HIDE DEF u
  <2>4. Lasting(b, u)
    BY <2>1, <2>3 DEF Lasting
  <2> QED
    BY <1>0, <2>2, <2>4
<1>2. Lasting(b, exit_ioctl(b, t, 0))
  BY <1>0, LastingPairs DEF exit_ioctl
<1>3. Lasting(b, iommu_map(b, t, a)) /\ Lasting(b, iommu_unmap(b, t, a))
  BY <1>0, LastingOperations DEF iommu_map, iommu_unmap
<1>4. /\ Lasting(b, attach_device(b, t)) /\ Lasting(b, host_irte_activate(b, t))
      /\ Lasting(b, host_kvm_pi_irte_update(b, t))
  BY <1>0, LastingOperations DEF attach_device, host_irte_activate, host_kvm_pi_irte_update
<1>5. Lasting(b, host_domain_attach_enter(b, t, a))
  BY <1>0, LastingPairs DEF host_domain_attach_enter
<1>6. Lasting(b, host_domain_attach_exit(b, t, 0))
  BY <1>0, LastingPairs DEF host_domain_attach_exit
<1>7. Lasting(b, host_qi_submit(b, t, a))
  BY <1>0, LastingPairs DEF host_qi_submit
<1>8. Lasting(b, host_qi_complete(b, t, 0))
  BY <1>0, LastingPairs DEF host_qi_complete
<1>9. Lasting(b, host_ir_msi_entry(b, t, a))
  BY <1>0, LastingOperations DEF host_ir_msi_entry
<1>10. Lasting(b, host_ir_msi_exit(b, t))
  BY <1>0, LastingPairs DEF host_ir_msi_exit
<1> QED
  BY <1>1, <1>2, <1>3, <1>4, <1>5, <1>6, <1>7, <1>8, <1>9, <1>10

\* The requests and the leaves of their tables.
LEMMA RequestLeaf ==
  ASSUME NEW cmd \in {"MAP", "UNMAP"}, NEW c, c.cmd = cmd, c.req \in Requests(cmd),
         NEW leaf \in Leaves, NEW v, v = OperationOf(c)
  PROVE  /\ v.op = cmd
         /\ v.status = "complete" => ((v.all \/ Within(v, leaf)) <=> InRequest(c, leaf))
         /\ v.status = "complete" /\ cmd = "MAP" => ~v.all
<1> DEFINE q == c.req
<1>1. /\ q.cmd = cmd /\ q.iova = 1
      /\ (q.size = 3 /\ q.all = FALSE) \/ (cmd = "UNMAP" /\ q.size = 0 /\ q.all = TRUE)
  <2> DEFINE g == Good(cmd)
  <2>1. /\ DOMAIN g = {"cmd", "iova", "size", "all", "readable", "short"}
        /\ g.cmd = cmd /\ g.iova = 1 /\ g.size = 3 /\ g.all = FALSE
    BY DEF Good
  <2>2. \/ q = g
        \/ q = [g EXCEPT !.readable = FALSE] \/ q = [g EXCEPT !.short = TRUE]
        \/ cmd = "UNMAP" /\ q = [g EXCEPT !.size = 0, !.all = TRUE]
    BY DEF Requests
  <2> HIDE DEF g, q
  <2>3. CASE q = g
    BY <2>1, <2>3
  <2>4. CASE q = [g EXCEPT !.readable = FALSE]
    BY <2>1, <2>4
  <2>5. CASE q = [g EXCEPT !.short = TRUE]
    BY <2>1, <2>5
  <2>6. CASE cmd = "UNMAP" /\ q = [g EXCEPT !.size = 0, !.all = TRUE]
    BY <2>1, <2>6
  <2> QED
    BY <2>2, <2>3, <2>4, <2>5, <2>6
<1>2. v.op = cmd /\ (v.status = "complete" => v.iova = q.iova /\ v.size = q.size /\ v.all = q.all)
  <2>1. CASE ~q.readable
    BY <1>1, <2>1 DEF OperationOf, Sample, NoOperation
  <2>2. CASE q.readable
    BY <1>1, <2>2 DEF OperationOf, Sample
  <2> QED
    BY <2>1, <2>2
<1>3. /\ leaf.iova \in Nat /\ leaf.size \in Nat /\ leaf.size > 0
  BY DEF Leaves
<1>4. ASSUME v.status = "complete", ~q.all
      PROVE  Within(v, leaf) <=> InRequest(c, leaf)
  <2>1. v.iova = 1 /\ v.size = 3 /\ q.iova = 1 /\ q.size = 3
    BY <1>1, <1>2, <1>4
  <2>2. Within(v, leaf) <=> leaf.iova >= 1 /\ leaf.iova + leaf.size <= 4
    BY <1>3, <2>1 DEF Within
  <2>3. InRequest(c, leaf) <=> leaf.iova .. leaf.iova + leaf.size - 1 \subseteq 1 .. 3
    BY <1>4, <2>1 DEF InRequest
  <2>4. leaf.iova .. leaf.iova + leaf.size - 1 \subseteq 1 .. 3
          => leaf.iova \in 1 .. 3 /\ leaf.iova + leaf.size - 1 \in 1 .. 3
    <3> DEFINE ix == leaf.iova
               j == leaf.iova + leaf.size - 1
    <3>1. ix \in ix .. j /\ j \in ix .. j
      BY <1>3
    <3> QED
      BY <3>1
  <2> QED
    BY <1>3, <2>2, <2>3, <2>4
<1>5. ASSUME v.status = "complete", q.all
      PROVE  v.all /\ InRequest(c, leaf)
  BY <1>2, <1>5 DEF InRequest
<1> QED
  BY <1>1, <1>2, <1>4, <1>5

-----------------------------------------------------------------------------
\* What a program finds when nothing was lost.
Finds(t) ==
  /\ SameView(Base) /\ ProperVtd(Base) /\ Base.out = <<>>
  /\ Base.guest_control.phase = "none" /\ Base.request_counter = requests.tracked
  /\ Here(Base, "active_operations", t) = ActiveOf(t, host[t])
  /\ Here(Base, "host_pending_states", t) = OpenOf(t, host[t])

LEMMA HostFinds ==
  ASSUME VtdHostInv, ~vtd_bpf.lost, NEW t \in HostThreads
  PROVE  Finds(t)
BY BaseView DEF VtdHostInv, HostMaps, Finds, SameView, VtdMaps

LEMMA FunctionAdvances ==
  ASSUME VtdHostInv, NEW t \in HostThreads, NEW f, Function(t, f)
  PROVE  /\ Goes(t, host[t], host'[t], f) /\ OnlyCall(t) /\ requests' = requests
         /\ ActiveOf(t, host'[t]) = ActiveOf(t, host[t])
<1> DEFINE c == host[t]
           d == [c EXCEPT !.path = Tail(@), !.open = IF f.kind = "call" THEN f.a ELSE @]
<1>1. DOMAIN c = CallFields /\ (c = NoCall \/ UnderWay(c)) /\ c.path # <<>> /\ f = Head(c.path)
  BY DEF VtdHostInv, HostShape, Function
<1>2. /\ host' = [x \in HostThreads |-> host'[x]]
      /\ \A x \in HostThreads : x # t => host'[x] = host[x]
      /\ host'[t] = d
  BY DEF VtdHostInv, HostShape, Function
<1> HIDE DEF c
<1>3. Goes(t, c, d, f)
  BY <1>1, PathAdvances
<1> HIDE DEF d
<1>4. requests' = requests /\ attached' = attached
  BY DEF Function
<1>5. OnlyCall(t)
  BY <1>2, <1>3, <1>4 DEF OnlyCall, Goes, VtdHostInv, HostShape
<1>6. ActiveOf(t, d) = ActiveOf(t, c)
  BY <1>3 DEF Goes, ActiveOf, OperationOf
<1> QED
  BY <1>2, <1>3, <1>4, <1>5, <1>6 DEF c

\* A step through a function, given what its program does.
LEMMA FunctionKeeps ==
  ASSUME VtdHostInv, NEW t \in HostThreads, NEW f, Function(t, f), Lasting(Base, vtd_bpf'),
         ~vtd_bpf.lost => Effect(Base, vtd_bpf', told', "host_pending_states", t, OpenOf(t, host'[t]))
  PROVE  VtdHostInv' /\ (~vtd_bpf'.lost => Exact')
<1>1. OnlyCall(t) /\ requests' = requests /\ ActiveOf(t, host'[t]) = ActiveOf(t, host[t])
  BY FunctionAdvances
<1>2. Base.lost = vtd_bpf.lost
  BY BaseView DEF SameView, VtdHostInv
<1>3. Lasting(vtd_bpf, vtd_bpf')
  BY <1>2 DEF Lasting
<1>4. ~vtd_bpf.lost => SameView(Base) /\ Base.request_counter = requests'.tracked
  BY <1>1, HostFinds DEF Finds
<1>5. MapsFollow(t, "host_pending_states", OpenOf(t, host'[t]))
  BY <1>1 DEF MapsFollow
<1> QED
  BY <1>1, <1>3, <1>4, <1>5, HostKeeps

LEMMA MappingKeeps ==
  ASSUME VtdHostInv, NEW t \in HostThreads, MappingStep(t)
  PROVE  VtdHostInv' /\ (~vtd_bpf'.lost => Exact')
<1> DEFINE c == host[t]
           f == Head(c.path)
           u == vtd_bpf'
           v == OperationOf(c)
           kind == IF f.fn = "iommu_map" THEN "IOMMU_MAP" ELSE "IOMMU_UNMAP"
           says == Followed(t, c.cmd) /\ v.status = "complete" /\ InRequest(c, f.a)
<1>1. /\ Function(t, f) /\ f.fn \in {"iommu_map", "iommu_unmap"}
      /\ u = IF f.fn = "iommu_map" THEN iommu_map(Base, t, f.a) ELSE iommu_unmap(Base, t, f.a)
      /\ told' = Tell(says, Say(kind, v, <<f.a.iova, f.a.size>>, None, "none"))
  BY DEF MappingStep, Fire, Base
<1>2. Goes(t, c, host'[t], f)
  BY <1>1, FunctionAdvances
<1>3. ProperVtd(Base)
  BY BaseView DEF VtdHostInv, SameView
<1>4. Lasting(Base, u)
  BY <1>1, <1>3, LastingPrograms
<1>5. ASSUME ~vtd_bpf.lost
      PROVE  Effect(Base, u, told', "host_pending_states", t, OpenOf(t, host'[t]))
  <2>1. Finds(t)
    BY <1>5, HostFinds
  <2>2. /\ c.cmd \in {"MAP", "UNMAP"} /\ c.req \in Requests(c.cmd) /\ f.a \in Leaves
        /\ (c.cmd = "MAP" <=> f.fn = "iommu_map")
        /\ OpenOf(t, c) = {} /\ OpenOf(t, host'[t]) = {}
    BY <1>1, <1>2 DEF Goes, Belongs, Traced
  <2> HIDE DEF c, f, u
  <2>3. /\ v.op = c.cmd
        /\ v.status = "complete" => ((v.all \/ Within(v, f.a)) <=> InRequest(c, f.a))
        /\ v.status = "complete" /\ c.cmd = "MAP" => ~v.all
    BY <2>2, RequestLeaf
  <2>4. Here(Base, "host_pending_states", t) = {} /\ Base.guest_control.phase = "none"
    BY <2>1, <2>2 DEF Finds, c
  <2>5. Effect(Base, Base, <<>>, "host_pending_states", t, {})
    BY <2>1, <2>4, NoEffect DEF Finds
  <2> DEFINE r == Say(kind, v, <<f.a.iova, f.a.size>>, None, "none")
  <2>6. told' = Tell(says, r)
    BY <1>1
  <2>7. CASE ~Followed(t, c.cmd)
    <3>1. Here(Base, "active_operations", t) = {}
      BY <2>1, <2>7 DEF Finds, ActiveOf, c
    <3>2. u = Base
      BY <1>1, <2>1, <3>1, MapHook, UnmapHook DEF Finds
    <3>3. told' = <<>>
      BY <2>6, <2>7 DEF Tell
    <3> QED
      BY <2>2, <2>5, <3>2, <3>3 DEF u
  <2>8. CASE Followed(t, c.cmd)
    <3>1. Here(Base, "active_operations", t) = {v} /\ t \in Qemu
      BY <2>1, <2>8 DEF Finds, ActiveOf, Followed, current_process_is_qemu, c
    <3> HIDE DEF v
    <3>2. CASE f.fn = "iommu_map"
      <4> DEFINE x == v.op = "MAP" /\ v.status = "complete" /\ Within(v, f.a)
                 y == Say("IOMMU_MAP", v, <<f.a.iova, f.a.size>>, None, "none")
      <4>1. u = iommu_map(Base, t, f.a) /\ c.cmd = "MAP" /\ r = y
        BY <1>1, <2>2, <3>2
      <4>2. says <=> x
        BY <2>3, <2>8, <4>1
      <4>3. Effect(Base, u, Tell(x, y), "host_pending_states", t, {})
        BY <2>1, <2>4, <3>1, <4>1, MapHook DEF Finds
      <4> HIDE DEF says, x, r, y
      <4>4. told' = Tell(x, y)
        BY <2>6, <4>1, <4>2 DEF Tell
      <4> QED
        BY <2>2, <4>3, <4>4
    <3>3. CASE f.fn # "iommu_map"
      <4> DEFINE x == v.op = "UNMAP" /\ v.status = "complete" /\ (v.all \/ Within(v, f.a))
                 y == Say("IOMMU_UNMAP", v, <<f.a.iova, f.a.size>>, None, "none")
      <4>1. u = iommu_unmap(Base, t, f.a) /\ c.cmd = "UNMAP" /\ r = y
        BY <1>1, <2>2, <3>3
      <4>2. says <=> x
        BY <2>3, <2>8, <4>1
      <4>3. Effect(Base, u, Tell(x, y), "host_pending_states", t, {})
        BY <2>1, <2>4, <3>1, <4>1, UnmapHook DEF Finds
      <4> HIDE DEF says, x, r, y
      <4>4. told' = Tell(x, y)
        BY <2>6, <4>1, <4>2 DEF Tell
      <4> QED
        BY <2>2, <4>3, <4>4
    <3> QED
      BY <3>2, <3>3
  <2> QED
    BY <2>7, <2>8 DEF u
<1> QED
  BY <1>1, <1>4, <1>5, FunctionKeeps

LEMMA RequestOp ==
  ASSUME NEW cmd, NEW q \in Requests(cmd), NEW id
  PROVE  q.cmd = cmd /\ Sample(q, id).op = cmd
<1> DEFINE g == Good(cmd)
<1>1. /\ DOMAIN g = {"cmd", "iova", "size", "all", "readable", "short"} /\ g.cmd = cmd
  BY DEF Good
<1>2. \/ q = g \/ q = [g EXCEPT !.readable = FALSE] \/ q = [g EXCEPT !.short = TRUE]
      \/ q = [g EXCEPT !.size = 0, !.all = TRUE]
  BY DEF Requests
<1> HIDE DEF g
<1>3. q.cmd = cmd
  BY <1>1, <1>2
<1>4. Sample(q, id).op = q.cmd
  BY DEF Sample, NoOperation
<1> QED
  BY <1>3, <1>4

\* The step of a program that does nothing and has nothing to tell.
LEMMA IdleFunction ==
  ASSUME NEW t, Finds(t), OpenOf(t, host[t]) = {}, vtd_bpf' = Base, told' = <<>>
  PROVE  Effect(Base, vtd_bpf', told', "host_pending_states", t, {})
BY NoEffect DEF Finds

LEMMA LastingSelf ==
  ASSUME NEW b, ProperVtd(b)
  PROVE  Lasting(b, b)
BY DEF Lasting

LEMMA FlushKeeps ==
  ASSUME VtdHostInv, NEW t \in HostThreads, FlushStep(t)
  PROVE  VtdHostInv' /\ (~vtd_bpf'.lost => Exact')
<1> DEFINE c == host[t]
           f == Head(c.path)
           u == vtd_bpf'
           v == OperationOf(c)
           sees == Sees(t, c.cmd, "qi")
           r == IF f.kind = "call" THEN Say("QI_SUBMIT", v, f.a, None, "none")
                ELSE Say("QI_COMPLETE", v, c.open, 0, "none")
<1>1. /\ Function(t, f) /\ f.fn = "qi"
      /\ u = CASE "qi" \notin attached -> Base
               [] "qi" \in attached /\ f.kind = "call" -> host_qi_submit(Base, t, f.a)
               [] OTHER -> host_qi_complete(Base, t, 0)
      /\ told' = Tell(sees, r)
  BY DEF FlushStep, Fire, Base, Sees, current_process_is_qemu
<1>2. Goes(t, c, host'[t], f)
  BY <1>1, FunctionAdvances
<1>3. ProperVtd(Base)
  BY BaseView DEF VtdHostInv, SameView
<1>4. Lasting(Base, u)
  <2> HIDE DEF c, f, u
  <2>1. /\ Lasting(Base, Base) /\ Lasting(Base, host_qi_submit(Base, t, f.a))
        /\ Lasting(Base, host_qi_complete(Base, t, 0))
    BY <1>3, LastingPrograms, LastingSelf
  <2>2. u = Base \/ u = host_qi_submit(Base, t, f.a) \/ u = host_qi_complete(Base, t, 0)
    BY <1>1
  <2> QED
    BY <2>1, <2>2
<1>5. ASSUME ~vtd_bpf.lost
      PROVE  Effect(Base, u, told', "host_pending_states", t, OpenOf(t, host'[t]))
  <2>1. Finds(t)
    BY <1>5, HostFinds
  <2>2. /\ c.cmd \in Commands /\ c.req \in Requests(c.cmd) /\ f.kind \in {"call", "return"}
        /\ OpenOf(t, c) = (IF f.kind = "return" /\ sees THEN {c.open} ELSE {})
        /\ OpenOf(t, host'[t]) = (IF f.kind = "call" /\ sees THEN {f.a} ELSE {})
    BY <1>1, <1>2 DEF Goes, Belongs
  <2>3. v.op = c.cmd
    BY <2>2, RequestOp DEF OperationOf
  <2>4. /\ Here(Base, "active_operations", t) = ActiveOf(t, c)
        /\ Here(Base, "host_pending_states", t) = OpenOf(t, c)
        /\ ProperVtd(Base) /\ Base.out = <<>> /\ Base.guest_control.phase = "none"
    BY <2>1 DEF Finds
  <2>5. ActiveOf(t, c) = {} \/ ActiveOf(t, c) = {v}
    BY DEF ActiveOf
  <2>6. sees => ActiveOf(t, c) = {v} /\ t \in Qemu /\ "qi" \in attached /\ v.op \in {"MAP", "UNMAP"}
    BY <2>3 DEF ActiveOf, Sees, Followed, is_tracked_ioctl, current_process_is_qemu
  <2>7. ~sees /\ "qi" \in attached => ActiveOf(t, c) = {} \/ v.op \notin {"MAP", "UNMAP"}
    BY <2>3 DEF ActiveOf, Sees, Followed, is_tracked_ioctl, current_process_is_qemu
  <2> HIDE DEF c, f, v, sees, u
  <2>8. CASE ~sees
    <3>1. told' = <<>>
      BY <1>1, <2>8 DEF Tell
    <3>2. OpenOf(t, c) = {} /\ OpenOf(t, host'[t]) = {}
      BY <2>2, <2>8
    <3>3. u = Base
      <4>1. CASE "qi" \notin attached
        BY <1>1, <4>1
      <4>2. CASE "qi" \in attached /\ f.kind = "call"
        <5>1. u = host_qi_submit(Base, t, f.a)
          BY <1>1, <4>2
        <5>2. \/ Here(Base, "active_operations", t) = {}
              \/ Here(Base, "active_operations", t) = {v} /\ v.op \notin {"MAP", "UNMAP"}
          BY <2>4, <2>5, <2>7, <2>8, <4>2
        <5> QED
          BY <5>1, <5>2, QiSubmitIdle
      <4>3. CASE "qi" \in attached /\ f.kind # "call"
        <5>1. u = host_qi_complete(Base, t, 0)
          BY <1>1, <4>3
        <5> QED
          BY <2>4, <3>2, <5>1, QiComplete
      <4> QED
        BY <4>1, <4>2, <4>3
    <3> QED
      BY <2>1, <3>1, <3>2, <3>3, IdleFunction DEF u, c
  <2>9. CASE sees
    <3>1. told' = <<r>>
      BY <1>1, <2>9 DEF Tell
    <3>2. CASE f.kind = "call"
      <4>1. u = host_qi_submit(Base, t, f.a)
        BY <1>1, <2>6, <2>9, <3>2
      <4>2. Here(Base, "active_operations", t) = {v} /\ v.op \in {"MAP", "UNMAP"} /\ t \in Qemu
        BY <2>4, <2>6, <2>9
      <4>3. Effect(Base, u, <<Say("QI_SUBMIT", v, f.a, None, "none")>>, "host_pending_states", t, {f.a})
        BY <2>4, <4>1, <4>2, QiSubmit
      <4> QED
        BY <2>2, <2>9, <3>1, <3>2, <4>3
    <3>3. CASE f.kind # "call"
      <4>1. u = host_qi_complete(Base, t, 0)
        BY <1>1, <2>6, <2>9, <3>3
      <4>2. /\ Here(Base, "active_operations", t) = {v} /\ t \in Qemu
            /\ Here(Base, "host_pending_states", t) = {c.open}
        BY <2>2, <2>4, <2>6, <2>9, <3>3
      <4>3. Effect(Base, u, <<Say("QI_COMPLETE", v, c.open, 0, "none")>>, "host_pending_states", t, {})
        BY <2>4, <4>1, <4>2, QiComplete
      <4> QED
        BY <2>2, <2>9, <3>1, <3>3, <4>3
    <3> QED
      BY <3>2, <3>3
  <2> QED
    BY <2>8, <2>9
<1> QED
  BY <1>1, <1>4, <1>5, FunctionKeeps

LEMMA DomainKeeps ==
  ASSUME VtdHostInv, NEW t \in HostThreads, DomainStep(t)
  PROVE  VtdHostInv' /\ (~vtd_bpf'.lost => Exact')
<1> DEFINE c == host[t]
           f == Head(c.path)
           u == vtd_bpf'
           sees == Sees(t, c.cmd, "domain")
           says == t \in Qemu /\ (f.fn = "domain" => "domain" \in attached)
           r == CASE f.fn = "attach" -> Say("DEVICE_ATTACH", NoOperation, <<>>, None, "none")
                  [] f.fn = "domain" /\ f.kind = "call" ->
                       Say("DOMAIN_ATTACH_ENTER", NoOperation, f.a, None, "none")
                  [] OTHER -> Say("DOMAIN_ATTACH_EXIT", NoOperation, c.open, 0, "none")
<1>1. /\ Function(t, f) /\ f.fn \in {"attach", "domain"}
      /\ u = CASE f.fn = "attach" -> attach_device(Base, t)
               [] f.fn = "domain" /\ "domain" \notin attached -> Base
               [] f.fn = "domain" /\ "domain" \in attached /\ f.kind = "call" ->
                    host_domain_attach_enter(Base, t, f.a)
               [] OTHER -> host_domain_attach_exit(Base, t, 0)
      /\ told' = Tell(says, r)
  BY DEF DomainStep, Fire, Base, current_process_is_qemu
<1>2. Goes(t, c, host'[t], f)
  BY <1>1, FunctionAdvances
<1>3. ProperVtd(Base)
  BY BaseView DEF VtdHostInv, SameView
<1>4. Lasting(Base, u)
  <2> HIDE DEF c, f, u
  <2>1. /\ Lasting(Base, Base) /\ Lasting(Base, attach_device(Base, t))
        /\ Lasting(Base, host_domain_attach_enter(Base, t, f.a))
        /\ Lasting(Base, host_domain_attach_exit(Base, t, 0))
    BY <1>3, LastingPrograms, LastingSelf
  <2>2. \/ u = Base \/ u = attach_device(Base, t)
        \/ u = host_domain_attach_enter(Base, t, f.a) \/ u = host_domain_attach_exit(Base, t, 0)
    BY <1>1
  <2> QED
    BY <2>1, <2>2
<1>5. ASSUME ~vtd_bpf.lost
      PROVE  Effect(Base, u, told', "host_pending_states", t, OpenOf(t, host'[t]))
  <2>1. Finds(t)
    BY <1>5, HostFinds
  <2>2. /\ f.fn = "domain" => f.kind \in {"call", "return"}
        /\ f.fn = "attach" => f.kind \notin {"call", "return"}
        /\ OpenOf(t, c) = (IF f.kind = "return" /\ sees THEN {c.open} ELSE {})
        /\ OpenOf(t, host'[t]) = (IF f.kind = "call" /\ sees THEN {f.a} ELSE {})
    BY <1>1, <1>2 DEF Goes, Belongs
  <2>3. sees <=> "domain" \in attached /\ t \in Qemu
    BY DEF Sees
  <2>4. /\ Here(Base, "host_pending_states", t) = OpenOf(t, c)
        /\ ProperVtd(Base) /\ Base.out = <<>> /\ Base.guest_control.phase = "none"
    BY <2>1 DEF Finds
  <2> HIDE DEF c, f, sees, u
  <2>5. CASE ~says
    <3>1. told' = <<>>
      BY <1>1, <2>5 DEF Tell
    <3>2. OpenOf(t, c) = {} /\ OpenOf(t, host'[t]) = {}
      BY <1>1, <2>2, <2>3, <2>5
    <3>3. u = Base
      <4>1. CASE f.fn = "attach"
        <5>1. u = reserve_event(Base, t, Event(Base, "DEVICE_ATTACH"))
          BY <1>1, <4>1 DEF attach_device
        <5>2. t \notin Qemu
          BY <2>5, <4>1
        <5> HIDE DEF says, r
        <5> QED
          BY <2>4, <5>1, <5>2, PlainHook
      <4>2. CASE f.fn = "domain" /\ "domain" \notin attached
        BY <1>1, <4>2
      <4>3. CASE f.fn = "domain" /\ "domain" \in attached /\ f.kind = "call"
        <5>1. u = host_domain_attach_enter(Base, t, f.a)
          BY <1>1, <4>3
        <5>2. t \notin Qemu
          BY <2>5, <4>3
        <5> QED
          BY <2>4, <5>1, <5>2, DomainEnter
      <4>4. CASE f.fn = "domain" /\ "domain" \in attached /\ f.kind # "call"
        <5>1. u = host_domain_attach_exit(Base, t, 0)
          BY <1>1, <4>4
        <5> QED
          BY <2>4, <3>2, <5>1, DomainExit
      <4> QED
        BY <1>1, <4>1, <4>2, <4>3, <4>4
    <3> QED
      BY <2>1, <3>1, <3>2, <3>3, IdleFunction DEF u, c
  <2>6. CASE says
    <3>1. told' = <<r>> /\ t \in Qemu
      BY <1>1, <2>6 DEF Tell
    <3>2. CASE f.fn = "attach"
      <4>1. u = reserve_event(Base, t, Event(Base, "DEVICE_ATTACH"))
        BY <1>1, <3>2 DEF attach_device
      <4>2. OpenOf(t, c) = {} /\ OpenOf(t, host'[t]) = {}
        BY <2>2, <3>2
      <4>3. Effect(Base, u, <<Say("DEVICE_ATTACH", NoOperation, <<>>, None, "none")>>,
                   "host_pending_states", t, {})
        <5>1. t \in Qemu /\ Here(Base, "host_pending_states", t) = {}
          BY <2>4, <3>1, <4>2
        <5> HIDE DEF says, r
        <5> QED
          BY <2>4, <4>1, <5>1, PlainHook
      <4> QED
        BY <3>1, <3>2, <4>2, <4>3
    <3>3. CASE f.fn = "domain" /\ f.kind = "call"
      <4>1. u = host_domain_attach_enter(Base, t, f.a)
        BY <1>1, <2>6, <3>3
      <4>2. Effect(Base, u, <<Say("DOMAIN_ATTACH_ENTER", NoOperation, f.a, None, "none")>>,
                   "host_pending_states", t, {f.a})
        BY <2>4, <3>1, <4>1, DomainEnter
      <4>3. OpenOf(t, host'[t]) = {f.a}
        BY <2>2, <2>3, <2>6, <3>3
      <4> QED
        BY <3>1, <3>3, <4>2, <4>3
    <3>4. CASE f.fn = "domain" /\ f.kind # "call"
      <4>1. u = host_domain_attach_exit(Base, t, 0)
        BY <1>1, <2>6, <3>4
      <4>2. Here(Base, "host_pending_states", t) = {c.open} /\ OpenOf(t, host'[t]) = {}
        BY <2>2, <2>3, <2>4, <2>6, <3>4
      <4>3. Effect(Base, u, <<Say("DOMAIN_ATTACH_EXIT", NoOperation, c.open, 0, "none")>>,
                   "host_pending_states", t, {})
        BY <2>4, <3>1, <4>1, <4>2, DomainExit
      <4> QED
        BY <3>1, <3>4, <4>2, <4>3
    <3> QED
      BY <1>1, <3>2, <3>3, <3>4
  <2> QED
    BY <2>5, <2>6
<1> QED
  BY <1>1, <1>4, <1>5, FunctionKeeps

LEMMA InterruptKeeps ==
  ASSUME VtdHostInv, NEW t \in HostThreads, InterruptStep(t)
  PROVE  VtdHostInv' /\ (~vtd_bpf'.lost => Exact')
<1> DEFINE c == host[t]
           f == Head(c.path)
           u == vtd_bpf'
           sees == Sees(t, c.cmd, f.fn)
           says == t \in Qemu /\ f.fn \in attached /\ f.kind # "call"
           r == CASE f.fn = "irte" -> Say("IRTE_ACTIVATE", NoOperation, <<>>, None, "none")
                  [] f.fn = "pi" -> Say("KVM_PI_IRTE_UPDATE", NoOperation, <<>>, None, "none")
                  [] OTHER -> Say("IR_MSI_MESSAGE", NoOperation, c.open, None, "none")
<1>1. /\ Function(t, f) /\ f.fn \in {"irte", "msi", "pi"}
      /\ u = CASE f.fn \notin attached -> Base
               [] f.fn \in attached /\ f.fn = "irte" -> host_irte_activate(Base, t)
               [] f.fn \in attached /\ f.fn = "pi" -> host_kvm_pi_irte_update(Base, t)
               [] f.fn \in attached /\ f.fn = "msi" /\ f.kind = "call" ->
                    host_ir_msi_entry(Base, t, f.a)
               [] OTHER -> host_ir_msi_exit(Base, t)
      /\ told' = Tell(says, r)
  BY DEF InterruptStep, Fire, Base, current_process_is_qemu
<1>2. Goes(t, c, host'[t], f)
  BY <1>1, FunctionAdvances
<1>3. ProperVtd(Base)
  BY BaseView DEF VtdHostInv, SameView
<1>4. Lasting(Base, u)
  <2> HIDE DEF c, f, u
  <2>1. /\ Lasting(Base, Base) /\ Lasting(Base, host_irte_activate(Base, t))
        /\ Lasting(Base, host_kvm_pi_irte_update(Base, t))
        /\ Lasting(Base, host_ir_msi_entry(Base, t, f.a)) /\ Lasting(Base, host_ir_msi_exit(Base, t))
    BY <1>3, LastingPrograms, LastingSelf
  <2>2. \/ u = Base \/ u = host_irte_activate(Base, t) \/ u = host_kvm_pi_irte_update(Base, t)
        \/ u = host_ir_msi_entry(Base, t, f.a) \/ u = host_ir_msi_exit(Base, t)
    BY <1>1
  <2> QED
    BY <2>1, <2>2
<1>5. ASSUME ~vtd_bpf.lost
      PROVE  Effect(Base, u, told', "host_pending_states", t, OpenOf(t, host'[t]))
  <2>1. Finds(t)
    BY <1>5, HostFinds
  <2>2. /\ f.fn = "msi" => f.kind \in {"call", "return"}
        /\ f.fn # "msi" => f.kind \notin {"call", "return"}
        /\ OpenOf(t, c) = (IF f.kind = "return" /\ sees THEN {c.open} ELSE {})
        /\ OpenOf(t, host'[t]) = (IF f.kind = "call" /\ sees THEN {f.a} ELSE {})
    BY <1>1, <1>2 DEF Goes, Belongs
  <2>3. sees <=> f.fn \in attached /\ t \in Qemu
    BY <1>1 DEF Sees
  <2>4. /\ Here(Base, "host_pending_states", t) = OpenOf(t, c)
        /\ ProperVtd(Base) /\ Base.out = <<>> /\ Base.guest_control.phase = "none"
    BY <2>1 DEF Finds
  <2> HIDE DEF c, f, sees, u
  <2>5. CASE ~sees
    <3>1. told' = <<>>
      BY <1>1, <2>3, <2>5 DEF Tell
    <3>2. OpenOf(t, c) = {} /\ OpenOf(t, host'[t]) = {}
      BY <2>2, <2>5
    <3>3. u = Base
      <4>1. CASE f.fn \notin attached
        BY <1>1, <4>1
      <4>2. CASE t \notin Qemu /\ f.fn \in attached
        <5>1. CASE f.fn = "irte"
          <6>1. u = reserve_event(Base, t, Event(Base, "IRTE_ACTIVATE"))
            BY <1>1, <4>2, <5>1 DEF host_irte_activate
          <6> HIDE DEF says, r
          <6> QED
            BY <2>4, <4>2, <6>1, PlainHook
        <5>2. CASE f.fn = "pi"
          <6>1. u = reserve_event(Base, t, Event(Base, "KVM_PI_IRTE_UPDATE"))
            BY <1>1, <4>2, <5>2 DEF host_kvm_pi_irte_update
          <6> HIDE DEF says, r
          <6> QED
            BY <2>4, <4>2, <6>1, PlainHook
        <5>3. CASE f.fn = "msi" /\ f.kind = "call"
          <6>1. u = host_ir_msi_entry(Base, t, f.a)
            BY <1>1, <4>2, <5>3
          <6> HIDE DEF says, r
          <6> QED
            BY <2>4, <4>2, <6>1, MsiEntry
        <5>4. CASE f.fn = "msi" /\ f.kind # "call"
          <6>1. u = host_ir_msi_exit(Base, t)
            BY <1>1, <4>2, <5>4
          <6> HIDE DEF says, r
          <6> QED
            BY <2>4, <3>2, <6>1, MsiExit
        <5> QED
          BY <1>1, <5>1, <5>2, <5>3, <5>4
      <4> QED
        BY <2>3, <2>5, <4>1, <4>2
    <3> QED
      BY <2>1, <3>1, <3>2, <3>3, IdleFunction DEF u, c
  <2>6. CASE sees
    <3>0. f.fn \in attached /\ t \in Qemu
      BY <2>3, <2>6
    <3>1. told' = IF f.kind # "call" THEN <<r>> ELSE <<>>
      BY <1>1, <3>0 DEF Tell
    <3>2. CASE f.fn = "irte"
      <4>1. u = reserve_event(Base, t, Event(Base, "IRTE_ACTIVATE"))
        BY <1>1, <3>0, <3>2 DEF host_irte_activate
      <4>2. OpenOf(t, c) = {} /\ OpenOf(t, host'[t]) = {}
        BY <2>2, <3>2
      <4>3. Effect(Base, u, <<Say("IRTE_ACTIVATE", NoOperation, <<>>, None, "none")>>,
                   "host_pending_states", t, {})
        <5>1. Here(Base, "host_pending_states", t) = {}
          BY <2>4, <4>2
        <5> HIDE DEF says, r
        <5> QED
          BY <2>4, <3>0, <4>1, <5>1, PlainHook
      <4>4. told' = <<Say("IRTE_ACTIVATE", NoOperation, <<>>, None, "none")>>
        BY <2>2, <3>1, <3>2
      <4> QED
        BY <4>2, <4>3, <4>4
    <3>3. CASE f.fn = "pi"
      <4>1. u = reserve_event(Base, t, Event(Base, "KVM_PI_IRTE_UPDATE"))
        BY <1>1, <3>0, <3>3 DEF host_kvm_pi_irte_update
      <4>2. OpenOf(t, c) = {} /\ OpenOf(t, host'[t]) = {}
        BY <2>2, <3>3
      <4>3. Effect(Base, u, <<Say("KVM_PI_IRTE_UPDATE", NoOperation, <<>>, None, "none")>>,
                   "host_pending_states", t, {})
        <5>1. Here(Base, "host_pending_states", t) = {}
          BY <2>4, <4>2
        <5> HIDE DEF says, r
        <5> QED
          BY <2>4, <3>0, <4>1, <5>1, PlainHook
      <4>4. told' = <<Say("KVM_PI_IRTE_UPDATE", NoOperation, <<>>, None, "none")>>
        BY <2>2, <3>1, <3>3
      <4> QED
        BY <4>2, <4>3, <4>4
    <3>4. CASE f.fn = "msi" /\ f.kind = "call"
      <4>1. u = host_ir_msi_entry(Base, t, f.a)
        BY <1>1, <3>0, <3>4
      <4>2. Effect(Base, u, <<>>, "host_pending_states", t, {f.a})
        BY <2>4, <3>0, <4>1, MsiEntry
      <4>3. OpenOf(t, host'[t]) = {f.a}
        BY <2>2, <2>6, <3>4
      <4> QED
        BY <3>1, <3>4, <4>2, <4>3
    <3>5. CASE f.fn = "msi" /\ f.kind # "call"
      <4>1. u = host_ir_msi_exit(Base, t)
        BY <1>1, <3>0, <3>5
      <4>2. Here(Base, "host_pending_states", t) = {c.open} /\ OpenOf(t, host'[t]) = {}
        BY <2>2, <2>4, <2>6, <3>5
      <4>3. Effect(Base, u, <<Say("IR_MSI_MESSAGE", NoOperation, c.open, None, "none")>>,
                   "host_pending_states", t, {})
        BY <2>4, <3>0, <4>1, <4>2, MsiExit
      <4> QED
        BY <3>1, <3>5, <4>2, <4>3
    <3> QED
      BY <1>1, <3>2, <3>3, <3>4, <3>5
  <2> QED
    BY <2>5, <2>6
<1> QED
  BY <1>1, <1>4, <1>5, FunctionKeeps

LEMMA IoctlExitKeeps ==
  ASSUME VtdHostInv, NEW t \in HostThreads, IoctlExit(t)
  PROVE  VtdHostInv' /\ (~vtd_bpf'.lost => Exact')
<1> DEFINE c == host[t]
           u == vtd_bpf'
           v == OperationOf(c)
           r == Say("IOCTL_EXIT", v, <<>>, 0, "none")
<1>1. /\ c.cmd # None /\ c.path = <<>> /\ u = exit_ioctl(Base, t, 0)
      /\ told' = Tell(Followed(t, c.cmd), r)
      /\ host' = [host EXCEPT ![t] = NoCall] /\ requests' = requests /\ attached' = attached
  BY DEF IoctlExit, Fire, Base
<1>2. host'[t] = NoCall /\ OnlyCall(t)
  <2>1. DOMAIN NoCall = CallFields
    BY DEF NoCall, CallFields
  <2> QED
    BY <1>1, <2>1 DEF OnlyCall, VtdHostInv, HostShape
<1>3. ProperVtd(Base) /\ Base.lost = vtd_bpf.lost
  BY BaseView DEF VtdHostInv, SameView
<1>4. Lasting(vtd_bpf, u)
  BY <1>1, <1>3, LastingPrograms DEF Lasting
<1>5. OpenOf(t, c) = {} /\ OpenOf(t, NoCall) = {} /\ ActiveOf(t, NoCall) = {}
  BY <1>1 DEF OpenOf, AtReturn, ActiveOf, NoCall, Followed, is_tracked_ioctl, None
<1>6. MapsFollow(t, "active_operations", {})
  BY <1>2, <1>5 DEF MapsFollow
<1>7. ASSUME ~vtd_bpf.lost
      PROVE  /\ SameView(Base) /\ Base.request_counter = requests'.tracked
             /\ Effect(Base, u, told', "active_operations", t, {})
  <2>1. Finds(t)
    BY <1>7, HostFinds
  <2>2. /\ Here(Base, "active_operations", t) = ActiveOf(t, c) /\ SameView(Base)
        /\ ProperVtd(Base) /\ Base.out = <<>> /\ Base.guest_control.phase = "none"
        /\ Base.request_counter = requests'.tracked
    BY <1>1, <2>1 DEF Finds
  <2> HIDE DEF c, u, v
  <2>3. CASE ~Followed(t, c.cmd)
    <3>1. Here(Base, "active_operations", t) = {} /\ told' = <<>>
      BY <1>1, <2>2, <2>3 DEF ActiveOf, Tell
    <3>2. u = Base
      BY <1>1, <2>2, <3>1, ExitIoctl
    <3> QED
      BY <2>2, <3>1, <3>2, NoEffect
  <2>4. CASE Followed(t, c.cmd)
    <3>1. Here(Base, "active_operations", t) = {v} /\ t \in Qemu /\ told' = <<r>>
      BY <1>1, <2>2, <2>4 DEF ActiveOf, Tell, Followed, current_process_is_qemu, v
    <3>2. Effect(Base, u, <<r>>, "active_operations", t, {})
      BY <1>1, <2>2, <3>1, ExitIoctl
    <3> QED
      BY <2>2, <3>1, <3>2
  <2> QED
    BY <2>3, <2>4
<1> HIDE DEF u
<1>8. ~vtd_bpf.lost => /\ SameView(Base) /\ Base.request_counter = requests'.tracked
                       /\ Effect(Base, vtd_bpf', told', "active_operations", t, {})
                       /\ MapsFollow(t, "active_operations", {})
  BY <1>6, <1>7 DEF u
<1> QED
  BY <1>2, <1>4, <1>8, HostKeeps DEF u

LEMMA IoctlEnterKeeps ==
  ASSUME VtdHostInv, NEW t \in HostThreads, IoctlEnter(t)
  PROVE  VtdHostInv' /\ (~vtd_bpf'.lost => Exact')
<1>1. PICK cmd \in Commands : \E a \in Requests(cmd), leaf \in LeavesOf(cmd) :
        LET tracked == requests.tracked + (IF Followed(t, cmd) THEN 1 ELSE 0)
            id == IF Followed(t, cmd) THEN tracked ELSE 0
        IN /\ mode = "host" /\ host[t].cmd = None /\ requests.made < MaxIoctls
           /\ host' = [host EXCEPT ![t] = [cmd |-> cmd, id |-> id, req |-> a,
                                           path |-> PathOf(cmd, leaf), open |-> <<>>]]
           /\ requests' = [made |-> requests.made + 1, tracked |-> tracked]
           /\ LET Hook(b) == enter_ioctl(b, t, a)
              IN Fire(Hook, Tell(Followed(t, cmd),
                                 Say("IOCTL_ENTER", Sample(a, id), <<>>, None, "none")))
           /\ UNCHANGED <<mode, attached, guest>>
  BY DEF IoctlEnter
<1> DEFINE tracked == requests.tracked + (IF Followed(t, cmd) THEN 1 ELSE 0)
           id == IF Followed(t, cmd) THEN tracked ELSE 0
           u == vtd_bpf'
<1>2. PICK a \in Requests(cmd), leaf \in LeavesOf(cmd) :
        /\ host[t].cmd = None
        /\ host' = [host EXCEPT ![t] = [cmd |-> cmd, id |-> id, req |-> a,
                                        path |-> PathOf(cmd, leaf), open |-> <<>>]]
        /\ requests' = [made |-> requests.made + 1, tracked |-> tracked]
        /\ u = enter_ioctl(Base, t, a)
        /\ told' = Tell(Followed(t, cmd), Say("IOCTL_ENTER", Sample(a, id), <<>>, None, "none"))
        /\ attached' = attached
  BY <1>1 DEF Fire, Base
<1> DEFINE d == [cmd |-> cmd, id |-> id, req |-> a, path |-> PathOf(cmd, leaf), open |-> <<>>]
           v == Sample(a, id)
           r == Say("IOCTL_ENTER", v, <<>>, None, "none")
<1>3. requests.tracked \in Nat /\ tracked \in Nat /\ requests'.tracked = tracked
  BY <1>2 DEF VtdHostInv, HostShape
<1>4. /\ d.cmd = cmd /\ d.id = id /\ d.req = a /\ d.path = PathOf(cmd, leaf)
      /\ DOMAIN d = CallFields
  BY DEF CallFields
<1>5. /\ host' = [x \in HostThreads |-> host'[x]]
      /\ \A x \in HostThreads : x # t => host'[x] = host[x]
      /\ host'[t] = d
  BY <1>2 DEF VtdHostInv, HostShape
<1>6. WellFormed(cmd, d.path)
  BY <1>4, EveryPathWellFormed
<1> HIDE DEF d, tracked, id, u
<1>7. UnderWay(d)
  BY <1>4, <1>6, FromStart DEF UnderWay, WellFormed
<1>8. OnlyCall(t)
  BY <1>2, <1>3, <1>4, <1>5, <1>7 DEF OnlyCall
<1>9. ProperVtd(Base) /\ Base.lost = vtd_bpf.lost
  BY BaseView DEF VtdHostInv, SameView
<1>10. Lasting(vtd_bpf, u)
  BY <1>2, <1>9, LastingPrograms DEF Lasting
<1>11. OpenOf(t, d) = {}
  <2>1. CASE d.path = <<>>
    BY <2>1 DEF OpenOf, AtReturn
  <2>2. CASE d.path # <<>>
    <3>1. d.path \in Seq(Traced) /\ From(d.path, d.path, 1)
      BY <1>6, FromStart DEF WellFormed
    <3>2. Head(d.path) = d.path[1] /\ 1 \in 1 .. Len(d.path)
      BY <2>2, <3>1, FromHead
    <3>3. d.path[1].kind # "return"
      BY <1>6, <3>2 DEF WellFormed, PairedAt
    <3> QED
      BY <3>2, <3>3 DEF OpenOf, AtReturn
  <2> QED
    BY <2>1, <2>2
<1>12. OpenOf(t, host[t]) = {} /\ ActiveOf(t, host[t]) = {}
  <2>1. host[t] = NoCall
    BY <1>2 DEF VtdHostInv, HostShape, UnderWay, Commands, None
  <2> QED
    BY <2>1 DEF OpenOf, AtReturn, ActiveOf, NoCall, Followed, is_tracked_ioctl, None
<1>13. a.cmd = cmd
  BY RequestOp
<1>14. ActiveOf(t, d) = IF Followed(t, cmd) THEN {v} ELSE {}
  BY <1>4 DEF ActiveOf, OperationOf
<1>15. MapsFollow(t, "active_operations", IF Followed(t, cmd) THEN {v} ELSE {})
  BY <1>5, <1>11, <1>12, <1>14 DEF MapsFollow
<1> DEFINE b1 == IF Followed(t, cmd) THEN [Base EXCEPT !.request_counter = id] ELSE Base
<1>16. ASSUME ~vtd_bpf.lost
       PROVE  /\ SameView(b1) /\ b1.request_counter = requests'.tracked
              /\ Effect(b1, u, told', "active_operations", t, IF Followed(t, cmd) THEN {v} ELSE {})
  <2>1. Finds(t)
    BY <1>16, HostFinds
  <2>2. /\ Here(Base, "active_operations", t) = {} /\ SameView(Base)
        /\ ProperVtd(Base) /\ Base.out = <<>> /\ Base.guest_control.phase = "none"
        /\ Base.request_counter = requests.tracked
    BY <1>12, <2>1 DEF Finds
  <2>3. CASE ~Followed(t, cmd)
    <3>1. told' = <<>> /\ b1 = Base /\ tracked = requests.tracked
      BY <1>2, <1>3, <2>3 DEF Tell, tracked
    <3>2. u = Base
      BY <1>2, <1>13, <2>2, <2>3, EnterIoctl
    <3>3. Effect(Base, Base, <<>>, "active_operations", t, {})
      BY <2>2, NoEffect
    <3> QED
      BY <1>3, <2>2, <2>3, <3>1, <3>2, <3>3
  <2>4. CASE Followed(t, cmd)
    <3>1. /\ told' = <<r>> /\ b1 = [Base EXCEPT !.request_counter = id]
          /\ id = Base.request_counter + 1 /\ id = requests'.tracked
      BY <1>2, <1>3, <2>2, <2>4 DEF Tell, tracked, id
    <3> HIDE DEF b1, r, v
    <3>2. Effect(b1, u, <<Say("IOCTL_ENTER", Sample(a, id), <<>>, None, "none")>>,
                 "active_operations", t, {Sample(a, id)})
      BY <1>2, <1>13, <2>2, <2>4, <3>1, EnterIoctl
    <3>3. /\ DOMAIN b1 = VtdFields /\ b1.out = <<>> /\ b1.lost = vtd_bpf.lost
          /\ b1.guest_control = Base.guest_control /\ b1.request_counter = id
          /\ \A n \in VtdMaps : b1[n] = Base[n]
      BY <1>9, <2>2, <3>1, FieldNames DEF ProperVtd
    <3>4. \A n \in VtdMaps : \A j : Here(b1, n, j) = Here(Base, n, j)
      BY <3>3 DEF Here
    <3>5. SameView(b1)
      BY <1>9, <2>2, <3>3, <3>4 DEF SameView, ProperVtd
    <3> QED
      BY <2>4, <3>1, <3>2, <3>3, <3>5 DEF v, r
  <2> QED
    BY <2>3, <2>4
<1> HIDE DEF b1, v
<1>17. ~vtd_bpf.lost => /\ SameView(b1) /\ b1.request_counter = requests'.tracked
                        /\ Effect(b1, vtd_bpf', told', "active_operations", t,
                                  IF Followed(t, cmd) THEN {v} ELSE {})
                        /\ MapsFollow(t, "active_operations", IF Followed(t, cmd) THEN {v} ELSE {})
  BY <1>15, <1>16 DEF u
<1> QED
  BY <1>8, <1>10, <1>17, HostKeeps DEF u

LEMMA HostStepKeeps ==
  ASSUME VtdHostInv, HostStep
  PROVE  VtdHostInv' /\ (~vtd_bpf'.lost => Exact')
BY IoctlEnterKeeps, IoctlExitKeeps, MappingKeeps, FlushKeeps, DomainKeeps, InterruptKeeps DEF HostStep

-----------------------------------------------------------------------------
(* The guest *)

GuestFields == {"test", "runs", "sampled", "maps", "episodes", "irqs", "irq", "dma", "mixed"}
ControlFields == {"episode_counter", "once", "phase", "active"}

\* The keys of guest_pending_states: the tasks, and the interrupts on their CPUs.
IrqNames == {"card", "disk"}
IrqKeys == {<<cpu, irq>> : cpu \in Cpus, irq \in IrqNames}
Keys == Tasks \cup IrqKeys

Numbered(g) ==
  /\ \A t \in Tasks : g.dma[t] \in Seq(1 .. g.maps)
  /\ \A t, x \in Tasks : \A ix \in 1 .. Len(g.dma[t]), j \in 1 .. Len(g.dma[x]) :
       g.dma[t][ix] = g.dma[x][j] => t = x /\ ix = j

GuestShape(g) ==
  /\ DOMAIN g = GuestFields
  /\ g.test \in BOOLEAN /\ g.mixed \in BOOLEAN
  /\ g.runs \in Nat /\ g.maps \in Nat /\ g.sampled \in 0 .. g.maps /\ g.episodes \in Nat
  /\ g.test => g.runs > 0
  /\ DOMAIN g.irq = Cpus /\ DOMAIN g.dma = Tasks
  /\ \A cpu \in Cpus : g.irq[cpu] = NoIrq \/ g.irq[cpu].irq \in IrqNames
  /\ Numbered(g)

\* The cases VtdTraceExact speaks of.
Regular(g) == ~g.mixed /\ (g.runs > 1 => g.runs = 2 /\ g.test)

\* The control block and the map, by what the guest is doing.
Controls(gc, g) ==
  /\ DOMAIN gc = ControlFields
  /\ gc.active = g.test /\ gc.phase = Phase(g) /\ gc.episode_counter = g.episodes
  /\ 0 \in gc.once <=> g.runs > 0
  /\ 1 \in gc.once <=> g.runs > 1 \/ (g.runs = 1 /\ g.test = FALSE)
  /\ 2 \in gc.once <=> g.sampled # 0

EpisodeOf(now) == [episode |-> now.episode, phase |-> now.phase, irq |-> now.irq]
Stacked(g, t) == \E ix \in 1 .. Len(g.dma[t]) : g.dma[t][ix] = g.sampled
TaskHolds(g, t) == IF Stacked(g, t) THEN {<<g.sampled>>} ELSE {}
IrqHolds(g, k) == IF k[2] = "card" /\ g.irq[k[1]].irq = "card" THEN {EpisodeOf(g.irq[k[1]])} ELSE {}
Holds(g, k) == IF k \in Tasks THEN TaskHolds(g, k) ELSE IrqHolds(g, k)

GuestMaps ==
  /\ Controls(vtd_bpf.guest_control, guest)
  /\ \A k \in Keys : Here(vtd_bpf, "guest_pending_states", k) = Holds(guest, k)

VtdGuestInv ==
  ProperVtd(vtd_bpf) /\ GuestShape(guest) /\ (~vtd_bpf.lost /\ Regular(guest) => GuestMaps)

\* b is what the program finds, but for the control block.
SameMaps(b) ==
  /\ ProperVtd(b) /\ b.out = <<>> /\ b.lost = vtd_bpf.lost
  /\ \A n \in VtdMaps : \A j : Here(b, n, j) = Here(vtd_bpf, n, j)

LEMMA GuestKeeps ==
  ASSUME VtdGuestInv, GuestShape(guest'), Lasting(vtd_bpf, vtd_bpf'),
         Regular(guest') => Regular(guest), NEW k \in Keys, NEW b,
         ~vtd_bpf.lost /\ ~vtd_bpf'.lost /\ Regular(guest') /\ GuestMaps =>
           /\ SameMaps(b) /\ Controls(b.guest_control, guest')
           /\ Effect(b, vtd_bpf', told', "guest_pending_states", k, Holds(guest', k))
           /\ \A x \in Keys : x # k => Holds(guest', x) = Holds(guest, x)
  PROVE  VtdGuestInv' /\ (~vtd_bpf'.lost /\ Regular(guest') => Exact')
<1>1. ProperVtd(vtd_bpf')
  BY DEF Lasting
<1>2. ASSUME ~vtd_bpf'.lost, Regular(guest')
      PROVE  GuestMaps' /\ Exact'
  <2>1. ~vtd_bpf.lost /\ GuestMaps
    BY <1>2 DEF Lasting, VtdGuestInv, ProperVtd
  <2>2. /\ SameMaps(b) /\ Controls(b.guest_control, guest')
        /\ Effect(b, vtd_bpf', told', "guest_pending_states", k, Holds(guest', k))
        /\ \A x \in Keys : x # k => Holds(guest', x) = Holds(guest, x)
    BY <1>2, <2>1
  <2>3. /\ vtd_bpf'.out = told' /\ vtd_bpf'.guest_control = b.guest_control
        /\ Here(vtd_bpf', "guest_pending_states", k) = Holds(guest', k)
        /\ \A x : x # k => Here(vtd_bpf', "guest_pending_states", x) = Here(vtd_bpf, "guest_pending_states", x)
    BY <1>2, <2>2 DEF Effect, SameMaps, VtdMaps
  <2>4. \A x \in Keys : Here(vtd_bpf', "guest_pending_states", x) = Holds(guest', x)
    BY <2>1, <2>2, <2>3 DEF GuestMaps
  <2> QED
    BY <2>2, <2>3, <2>4 DEF GuestMaps, Exact
<1> QED
  BY <1>1, <1>2 DEF VtdGuestInv

LEMMA BaseMaps ==
  ASSUME ProperVtd(vtd_bpf)
  PROVE  SameMaps(Base) /\ Base.guest_control = vtd_bpf.guest_control
BY BaseView DEF SameView, SameMaps

\* A change of the control block leaves the maps alone.
LEMMA ControlOnly ==
  ASSUME NEW b, SameMaps(b), NEW gc, NEW u, u = [b EXCEPT !.guest_control = gc]
  PROVE  SameMaps(u) /\ u.guest_control = gc /\ ProperVtd(u) /\ u.out = <<>>
<1>1. /\ DOMAIN u = VtdFields /\ u.out = <<>> /\ u.lost = b.lost /\ u.guest_control = gc
      /\ \A n \in VtdMaps : u[n] = b[n]
  BY FieldNames DEF SameMaps, ProperVtd
<1>2. \A n \in VtdMaps : \A j : Here(u, n, j) = Here(b, n, j)
  BY <1>1 DEF Here
<1> QED
  BY <1>1, <1>2 DEF SameMaps, ProperVtd

LEMMA KeyKinds ==
  /\ \A cpu \in Cpus : Task(cpu) \in Tasks /\ Task(cpu) \in Keys
  /\ \A k \in IrqKeys : k \notin Tasks /\ k \in Keys
  /\ \A cpu, x \in Cpus : Task(cpu) = Task(x) => cpu = x
<1>1. <<"task", "ethtool">> # <<"task", "net">>
  OBVIOUS
<1>2. "cpu 0" # "cpu 1"
  OBVIOUS
<1>3. ASSUME NEW cpu \in Cpus, NEW irq, NEW x \in Cpus
      PROVE  <<cpu, irq>> # Task(x)
  <2>1. Task(x) = <<"task", "ethtool">> \/ Task(x) = <<"task", "net">>
    BY DEF Task
  <2>2. cpu # "task"
    BY DEF Cpus
  <2>3. <<cpu, irq>> # <<"task", "ethtool">> /\ <<cpu, irq>> # <<"task", "net">>
    BY <2>2
  <2> QED
    BY <2>1, <2>3
<1>4. \A cpu \in Cpus : Task(cpu) \in Tasks /\ Task(cpu) \in Keys
  BY DEF Tasks, Keys
<1>5. \A k \in IrqKeys : k \notin Tasks /\ k \in Keys
  BY <1>3 DEF IrqKeys, Tasks, Keys
<1>6. \A cpu, x \in Cpus : Task(cpu) = Task(x) => cpu = x
  BY <1>1, <1>2 DEF Task, Cpus
<1> QED
  BY <1>4, <1>5, <1>6

\* The control block after a program has set a bit or the phase.
Claim(gc, bit) == [gc EXCEPT !.once = @ \cup {bit}]
InPhase(gc, x) == [gc EXCEPT !.phase = x]
Running(gc, active) == [gc EXCEPT !.active = active]
WithControl(b, gc) == [b EXCEPT !.guest_control = gc]

LEMMA ClaimIs ==
  ASSUME NEW b, NEW gc, gc = b.guest_control, NEW bit, NEW c, c = claim_guest_once(b, bit),
         NEW h, h = Claim(gc, bit)
  PROVE  c = WithControl(b, h)
BY DEF claim_guest_once, WithControl, Claim

LEMMA CounterIs ==
  ASSUME NEW b, NEW gc, gc = b.guest_control, NEW x, NEW c,
         c = [b EXCEPT !.guest_control.episode_counter = x],
         NEW h, h = [gc EXCEPT !.episode_counter = x]
  PROVE  c = WithControl(b, h)
BY DEF WithControl

LEMMA ControlIs ==
  ASSUME NEW b, ProperVtd(b), NEW gc, NEW c, c = WithControl(b, gc)
  PROVE  /\ c.guest_control = gc /\ ProperVtd(c)
         /\ Lasting(b, c)
         /\ c.full = b.full /\ c.out = b.out
BY FieldNames DEF WithControl, ProperVtd, Lasting

LEMMA ControlTwice ==
  ASSUME NEW b, ProperVtd(b), NEW gc, NEW hc, NEW c, c = WithControl(b, gc),
         NEW d, d = WithControl(c, hc)
  PROVE  d = WithControl(b, hc)
BY FieldNames DEF WithControl, ProperVtd

\* Each program, whatever it finds.
LEMMA LastingGuest ==
  ASSUME NEW b, ProperVtd(b), NEW t, NEW a
  PROVE  /\ Lasting(b, guest_run_entry(b)) /\ Lasting(b, guest_run_exit(b, 0))
         /\ Lasting(b, guest_dma_map_entry(b, t, a)) /\ Lasting(b, guest_dma_map_exit(b, t, a))
         /\ Lasting(b, guest_irq_entry(b, t)) /\ Lasting(b, guest_irq_exit(b, t))
<1>0. "guest_pending_states" \in VtdMaps /\ Lasting(b, b)
  BY LastingSelf DEF VtdMaps
<1> DEFINE gc == b.guest_control
<1>1. Lasting(b, guest_run_entry(b))
  <2> DEFINE b0 == [b EXCEPT !.guest_control.active = TRUE]
             b1 == [b0 EXCEPT !.guest_control.phase = "loopback_run"]
             b2 == [b1 EXCEPT !.guest_control.once = @ \cup {0}]
             r  == Event(b1, "GUEST_RUN_ENTRY")
  <2>1. guest_run_entry(b) = IF claimed(b, 0) THEN b1 ELSE lab_output(b2, r)
    BY DEF guest_run_entry, set_guest_phase, claim_guest_once, reserve_unfiltered_event
  <2>2. Lasting(b, b0)
    BY FieldNames DEF Lasting, ProperVtd
  <2> HIDE DEF b0, r
  <2>3. Lasting(b0, b1)
    BY <2>2, FieldNames DEF Lasting, ProperVtd
  <2> HIDE DEF b1
  <2>4. Lasting(b1, b2)
    BY <2>3, FieldNames DEF Lasting, ProperVtd
  <2> HIDE DEF b2
  <2>5. Lasting(b2, lab_output(b2, r))
    BY <1>0, <2>4, LastingOperations DEF Lasting
  <2>6. Lasting(b, b1) /\ Lasting(b, lab_output(b2, r))
    BY <2>2, <2>3, <2>4, <2>5, LastingIsTransitive
  <2> QED
    BY <2>1, <2>6
<1>2. Lasting(b, guest_run_exit(b, 0))
  <2> DEFINE b1 == [b EXCEPT !.guest_control.active = FALSE]
             b2 == [b1 EXCEPT !.guest_control.once = @ \cup {1}]
             r  == [Event(b1, "GUEST_RUN_EXIT") EXCEPT !.result = 0]
             b3 == lab_output(b2, r)
             b4 == [b3 EXCEPT !.guest_control.phase = "none"]
  <2>1. guest_run_exit(b, 0) = IF claimed(b, 1) THEN b1 ELSE IF b.full THEN b3 ELSE b4
    BY DEF guest_run_exit, set_guest_phase, claim_guest_once, reserve_unfiltered_event
  <2>2. Lasting(b, b1)
    BY FieldNames DEF Lasting, ProperVtd
  <2> HIDE DEF b1, r
  <2>3. Lasting(b1, b2)
    BY <2>2, FieldNames DEF Lasting, ProperVtd
  <2> HIDE DEF b2
  <2>4. Lasting(b2, b3)
    BY <1>0, <2>3, LastingOperations DEF Lasting
  <2> HIDE DEF b3
  <2>5. Lasting(b3, b4)
    BY <2>4, FieldNames DEF Lasting, ProperVtd
  <2> HIDE DEF b4
  <2>6. Lasting(b, b3) /\ Lasting(b, b4)
    BY <2>2, <2>3, <2>4, <2>5, LastingIsTransitive
  <2> QED
    BY <2>1, <2>2, <2>6
<1>3. Lasting(b, guest_dma_map_entry(b, t, a))
  <2> DEFINE b1 == [b EXCEPT !.guest_control.once = @ \cup {2}]
             r  == [Event(b, "GUEST_DMA_MAP_ENTRY") EXCEPT !.args = a]
             u  == lab_output(lab_map_update(b1, "guest_pending_states", t, a), r)
  <2>1. guest_dma_map_entry(b, t, a) = IF ~b.guest_control.active \/ claimed(b, 2) THEN b ELSE u
    BY DEF guest_dma_map_entry, claim_guest_once, reserve_unfiltered_event
  <2>2. Lasting(b, b1)
    BY FieldNames DEF Lasting, ProperVtd
  <2> HIDE DEF b1, r
  <2>3. Lasting(b1, u)
    BY <1>0, <2>2, LastingPairs DEF Lasting
  <2> QED
    BY <1>0, <2>1, <2>2, <2>3, LastingIsTransitive
<1>4. Lasting(b, guest_dma_map_exit(b, t, a))
  BY <1>0, LastingPairs DEF guest_dma_map_exit, reserve_unfiltered_event
<1>5. Lasting(b, guest_irq_entry(b, t))
  <2> DEFINE id == b.guest_control.episode_counter + 1
             s  == [episode |-> id, phase |-> b.guest_control.phase, irq |-> t[2]]
             b1 == [b EXCEPT !.guest_control.episode_counter = id]
             r  == [Event(b, "GUEST_IRQ_ENTRY") EXCEPT !.args = s]
             u  == lab_output(lab_map_update(b1, "guest_pending_states", t, s), r)
  <2>1. guest_irq_entry(b, t) = IF ~guest_irq_name_matches(t[2]) THEN b ELSE u
    BY DEF guest_irq_entry, reserve_unfiltered_event
  <2>2. Lasting(b, b1)
    BY FieldNames DEF Lasting, ProperVtd
  <2> HIDE DEF b1, r, s
  <2>3. Lasting(b1, u)
    BY <1>0, <2>2, LastingPairs DEF Lasting
  <2> QED
    BY <1>0, <2>1, <2>2, <2>3, LastingIsTransitive
<1>6. Lasting(b, guest_irq_exit(b, t))
  BY <1>0, LastingPairs DEF guest_irq_exit, reserve_unfiltered_event
<1> QED
  BY <1>1, <1>2, <1>3, <1>4, <1>5, <1>6

-----------------------------------------------------------------------------
\* A control block written after the record is like one written before it.
LEMMA ControlAfter ==
  ASSUME NEW b, ProperVtd(b), NEW u, NEW rs, NEW k, NEW v, NEW gc,
         Effect(b, u, rs, "guest_pending_states", k, v)
  PROVE  Effect(WithControl(b, gc), WithControl(u, gc), rs, "guest_pending_states", k, v)
<1> DEFINE c == WithControl(b, gc)
           w == WithControl(u, gc)
<1>1. ProperVtd(u)
  BY DEF Effect
<1>2. /\ DOMAIN w = VtdFields /\ w.guest_control = gc /\ w.lost = u.lost /\ w.out = u.out
      /\ w.request_counter = u.request_counter /\ \A n \in VtdMaps : w[n] = u[n]
  BY <1>1, FieldNames DEF WithControl, ProperVtd
<1>3. /\ DOMAIN c = VtdFields /\ c.guest_control = gc /\ c.lost = b.lost
      /\ c.request_counter = b.request_counter /\ \A n \in VtdMaps : c[n] = b[n]
  BY FieldNames DEF WithControl, ProperVtd
<1> HIDE DEF c, w
<1>4. \A n \in VtdMaps : \A j : Here(w, n, j) = Here(u, n, j) /\ Here(c, n, j) = Here(b, n, j)
  BY <1>2, <1>3 DEF Here
<1>5. "guest_pending_states" \in VtdMaps
  BY DEF VtdMaps
<1>6. Effect(c, w, rs, "guest_pending_states", k, v)
  BY <1>1, <1>2, <1>3, <1>4, <1>5 DEF Effect, ProperVtd
<1> QED
  BY <1>6 DEF c, w

LEMMA RunEntry ==
  ASSUME NEW b, ProperVtd(b), b.out = <<>>, NEW gc, gc = b.guest_control, DOMAIN gc = ControlFields,
         NEW u, u = guest_run_entry(b), NEW g1, g1 = InPhase(Running(gc, TRUE), "loopback_run"),
         NEW k, NEW v, v = Here(b, "guest_pending_states", k)
  PROVE  /\ 0 \in gc.once => Effect(WithControl(b, g1), u, <<>>, "guest_pending_states", k, v)
         /\ 0 \notin gc.once =>
              Effect(WithControl(b, Claim(g1, 0)), u,
                     <<Say("GUEST_RUN_ENTRY", NoOperation, <<>>, None, "loopback_run")>>,
                     "guest_pending_states", k, v)
<1> DEFINE b0 == [b EXCEPT !.guest_control.active = TRUE]
           b1 == set_guest_phase(b0, "loopback_run")
           b2 == claim_guest_once(b1, 0)
           r  == Event(b1, "GUEST_RUN_ENTRY")
<1>1. u = IF 0 \in gc.once THEN b1 ELSE lab_output(b2, r)
  BY DEF guest_run_entry, reserve_unfiltered_event, claimed
<1>2. b0 = WithControl(b, Running(gc, TRUE))
  BY DEF WithControl, Running
<1>3. DOMAIN Running(gc, TRUE) = ControlFields /\ DOMAIN g1 = ControlFields /\ g1.phase = "loopback_run"
  BY DEF Running, InPhase, ControlFields
<1> HIDE DEF b0
<1>4. ProperVtd(b0) /\ b0.guest_control = Running(gc, TRUE)
  BY <1>2, FieldNames DEF WithControl, ProperVtd
<1>5. b1 = WithControl(b0, g1)
  BY <1>4 DEF set_guest_phase, WithControl, InPhase
<1>6. b1 = WithControl(b, g1)
  BY <1>2, <1>5, FieldNames DEF WithControl, ProperVtd
<1> HIDE DEF b1
<1>7. ProperVtd(b1) /\ b1.guest_control = g1 /\ b1.out = <<>>
  BY <1>6, FieldNames DEF WithControl, ProperVtd
<1>8. b2 = WithControl(b1, Claim(g1, 0))
  BY <1>7 DEF claim_guest_once, WithControl, Claim
<1>9. b2 = WithControl(b, Claim(g1, 0))
  BY <1>6, <1>8, FieldNames DEF WithControl, ProperVtd
<1>10. r = Say("GUEST_RUN_ENTRY", NoOperation, <<>>, None, "loopback_run")
  BY <1>3, <1>7 DEF Event, Say
<1> HIDE DEF b2, r
<1>11. ProperVtd(b2) /\ b2.out = <<>>
  BY <1>9, FieldNames DEF WithControl, ProperVtd
<1>12. Here(b1, "guest_pending_states", k) = v /\ Here(b2, "guest_pending_states", k) = v
  <2>1. b1.guest_pending_states = b.guest_pending_states /\ b2.guest_pending_states = b.guest_pending_states
    BY <1>6, <1>9, FieldNames DEF WithControl, ProperVtd, VtdMaps
  <2> QED
    BY <2>1 DEF Here
<1>13. Effect(b1, b1, <<>>, "guest_pending_states", k, v)
  BY <1>7, <1>12, NoEffect
<1>14. Effect(b2, lab_output(b2, r), <<r>>, "guest_pending_states", k, v)
  BY <1>11, <1>12, SayEffect DEF VtdMaps
<1> QED
  BY <1>1, <1>6, <1>9, <1>10, <1>13, <1>14

LEMMA RunExit ==
  ASSUME NEW b, ProperVtd(b), b.out = <<>>, NEW gc, gc = b.guest_control, DOMAIN gc = ControlFields,
         NEW u, u = guest_run_exit(b, 0), ~u.lost, 1 \notin gc.once,
         NEW g2, g2 = InPhase(Claim(Running(gc, FALSE), 1), "none"),
         NEW k, NEW v, v = Here(b, "guest_pending_states", k)
  PROVE  Effect(WithControl(b, g2), u, <<Say("GUEST_RUN_EXIT", NoOperation, <<>>, 0, gc.phase)>>,
                "guest_pending_states", k, v)
<1> DEFINE b1 == [b EXCEPT !.guest_control.active = FALSE]
           b2 == claim_guest_once(b1, 1)
           r  == [Event(b1, "GUEST_RUN_EXIT") EXCEPT !.result = 0]
           b3 == lab_output(b2, r)
           g0 == Running(gc, FALSE)
           g1 == Claim(g0, 1)
<1>1. u = IF b.full THEN b3 ELSE set_guest_phase(b3, "none")
  BY DEF guest_run_exit, reserve_unfiltered_event, claimed
<1>2. b1 = WithControl(b, g0)
  BY DEF WithControl, Running
<1>3. /\ DOMAIN g0 = ControlFields /\ g0.phase = gc.phase /\ DOMAIN g1 = ControlFields
      /\ g2 = InPhase(g1, "none")
  BY DEF Running, Claim, ControlFields
<1> HIDE DEF b1, g0, g1
<1>4. ProperVtd(b1) /\ b1.guest_control = g0 /\ b1.out = <<>> /\ b1.full = b.full
  BY <1>2, ControlIs
<1>5. b2 = WithControl(b1, g1)
  BY <1>4, ClaimIs DEF g1
<1>6. b2 = WithControl(b, g1)
  BY <1>2, <1>5, ControlTwice
<1>7. IsRecord(r, "GUEST_RUN_EXIT", NoOperation, <<>>, 0, gc.phase)
  BY <1>3, <1>4, EventIsRecord DEF EventFields, IsRecord
<1>8. r = [f \in EventFields |-> r[f]]
  BY EventIsRecord DEF IsRecord
<1> HIDE DEF b2, r
<1>9. r = Say("GUEST_RUN_EXIT", NoOperation, <<>>, 0, gc.phase)
  BY <1>7, <1>8, RecordSays
<1>10. ProperVtd(b2) /\ b2.out = <<>> /\ b2.guest_control = g1 /\ b2.full = b.full
  BY <1>6, ControlIs
<1>11. Here(b2, "guest_pending_states", k) = v
  <2>1. b2.guest_pending_states = b.guest_pending_states
    BY <1>6, FieldNames DEF WithControl, ProperVtd, VtdMaps
  <2> QED
    BY <2>1 DEF Here
<1>12. Effect(b2, b3, <<r>>, "guest_pending_states", k, v)
  BY <1>10, <1>11, SayEffect DEF VtdMaps
<1>13. b.full => b3.lost
  BY <1>10, FieldNames DEF lab_output, ProperVtd
<1> HIDE DEF b3
<1>14. u = set_guest_phase(b3, "none")
  BY <1>1, <1>13
<1>15. ProperVtd(b3)
  BY <1>12 DEF Effect
<1>16. u.lost = b3.lost
  BY <1>14, <1>15, FieldNames DEF set_guest_phase, ProperVtd
<1>17. b3.guest_control = g1
  BY <1>10, <1>12, <1>16 DEF Effect
<1>18. u = WithControl(b3, g2)
  BY <1>3, <1>14, <1>17 DEF set_guest_phase, WithControl, InPhase
<1>19. Effect(WithControl(b2, g2), u, <<r>>, "guest_pending_states", k, v)
  BY <1>10, <1>12, <1>18, ControlAfter
<1>20. WithControl(b2, g2) = WithControl(b, g2)
  BY <1>6, FieldNames DEF WithControl, ProperVtd
<1> QED
  BY <1>9, <1>19, <1>20

LEMMA MapEntry ==
  ASSUME NEW b, ProperVtd(b), b.out = <<>>, NEW gc, gc = b.guest_control, DOMAIN gc = ControlFields,
         NEW t, NEW a, NEW u, u = guest_dma_map_entry(b, t, a), gc.active, 2 \notin gc.once
  PROVE  Effect(WithControl(b, Claim(gc, 2)), u,
                <<Say("GUEST_DMA_MAP_ENTRY", NoOperation, a, None, gc.phase)>>,
                "guest_pending_states", t, {a})
<1> DEFINE b1 == claim_guest_once(b, 2)
           r  == [Event(b, "GUEST_DMA_MAP_ENTRY") EXCEPT !.args = a]
<1>1. u = lab_output(lab_map_update(b1, "guest_pending_states", t, a), r)
  BY DEF guest_dma_map_entry, reserve_unfiltered_event, claimed
<1>2. b1 = WithControl(b, Claim(gc, 2))
  BY ClaimIs
<1>3. IsRecord(r, "GUEST_DMA_MAP_ENTRY", NoOperation, a, None, gc.phase)
  BY EventIsRecord DEF EventFields, IsRecord
<1>4. r = [f \in EventFields |-> r[f]]
  BY EventIsRecord DEF IsRecord
<1> HIDE DEF b1, r
<1>5. r = Say("GUEST_DMA_MAP_ENTRY", NoOperation, a, None, gc.phase)
  BY <1>3, <1>4, RecordSays
<1>6. ProperVtd(b1) /\ b1.out = <<>>
  BY <1>2, ControlIs
<1>7. Effect(b1, u, <<r>>, "guest_pending_states", t, {a})
  BY <1>1, <1>6, PutAndSay DEF VtdMaps
<1> QED
  BY <1>2, <1>5, <1>7

LEMMA MapExit ==
  ASSUME NEW b, ProperVtd(b), b.out = <<>>, NEW t, NEW n, NEW u, u = guest_dma_map_exit(b, t, n),
         NEW p, p = b.guest_control.phase
  PROVE  /\ Here(b, "guest_pending_states", t) = {} => u = b
         /\ \A v : Here(b, "guest_pending_states", t) = {v} =>
              Effect(b, u, <<Say("GUEST_DMA_MAP_EXIT", NoOperation, v, n, p)>>,
                     "guest_pending_states", t, {})
<1>1. Here(b, "guest_pending_states", t) = {} => u = b
  BY HereIsHas DEF guest_dma_map_exit
<1>2. ASSUME NEW v, Here(b, "guest_pending_states", t) = {v}
      PROVE  Effect(b, u, <<Say("GUEST_DMA_MAP_EXIT", NoOperation, v, n, p)>>,
                    "guest_pending_states", t, {})
  <2> DEFINE r == [Event(b, "GUEST_DMA_MAP_EXIT") EXCEPT !.args = b.guest_pending_states[t], !.result = n]
  <2>1. Has(b, "guest_pending_states", t) /\ b.guest_pending_states[t] = v
    BY <1>2, HereIsGet
  <2>2. IsRecord(r, "GUEST_DMA_MAP_EXIT", NoOperation, v, n, p)
    BY <2>1, EventIsRecord DEF EventFields, IsRecord
  <2>3. r = [f \in EventFields |-> r[f]]
    BY EventIsRecord DEF IsRecord
  <2>4. u = bpf_map_delete_elem(lab_output(b, r), "guest_pending_states", t)
    BY <2>1 DEF guest_dma_map_exit, reserve_unfiltered_event
  <2> HIDE DEF r
  <2>5. Effect(b, u, <<r>>, "guest_pending_states", t, {})
    BY <2>4, SayAndDrop DEF VtdMaps
  <2>6. r = Say("GUEST_DMA_MAP_EXIT", NoOperation, v, n, p)
    BY <2>2, <2>3, RecordSays
  <2> QED
    BY <2>5, <2>6
<1> QED
  BY <1>1, <1>2

LEMMA IrqEntry ==
  ASSUME NEW b, ProperVtd(b), b.out = <<>>, NEW gc, gc = b.guest_control, DOMAIN gc = ControlFields,
         NEW key, key[2] = "card", NEW u, u = guest_irq_entry(b, key),
         NEW id, id = gc.episode_counter + 1,
         NEW s, s = [episode |-> id, phase |-> gc.phase, irq |-> "card"]
  PROVE  Effect(WithControl(b, [gc EXCEPT !.episode_counter = id]), u,
                <<Say("GUEST_IRQ_ENTRY", NoOperation, s, None, gc.phase)>>,
                "guest_pending_states", key, {s})
<1> DEFINE b1 == [b EXCEPT !.guest_control.episode_counter = id]
           r  == [Event(b, "GUEST_IRQ_ENTRY") EXCEPT !.args = s]
<1>1. u = lab_output(lab_map_update(b1, "guest_pending_states", key, s), r)
  BY DEF guest_irq_entry, reserve_unfiltered_event, guest_irq_name_matches
<1>2. b1 = WithControl(b, [gc EXCEPT !.episode_counter = id])
  BY CounterIs
<1>3. IsRecord(r, "GUEST_IRQ_ENTRY", NoOperation, s, None, gc.phase)
  BY EventIsRecord DEF EventFields, IsRecord
<1>4. r = [f \in EventFields |-> r[f]]
  BY EventIsRecord DEF IsRecord
<1> HIDE DEF b1, r
<1>5. r = Say("GUEST_IRQ_ENTRY", NoOperation, s, None, gc.phase)
  BY <1>3, <1>4, RecordSays
<1>6. ProperVtd(b1) /\ b1.out = <<>>
  BY <1>2, ControlIs
<1>7. Effect(b1, u, <<r>>, "guest_pending_states", key, {s})
  BY <1>1, <1>6, PutAndSay DEF VtdMaps
<1> QED
  BY <1>2, <1>5, <1>7

LEMMA IrqExit ==
  ASSUME NEW b, ProperVtd(b), b.out = <<>>, NEW key, NEW u, u = guest_irq_exit(b, key)
  PROVE  /\ Here(b, "guest_pending_states", key) = {} => u = b
         /\ \A v : Here(b, "guest_pending_states", key) = {v} =>
              Effect(b, u, <<Say("GUEST_IRQ_EXIT", NoOperation, v, None, v.phase)>>,
                     "guest_pending_states", key, {})
<1>1. Here(b, "guest_pending_states", key) = {} => u = b
  BY HereIsHas DEF guest_irq_exit
<1>2. ASSUME NEW v, Here(b, "guest_pending_states", key) = {v}
      PROVE  Effect(b, u, <<Say("GUEST_IRQ_EXIT", NoOperation, v, None, v.phase)>>,
                    "guest_pending_states", key, {})
  <2> DEFINE r == [Event(b, "GUEST_IRQ_EXIT") EXCEPT !.args = v, !.phase = v.phase]
  <2>1. Has(b, "guest_pending_states", key) /\ b.guest_pending_states[key] = v
    BY <1>2, HereIsGet
  <2>2. IsRecord(r, "GUEST_IRQ_EXIT", NoOperation, v, None, v.phase)
    BY EventIsRecord DEF EventFields, IsRecord
  <2>3. r = [f \in EventFields |-> r[f]]
    BY EventIsRecord DEF IsRecord
  <2>4. u = bpf_map_delete_elem(lab_output(b, r), "guest_pending_states", key)
    BY <2>1 DEF guest_irq_exit, reserve_unfiltered_event
  <2> HIDE DEF r
  <2>5. Effect(b, u, <<r>>, "guest_pending_states", key, {})
    BY <2>4, SayAndDrop DEF VtdMaps
  <2>6. r = Say("GUEST_IRQ_EXIT", NoOperation, v, None, v.phase)
    BY <2>2, <2>3, RecordSays
  <2> QED
    BY <2>5, <2>6
<1> QED
  BY <1>1, <1>2
-----------------------------------------------------------------------------
\* Every step of the guest's kernel.
HeldElsewhere(g, h, k) == \A x \in Keys : x # k => Holds(h, x) = Holds(g, x)

LEMMA SameHolds ==
  ASSUME NEW g, NEW h, h.dma = g.dma, h.irq = g.irq, h.sampled = g.sampled, NEW k
  PROVE  Holds(h, k) = Holds(g, k) /\ HeldElsewhere(g, h, k)
BY DEF Holds, TaskHolds, Stacked, IrqHolds, HeldElsewhere

\* What a program finds when the map is exact.
LEMMA GuestFinds ==
  ASSUME VtdGuestInv, NEW gc, gc = vtd_bpf.guest_control
  PROVE  /\ SameMaps(Base) /\ ProperVtd(Base) /\ Base.out = <<>> /\ Base.guest_control = gc
         /\ GuestMaps => /\ Controls(gc, guest)
                         /\ \A k \in Keys : Here(Base, "guest_pending_states", k) = Holds(guest, k)
<1>1. SameMaps(Base) /\ Base.guest_control = gc
  BY BaseMaps DEF VtdGuestInv
<1> QED
  BY <1>1 DEF SameMaps, GuestMaps, VtdMaps

\* A step of which the programs say nothing.
LEMMA GuestIdle ==
  ASSUME VtdGuestInv, GuestShape(guest'), Lasting(vtd_bpf, vtd_bpf'),
         Regular(guest') => Regular(guest), NEW k \in Keys,
         ~vtd_bpf.lost /\ Regular(guest') /\ GuestMaps =>
           /\ vtd_bpf' = Base /\ told' = <<>> /\ Controls(vtd_bpf.guest_control, guest')
           /\ Holds(guest', k) = Holds(guest, k) /\ HeldElsewhere(guest, guest', k)
  PROVE  VtdGuestInv' /\ (~vtd_bpf'.lost /\ Regular(guest') => Exact')
<1>1. ASSUME ~vtd_bpf.lost, Regular(guest'), GuestMaps
      PROVE  /\ SameMaps(Base) /\ Controls(Base.guest_control, guest')
             /\ Effect(Base, vtd_bpf', told', "guest_pending_states", k, Holds(guest', k))
             /\ \A x \in Keys : x # k => Holds(guest', x) = Holds(guest, x)
  <2>1. /\ SameMaps(Base) /\ ProperVtd(Base) /\ Base.out = <<>> /\ Base.guest_control = vtd_bpf.guest_control
        /\ Here(Base, "guest_pending_states", k) = Holds(guest, k)
    BY <1>1, GuestFinds
  <2>2. Effect(Base, Base, <<>>, "guest_pending_states", k, Holds(guest', k))
    BY <1>1, <2>1, NoEffect
  <2> QED
    BY <1>1, <2>1, <2>2 DEF HeldElsewhere
<1> QED
  BY <1>1, GuestKeeps

LEMMA RunFields ==
  ASSUME NEW g, GuestShape(g), NEW begins \in BOOLEAN, NEW n \in Nat, begins => n > 0, NEW h,
         h = [g EXCEPT !.test = begins, !.runs = n]
  PROVE  /\ h.test = begins /\ h.runs = n
         /\ h.dma = g.dma /\ h.irq = g.irq /\ h.sampled = g.sampled /\ h.episodes = g.episodes
         /\ h.mixed = g.mixed /\ h.maps = g.maps
         /\ GuestShape(h)
<1>1. /\ h.test = begins /\ h.runs = n
      /\ h.dma = g.dma /\ h.irq = g.irq /\ h.sampled = g.sampled /\ h.episodes = g.episodes
      /\ h.mixed = g.mixed /\ h.maps = g.maps /\ DOMAIN h = GuestFields
  BY DEF GuestShape, GuestFields
<1>2. Numbered(h)
  BY <1>1 DEF GuestShape, Numbered
<1> QED
  BY <1>1, <1>2 DEF GuestShape

LEMMA SecondBegins ==
  ASSUME NEW gc, NEW g, NEW h, Controls(gc, g), h.test = TRUE, g.test = FALSE, h.runs = 2, g.runs = 1,
         h.sampled = g.sampled, h.episodes = g.episodes, NEW x, DOMAIN x = ControlFields,
         x.active = TRUE, x.phase = "loopback_run", x.once = gc.once,
         x.episode_counter = gc.episode_counter
  PROVE  Controls(x, h)
<1>1. DOMAIN x = ControlFields /\ x.active = h.test
  OBVIOUS
<1>2. x.phase = Phase(h) /\ x.episode_counter = h.episodes
  BY DEF Controls, Phase
<1>3. 0 \in x.once <=> h.runs > 0
  BY DEF Controls
<1>4. 1 \in x.once <=> h.runs > 1 \/ (h.runs = 1 /\ h.test = FALSE)
  BY DEF Controls
<1>5. 2 \in x.once <=> h.sampled # 0
  BY DEF Controls
<1> QED
  BY <1>1, <1>2, <1>3, <1>4, <1>5 DEF Controls

LEMMA FirstBegins ==
  ASSUME NEW gc, NEW g, NEW h, Controls(gc, g), h.test = TRUE, g.test = FALSE, h.runs = 1, g.runs = 0,
         h.sampled = g.sampled, h.episodes = g.episodes, NEW x, DOMAIN x = ControlFields,
         x.active = TRUE, x.phase = "loopback_run", x.once = gc.once \cup {0},
         x.episode_counter = gc.episode_counter
  PROVE  Controls(x, h)
<1>1. DOMAIN x = ControlFields /\ x.active = h.test
  OBVIOUS
<1>2. x.phase = Phase(h) /\ x.episode_counter = h.episodes
  BY DEF Controls, Phase
<1>3. 0 \in x.once <=> h.runs > 0
  BY DEF Controls
<1>4. 1 \in x.once <=> h.runs > 1 \/ (h.runs = 1 /\ h.test = FALSE)
  BY DEF Controls
<1>5. 2 \in x.once <=> h.sampled # 0
  BY DEF Controls
<1> QED
  BY <1>1, <1>2, <1>3, <1>4, <1>5 DEF Controls

LEMMA FirstEnds ==
  ASSUME NEW gc, NEW g, NEW h, Controls(gc, g), h.test = FALSE, g.test = TRUE, h.runs = 1, g.runs = 1,
         h.sampled = g.sampled, h.episodes = g.episodes, NEW x, DOMAIN x = ControlFields,
         x.active = FALSE, x.phase = "none", x.once = gc.once \cup {1},
         x.episode_counter = gc.episode_counter
  PROVE  Controls(x, h)
<1>1. DOMAIN x = ControlFields /\ x.active = h.test
  OBVIOUS
<1>2. x.phase = Phase(h) /\ x.episode_counter = h.episodes
  BY DEF Controls, Phase
<1>3. 0 \in x.once <=> h.runs > 0
  BY DEF Controls
<1>4. 1 \in x.once <=> h.runs > 1 \/ (h.runs = 1 /\ h.test = FALSE)
  BY DEF Controls
<1>5. 2 \in x.once <=> h.sampled # 0
  BY DEF Controls
<1> QED
  BY <1>1, <1>2, <1>3, <1>4, <1>5 DEF Controls

LEMMA RunBegins ==
  ASSUME NEW gc, NEW g, NEW h, Controls(gc, g), h.test = TRUE, g.test = FALSE, h.runs = g.runs + 1, g.runs \in Nat,
         g.runs < 2, h.sampled = g.sampled, h.episodes = g.episodes,
         NEW g1, g1 = InPhase(Running(gc, TRUE), "loopback_run"), NEW g2, g2 = Claim(g1, 0)
  PROVE  (g.runs > 0 => Controls(g1, h)) /\ (g.runs = 0 => Controls(g2, h))
<1>1. /\ DOMAIN g1 = ControlFields /\ g1.active = TRUE /\ g1.phase = "loopback_run" /\ g1.once = gc.once
      /\ g1.episode_counter = gc.episode_counter
  BY DEF Controls, InPhase, Running, ControlFields
<1>2. /\ DOMAIN g2 = ControlFields /\ g2.active = TRUE /\ g2.phase = "loopback_run" /\ g2.once = gc.once \cup {0}
      /\ g2.episode_counter = gc.episode_counter
  BY <1>1 DEF Claim, ControlFields
<1>3. g.runs > 0 => g.runs = 1 /\ h.runs = 2
  OBVIOUS
<1>4. g.runs = 0 => h.runs = 1
  OBVIOUS
<1>5. g.runs > 0 => Controls(g1, h)
  BY <1>1, <1>3, SecondBegins
<1>6. g.runs = 0 => Controls(g2, h)
  BY <1>2, <1>4, FirstBegins
<1> QED
  BY <1>5, <1>6

LEMMA RunEnds ==
  ASSUME NEW gc, NEW g, NEW h, Controls(gc, g), h.test = FALSE, g.test = TRUE, h.runs = g.runs, g.runs = 1,
         h.sampled = g.sampled, h.episodes = g.episodes,
         NEW g2, g2 = InPhase(Claim(Running(gc, FALSE), 1), "none")
  PROVE  Controls(g2, h) /\ 1 \notin gc.once /\ gc.phase = "loopback_run"
<1>1. /\ DOMAIN g2 = ControlFields /\ g2.active = FALSE /\ g2.phase = "none" /\ g2.once = gc.once \cup {1}
      /\ g2.episode_counter = gc.episode_counter
  BY DEF Controls, InPhase, Running, Claim, ControlFields
<1>2. h.runs = 1
  OBVIOUS
<1>3. Controls(g2, h)
  BY <1>1, <1>2, FirstEnds
<1>4. 1 \notin gc.once
  BY DEF Controls
<1>5. gc.phase = "loopback_run"
  BY DEF Controls, Phase
<1> QED
  BY <1>3, <1>4, <1>5

LEMMA ControlSame ==
  ASSUME SameMaps(Base), NEW gc, NEW b, b = WithControl(Base, gc)
  PROVE  SameMaps(b) /\ b.guest_control = gc
BY ControlOnly DEF WithControl

LEMMA RunTestKeeps ==
  ASSUME VtdGuestInv, RunTest
  PROVE  VtdGuestInv' /\ (~vtd_bpf'.lost /\ Regular(guest') => Exact')
<1> DEFINE begins == ~guest.test
           gc == vtd_bpf.guest_control
           k == Task("cpu 0")
           g1 == InPhase(Running(gc, TRUE), "loopback_run")
           g2 == Claim(g1, 0)
           g3 == InPhase(Claim(Running(gc, FALSE), 1), "none")
<1>1. /\ guest' = [guest EXCEPT !.test = begins, !.runs = @ + (IF begins THEN 1 ELSE 0)]
      /\ vtd_bpf' = IF begins THEN guest_run_entry(Base) ELSE guest_run_exit(Base, 0)
      /\ told' = Tell(guest'.runs = 1,
                      IF begins
                      THEN Say("GUEST_RUN_ENTRY", NoOperation, <<>>, None, "loopback_run")
                      ELSE Say("GUEST_RUN_EXIT", NoOperation, <<>>, 0, "loopback_run"))
  BY DEF RunTest, Fire, Base
<1>2. GuestShape(guest) /\ begins \in BOOLEAN /\ guest.test \in BOOLEAN /\ guest.runs \in Nat
  BY DEF VtdGuestInv, GuestShape
<1>3. /\ guest'.test = begins /\ guest'.runs = IF begins THEN guest.runs + 1 ELSE guest.runs
      /\ guest'.dma = guest.dma /\ guest'.irq = guest.irq /\ guest'.sampled = guest.sampled
      /\ guest'.episodes = guest.episodes /\ guest'.mixed = guest.mixed /\ GuestShape(guest')
  <2> DEFINE n == guest.runs + (IF begins THEN 1 ELSE 0)
  <2>1. n \in Nat /\ (begins => n > 0) /\ n = IF begins THEN guest.runs + 1 ELSE guest.runs
    BY <1>2
  <2>2. guest' = [guest EXCEPT !.test = begins, !.runs = n]
    BY <1>1
  <2> HIDE DEF begins, n
  <2>3. /\ guest'.test = begins /\ guest'.runs = n
        /\ guest'.dma = guest.dma /\ guest'.irq = guest.irq /\ guest'.sampled = guest.sampled
        /\ guest'.episodes = guest.episodes /\ guest'.mixed = guest.mixed
        /\ guest'.maps = guest.maps /\ DOMAIN guest' = GuestFields
    BY <1>2, <2>2 DEF GuestShape, GuestFields
  <2>4. GuestShape(guest')
    BY <1>2, <2>1, <2>2, RunFields
  <2> QED
    BY <2>1, <2>3, <2>4
<1>4. Holds(guest', k) = Holds(guest, k) /\ HeldElsewhere(guest, guest', k)
  BY <1>3, SameHolds
<1>5. k \in Keys
  BY KeyKinds DEF Cpus
<1>6. Regular(guest') => Regular(guest)
  BY <1>2, <1>3 DEF Regular
<1>7. ProperVtd(vtd_bpf) /\ SameMaps(Base) /\ ProperVtd(Base) /\ Base.out = <<>> /\ Base.guest_control = gc
  BY GuestFinds DEF VtdGuestInv
<1>8. Base.lost = vtd_bpf.lost
  BY <1>7 DEF SameMaps
<1> HIDE DEF k, gc
<1>9. Lasting(vtd_bpf, vtd_bpf')
  BY <1>1, <1>7, <1>8, LastingGuest DEF Lasting
<1>10. CASE begins
  <2>1. guest.test = FALSE /\ guest'.test = TRUE /\ guest'.runs = guest.runs + 1
    BY <1>2, <1>3, <1>10
  <2> DEFINE b == IF guest.runs > 0 THEN WithControl(Base, g1) ELSE WithControl(Base, g2)
  <2>2. ASSUME ~vtd_bpf'.lost, Regular(guest'), GuestMaps
        PROVE  /\ SameMaps(b) /\ Controls(b.guest_control, guest')
               /\ Effect(b, vtd_bpf', told', "guest_pending_states", k, Holds(guest', k))
    <3>1. Controls(gc, guest) /\ Here(Base, "guest_pending_states", k) = Holds(guest', k)
      BY <1>4, <1>5, <2>2, GuestFinds DEF gc
    <3>2. guest.runs < 2 /\ DOMAIN gc = ControlFields /\ (0 \in gc.once <=> guest.runs > 0)
      BY <1>2, <2>1, <2>2, <3>1 DEF Regular, Controls
    <3> DEFINE v == Holds(guest', k)
               u == vtd_bpf'
    <3> HIDE DEF v, g1, g2, u
    <3>3. /\ guest.runs > 0 => Controls(g1, guest')
          /\ guest.runs = 0 => Controls(g2, guest')
      BY <1>2, <1>3, <2>1, <3>1, <3>2, RunBegins DEF g1, g2
    <3>4. u = guest_run_entry(Base)
      BY <1>1, <1>10 DEF u
    <3>5. Here(Base, "guest_pending_states", k) = v
      BY <3>1 DEF v
    <3>6. /\ 0 \in gc.once => Effect(WithControl(Base, g1), u, <<>>, "guest_pending_states", k, v)
          /\ 0 \notin gc.once =>
               Effect(WithControl(Base, g2), u, <<Say("GUEST_RUN_ENTRY", NoOperation, <<>>, None, "loopback_run")>>,
                      "guest_pending_states", k, v)
      BY <1>7, <3>2, <3>4, <3>5, RunEntry DEF g1, g2
    <3>7. CASE guest.runs > 0
      <4>1. told' = <<>> /\ b = WithControl(Base, g1)
        BY <1>1, <1>2, <2>1, <3>7 DEF Tell
      <4> HIDE DEF b
      <4>2. SameMaps(b) /\ b.guest_control = g1
        BY <1>7, <4>1, ControlSame
      <4> QED
        BY <3>2, <3>3, <3>6, <3>7, <4>1, <4>2 DEF u, v
    <3>8. CASE guest.runs = 0
      <4>1. /\ told' = <<Say("GUEST_RUN_ENTRY", NoOperation, <<>>, None, "loopback_run")>>
            /\ b = WithControl(Base, g2)
        BY <1>1, <1>10, <2>1, <3>8 DEF Tell
      <4> HIDE DEF b
      <4>2. SameMaps(b) /\ b.guest_control = g2
        BY <1>7, <4>1, ControlSame
      <4> QED
        BY <3>2, <3>3, <3>6, <3>8, <4>1, <4>2 DEF u, v
    <3> QED
      BY <1>2, <3>7, <3>8
  <2> HIDE DEF b
  <2> QED
    BY <1>3, <1>4, <1>5, <1>6, <1>9, <2>2, GuestKeeps DEF HeldElsewhere
<1>11. CASE ~begins
  <2>1. guest.test = TRUE /\ guest'.test = FALSE /\ guest'.runs = guest.runs /\ guest.runs > 0
    BY <1>2, <1>3, <1>11 DEF GuestShape
  <2> DEFINE b == WithControl(Base, g3)
  <2>2. ASSUME ~vtd_bpf'.lost, Regular(guest'), GuestMaps
        PROVE  /\ SameMaps(b) /\ Controls(b.guest_control, guest')
               /\ Effect(b, vtd_bpf', told', "guest_pending_states", k, Holds(guest', k))
    <3>1. Controls(gc, guest) /\ Here(Base, "guest_pending_states", k) = Holds(guest', k)
      BY <1>4, <1>5, <2>2, GuestFinds DEF gc
    <3>2. guest.runs = 1 /\ DOMAIN gc = ControlFields
      BY <1>2, <2>1, <2>2, <3>1 DEF Regular, Controls
    <3> DEFINE v == Holds(guest', k)
               u == vtd_bpf'
    <3> HIDE DEF v, g3, u
    <3>3. Controls(g3, guest') /\ 1 \notin gc.once /\ gc.phase = "loopback_run"
      BY <1>3, <2>1, <3>1, <3>2, RunEnds DEF g3
    <3>4. u = guest_run_exit(Base, 0) /\ ~u.lost
      BY <1>1, <1>11, <2>2 DEF u
    <3>5. Here(Base, "guest_pending_states", k) = v
      BY <3>1 DEF v
    <3>6. Effect(WithControl(Base, g3), u, <<Say("GUEST_RUN_EXIT", NoOperation, <<>>, 0, gc.phase)>>,
                 "guest_pending_states", k, v)
      BY <1>7, <3>2, <3>3, <3>4, <3>5, RunExit DEF g3
    <3>7. told' = <<Say("GUEST_RUN_EXIT", NoOperation, <<>>, 0, "loopback_run")>>
      BY <1>1, <1>11, <2>1, <3>2 DEF Tell
    <3>8. SameMaps(b) /\ b.guest_control = g3
      BY <1>7, ControlSame
    <3> QED
      BY <3>3, <3>6, <3>7, <3>8 DEF u, v
  <2> HIDE DEF b
  <2> QED
    BY <1>3, <1>4, <1>5, <1>6, <1>9, <2>2, GuestKeeps DEF HeldElsewhere
<1> QED
  BY <1>10, <1>11
-----------------------------------------------------------------------------
\* A stack of mappings that grows by a new number or loses its last.
LEMMA Pushed ==
  ASSUME NEW n \in Nat, NEW s \in Seq(1 .. n), NEW p, p = Append(s, n + 1)
  PROVE  /\ p \in Seq(1 .. (n + 1)) /\ Len(p) = Len(s) + 1 /\ p[Len(p)] = n + 1 /\ Len(s) \in Nat
         /\ \A ix \in 1 .. Len(s) : p[ix] = s[ix] /\ s[ix] \in 1 .. n
OBVIOUS

LEMMA Popped ==
  ASSUME NEW S, NEW s \in Seq(S), s # <<>>, NEW p, p = Front(s)
  PROVE  /\ p \in Seq(S) /\ Len(s) = Len(p) + 1 /\ Len(p) \in Nat /\ Last(s) = s[Len(s)] /\ Last(s) \in S
         /\ \A ix \in 1 .. Len(p) : p[ix] = s[ix]
         /\ \A x : x \in ToSet(p) <=> \E ix \in 1 .. Len(p) : p[ix] = x
<1> DEFINE n == Len(s) - 1
<1>1. Len(s) \in Nat /\ Len(s) > 0 /\ n \in Nat /\ n \in Int /\ 1 \in Int
  BY EmptySeq
<1>2. p = SubSeq(s, 1, n)
  BY DEF Front
<1>3. \A ix \in 1 .. n : s[ix] \in S
  BY <1>1
<1> HIDE DEF n
<1>4. /\ p \in Seq(S) /\ Len(p) = IF 1 <= n THEN n - 1 + 1 ELSE 0
      /\ \A ix \in 1 .. n - 1 + 1 : p[ix] = s[1 + ix - 1]
  BY <1>1, <1>2, <1>3, SubSeqProperties
<1>5. Len(p) = n
  BY <1>1, <1>4
<1>6. \A ix \in 1 .. Len(p) : p[ix] = s[ix]
  BY <1>1, <1>4, <1>5
<1>7. Last(s) = s[Len(s)] /\ Last(s) \in S
  BY <1>1 DEF Last
<1>8. DOMAIN p = 1 .. Len(p)
  BY <1>4, LenProperties
<1>9. \A x : x \in ToSet(p) <=> \E ix \in 1 .. Len(p) : p[ix] = x
  BY <1>8 DEF ToSet
<1>10. Len(s) = Len(p) + 1 /\ Len(p) \in Nat
  BY <1>1, <1>5 DEF n
<1> QED
  BY <1>4, <1>6, <1>7, <1>9, <1>10

LEMMA Wider ==
  ASSUME NEW n \in Nat, NEW s \in Seq(1 .. n), NEW m \in Nat, n <= m
  PROVE  s \in Seq(1 .. m)
<1>1. Len(s) \in Nat /\ s \in [1 .. Len(s) -> 1 .. n]
  BY LenProperties
<1>2. s \in [1 .. Len(s) -> 1 .. m]
  BY <1>1
<1> QED
  BY <1>1, <1>2, SeqDef

\* The numbers stay apart when a new one is put on a stack, and when one is taken off.
LEMMA NumberedApart ==
  ASSUME NEW g, Numbered(g), NEW x \in Tasks, NEW y \in Tasks, NEW ix \in 1 .. Len(g.dma[x]),
         NEW j \in 1 .. Len(g.dma[y]), g.dma[x][ix] = g.dma[y][j]
  PROVE  x = y /\ ix = j
BY DEF Numbered

LEMMA PushNumbered ==
  ASSUME NEW g, Numbered(g), g.maps \in Nat, NEW t \in Tasks, NEW n, n = g.maps + 1, NEW h, h.maps = n,
         h.dma[t] = Append(g.dma[t], n), \A x \in Tasks : x # t => h.dma[x] = g.dma[x]
  PROVE  Numbered(h)
<1>1. \A x \in Tasks : g.dma[x] \in Seq(1 .. g.maps)
  BY DEF Numbered
<1> DEFINE s == g.dma[t]
           p == h.dma[t]
<1>2. s \in Seq(1 .. g.maps) /\ p = Append(s, g.maps + 1) /\ n \in Nat
  BY <1>1
<1> HIDE DEF s, p
<1>3. /\ p \in Seq(1 .. (g.maps + 1)) /\ Len(p) = Len(s) + 1 /\ p[Len(p)] = g.maps + 1 /\ Len(s) \in Nat
      /\ \A ix \in 1 .. Len(s) : p[ix] = s[ix] /\ s[ix] \in 1 .. g.maps
  BY <1>2, Pushed
<1>4. ASSUME NEW x \in Tasks
      PROVE  h.dma[x] \in Seq(1 .. h.maps)
  <2>1. CASE x = t
    BY <1>3, <2>1 DEF p
  <2>2. CASE x # t
    <3>1. h.dma[x] \in Seq(1 .. g.maps) /\ g.maps <= n
      BY <1>1, <2>2
    <3> QED
      BY <1>2, <3>1, Wider
  <2> QED
    BY <2>1, <2>2
<1>5. ASSUME NEW c \in Tasks, NEW m \in 1 .. Len(h.dma[c])
      PROVE  \/ c = t /\ m = Len(p) /\ h.dma[c][m] = n
             \/ m \in 1 .. Len(g.dma[c]) /\ h.dma[c][m] = g.dma[c][m] /\ h.dma[c][m] \in 1 .. g.maps
  <2>1. CASE c # t
    <3>1. h.dma[c] = g.dma[c] /\ g.dma[c] \in Seq(1 .. g.maps)
      BY <1>1, <2>1
    <3>2. g.dma[c][m] \in 1 .. g.maps
      BY <3>1, ElementOfSeq
    <3> QED
      BY <3>1, <3>2
  <2>2. CASE c = t
    <3>1. m \in 1 .. Len(p) /\ h.dma[c][m] = p[m] /\ g.dma[c] = s
      BY <2>2 DEF p, s
    <3>2. m = Len(p) \/ m \in 1 .. Len(s)
      BY <1>3, <3>1
    <3> QED
      BY <1>3, <2>2, <3>1, <3>2
  <2> QED
    BY <2>1, <2>2
<1>6. n \notin 1 .. g.maps
  OBVIOUS
<1>7. ASSUME NEW x \in Tasks, NEW y \in Tasks, NEW ix \in 1 .. Len(h.dma[x]), NEW j \in 1 .. Len(h.dma[y]),
             h.dma[x][ix] = h.dma[y][j]
      PROVE  x = y /\ ix = j
  <2>1. /\ \/ x = t /\ ix = Len(p) /\ h.dma[x][ix] = n
           \/ ix \in 1 .. Len(g.dma[x]) /\ h.dma[x][ix] = g.dma[x][ix] /\ h.dma[x][ix] \in 1 .. g.maps
        /\ \/ y = t /\ j = Len(p) /\ h.dma[y][j] = n
           \/ j \in 1 .. Len(g.dma[y]) /\ h.dma[y][j] = g.dma[y][j] /\ h.dma[y][j] \in 1 .. g.maps
    BY <1>5
  <2>2. CASE h.dma[x][ix] = n
    BY <1>6, <1>7, <2>1, <2>2
  <2>3. CASE h.dma[x][ix] # n
    <3>1. ix \in 1 .. Len(g.dma[x]) /\ j \in 1 .. Len(g.dma[y]) /\ g.dma[x][ix] = g.dma[y][j]
      BY <1>7, <2>1, <2>3
    <3> QED
      BY <3>1, NumberedApart
  <2> QED
    BY <2>2, <2>3
<1> QED
  BY <1>4, <1>7 DEF Numbered

LEMMA PopNumbered ==
  ASSUME NEW g, Numbered(g), NEW t \in Tasks, g.dma[t] # <<>>, NEW h, h.maps = g.maps,
         h.dma[t] = Front(g.dma[t]), \A x \in Tasks : x # t => h.dma[x] = g.dma[x]
  PROVE  Numbered(h)
<1>1. \A x \in Tasks : g.dma[x] \in Seq(1 .. g.maps)
  BY DEF Numbered
<1> DEFINE s == g.dma[t]
           p == h.dma[t]
<1>2. s \in Seq(1 .. g.maps) /\ s # <<>> /\ p = Front(s)
  BY <1>1
<1> HIDE DEF s, p
<1>3. /\ p \in Seq(1 .. g.maps) /\ Len(s) = Len(p) + 1 /\ Len(p) \in Nat
      /\ \A ix \in 1 .. Len(p) : p[ix] = s[ix]
  BY <1>2, Popped
<1>4. \A x \in Tasks : h.dma[x] \in Seq(1 .. h.maps)
  BY <1>1, <1>3 DEF p
<1>5. ASSUME NEW x \in Tasks, NEW ix \in 1 .. Len(h.dma[x])
      PROVE  ix \in 1 .. Len(g.dma[x]) /\ h.dma[x][ix] = g.dma[x][ix]
  <2>1. CASE x = t
    <3>1. ix \in 1 .. Len(p) /\ h.dma[x] = p /\ g.dma[x] = s
      BY <2>1 DEF p, s
    <3> QED
      BY <1>3, <3>1
  <2>2. CASE x # t
    BY <2>2
  <2> QED
    BY <2>1, <2>2
<1>6. ASSUME NEW x \in Tasks, NEW y \in Tasks, NEW ix \in 1 .. Len(h.dma[x]), NEW j \in 1 .. Len(h.dma[y]),
             h.dma[x][ix] = h.dma[y][j]
      PROVE  x = y /\ ix = j
  <2>1. ix \in 1 .. Len(g.dma[x]) /\ j \in 1 .. Len(g.dma[y]) /\ g.dma[x][ix] = g.dma[y][j]
    BY <1>5, <1>6
  <2> QED
    BY <2>1, NumberedApart
<1> QED
  BY <1>4, <1>6 DEF Numbered

\* The fields of the guest after a mapping begins.
Begun(g, h, t, n, z) == h = [g EXCEPT !.maps = n, !.dma[t] = Append(@, n), !.sampled = z]

LEMMA MapFields ==
  ASSUME NEW g, GuestShape(g), NEW t \in Tasks, NEW n, NEW z, NEW h, Begun(g, h, t, n, z)
  PROVE  /\ h.test = g.test /\ h.runs = g.runs /\ h.irq = g.irq /\ h.sampled = z /\ h.episodes = g.episodes
         /\ h.mixed = g.mixed /\ h.maps = n /\ DOMAIN h = GuestFields /\ DOMAIN h.dma = Tasks
         /\ h.dma[t] = Append(g.dma[t], n) /\ \A x \in Tasks : x # t => h.dma[x] = g.dma[x]
<1>1. DOMAIN g = GuestFields /\ DOMAIN g.dma = Tasks
  BY DEF GuestShape
<1>2. /\ h.test = g.test /\ h.runs = g.runs /\ h.irq = g.irq /\ h.sampled = z /\ h.episodes = g.episodes
      /\ h.mixed = g.mixed /\ h.maps = n /\ DOMAIN h = GuestFields
      /\ h.dma = [g.dma EXCEPT ![t] = Append(@, n)]
  BY <1>1 DEF GuestFields, Begun
<1>3. /\ DOMAIN h.dma = Tasks /\ h.dma[t] = Append(g.dma[t], n)
      /\ \A x \in Tasks : x # t => h.dma[x] = g.dma[x]
  BY <1>1, <1>2
<1> QED
  BY <1>1, <1>2, <1>3

LEMMA MapShape ==
  ASSUME NEW g, GuestShape(g), NEW t \in Tasks, NEW n, n = g.maps + 1, NEW h, h.sampled \in 0 .. n,
         h.test = g.test, h.runs = g.runs, h.irq = g.irq, h.episodes = g.episodes, h.mixed = g.mixed,
         h.maps = n, DOMAIN h = GuestFields, DOMAIN h.dma = Tasks,
         h.dma[t] = Append(g.dma[t], n), \A x \in Tasks : x # t => h.dma[x] = g.dma[x]
  PROVE  GuestShape(h)
<1>1. g.maps \in Nat /\ n \in Nat /\ Numbered(g)
  BY DEF GuestShape
<1>2. Numbered(h)
  BY <1>1, PushNumbered
<1> QED
  BY <1>1, <1>2 DEF GuestShape

\* Who holds the sampled mapping after one more has begun.
LEMMA MapHolds ==
  ASSUME NEW g, GuestShape(g), NEW t \in Tasks, NEW n, n = g.maps + 1, NEW h, GuestShape(h),
         h.irq = g.irq, h.dma[t] = Append(g.dma[t], n), \A x \in Tasks : x # t => h.dma[x] = g.dma[x]
  PROVE  /\ h.sampled = g.sampled => Holds(h, t) = Holds(g, t) /\ HeldElsewhere(g, h, t)
         /\ h.sampled = n /\ g.sampled = 0 => Holds(h, t) = {<<n>>} /\ HeldElsewhere(g, h, t)
<1>0. g.maps \in Nat /\ n \in Nat /\ Numbered(g)
  BY DEF GuestShape
<1>1. g.maps \in Nat /\ n \in Nat /\ \A x \in Tasks : g.dma[x] \in Seq(1 .. g.maps)
  BY <1>0 DEF Numbered
<1>2. /\ Len(h.dma[t]) = Len(g.dma[t]) + 1 /\ h.dma[t][Len(h.dma[t])] = n /\ Len(g.dma[t]) \in Nat
      /\ \A ix \in 1 .. Len(g.dma[t]) : h.dma[t][ix] = g.dma[t][ix] /\ g.dma[t][ix] \in 1 .. g.maps
  BY <1>1, Pushed
<1>3. \A k \in Keys : k \notin Tasks => Holds(h, k) = Holds(g, k)
  BY DEF Holds, IrqHolds
<1>4. ASSUME h.sampled = g.sampled
      PROVE  Holds(h, t) = Holds(g, t) /\ HeldElsewhere(g, h, t)
  <2>1. g.sampled # n
    BY <1>1 DEF GuestShape
  <2>2. Stacked(h, t) <=> Stacked(g, t)
    BY <1>2, <1>4, <2>1 DEF Stacked
  <2>3. \A x \in Tasks : x # t => (Stacked(h, x) <=> Stacked(g, x))
    BY <1>4 DEF Stacked
  <2> QED
    BY <1>3, <1>4, <2>2, <2>3 DEF Holds, TaskHolds, HeldElsewhere
<1>5. ASSUME h.sampled = n, g.sampled = 0
      PROVE  Holds(h, t) = {<<n>>} /\ HeldElsewhere(g, h, t)
  <2>1. Stacked(h, t)
    BY <1>2, <1>5 DEF Stacked
  <2>2. ASSUME NEW x \in Tasks, x # t
        PROVE  ~Stacked(h, x) /\ ~Stacked(g, x)
    <3>1. \A ix \in 1 .. Len(g.dma[x]) : g.dma[x][ix] \in 1 .. g.maps
      BY <1>1
    <3> QED
      BY <1>1, <1>5, <2>2, <3>1 DEF Stacked
  <2> QED
    BY <1>3, <1>5, <2>1, <2>2 DEF Holds, TaskHolds, HeldElsewhere
<1> QED
  BY <1>4, <1>5

\* ... and after one returns.
Ended(g, h, t, z) == h = [g EXCEPT !.dma[t] = Front(@), !.mixed = z]

LEMMA ReturnFields ==
  ASSUME NEW g, GuestShape(g), NEW t \in Tasks, NEW z, NEW h, Ended(g, h, t, z)
  PROVE  /\ h.test = g.test /\ h.runs = g.runs /\ h.irq = g.irq /\ h.sampled = g.sampled
         /\ h.episodes = g.episodes /\ h.mixed = z /\ h.maps = g.maps
         /\ DOMAIN h = GuestFields /\ DOMAIN h.dma = Tasks
         /\ h.dma[t] = Front(g.dma[t]) /\ \A x \in Tasks : x # t => h.dma[x] = g.dma[x]
<1>1. DOMAIN g = GuestFields /\ DOMAIN g.dma = Tasks
  BY DEF GuestShape
<1>2. /\ h.test = g.test /\ h.runs = g.runs /\ h.irq = g.irq /\ h.sampled = g.sampled
      /\ h.episodes = g.episodes /\ h.mixed = z /\ h.maps = g.maps /\ DOMAIN h = GuestFields
      /\ h.dma = [g.dma EXCEPT ![t] = Front(@)]
  BY <1>1 DEF GuestFields, Ended
<1>3. /\ DOMAIN h.dma = Tasks /\ h.dma[t] = Front(g.dma[t])
      /\ \A x \in Tasks : x # t => h.dma[x] = g.dma[x]
  BY <1>1, <1>2
<1> QED
  BY <1>2, <1>3

LEMMA ReturnShape ==
  ASSUME NEW g, GuestShape(g), NEW t \in Tasks, g.dma[t] # <<>>, NEW h, h.mixed \in BOOLEAN,
         h.test = g.test, h.runs = g.runs, h.irq = g.irq, h.episodes = g.episodes, h.sampled = g.sampled,
         h.maps = g.maps, DOMAIN h = GuestFields, DOMAIN h.dma = Tasks,
         h.dma[t] = Front(g.dma[t]), \A x \in Tasks : x # t => h.dma[x] = g.dma[x]
  PROVE  GuestShape(h)
<1>1. Numbered(g)
  BY DEF GuestShape
<1>2. Numbered(h)
  BY <1>1, PopNumbered
<1> QED
  BY <1>2 DEF GuestShape

LEMMA ReturnHolds ==
  ASSUME NEW g, GuestShape(g), NEW t \in Tasks, g.dma[t] # <<>>, NEW h, NEW n, n = Last(g.dma[t]),
         h.irq = g.irq, h.dma[t] = Front(g.dma[t]), \A x \in Tasks : x # t => h.dma[x] = g.dma[x],
         h.sampled = g.sampled, g.sampled \notin ToSet(Front(g.dma[t]))
  PROVE  /\ HeldElsewhere(g, h, t) /\ Holds(h, t) = {}
         /\ Holds(g, t) = IF n = g.sampled THEN {<<n>>} ELSE {}
<1>1. g.dma[t] \in Seq(1 .. g.maps)
  BY DEF GuestShape, Numbered
<1>2. /\ Len(g.dma[t]) = Len(h.dma[t]) + 1 /\ Len(h.dma[t]) \in Nat /\ n = g.dma[t][Len(g.dma[t])]
      /\ \A ix \in 1 .. Len(h.dma[t]) : h.dma[t][ix] = g.dma[t][ix]
      /\ g.sampled \in ToSet(h.dma[t]) <=> \E ix \in 1 .. Len(h.dma[t]) : h.dma[t][ix] = g.sampled
  BY <1>1, Popped
<1>3. \A k \in Keys : k \notin Tasks => Holds(h, k) = Holds(g, k)
  BY DEF Holds, IrqHolds
<1>4. ~Stacked(h, t)
  BY <1>2 DEF Stacked
<1>5. Stacked(g, t) <=> n = g.sampled
  BY <1>2 DEF Stacked
<1>6. \A x \in Tasks : x # t => (Stacked(h, x) <=> Stacked(g, x))
  BY DEF Stacked
<1> QED
  BY <1>3, <1>4, <1>5, <1>6 DEF Holds, TaskHolds, HeldElsewhere
-----------------------------------------------------------------------------
LEMMA SampleControls ==
  ASSUME NEW gc, NEW g, NEW h, Controls(gc, g), h.test = g.test, h.runs = g.runs, h.episodes = g.episodes
  PROVE  /\ (h.sampled = 0 <=> g.sampled = 0) => Controls(gc, h)
         /\ \A x : x = Claim(gc, 2) /\ h.sampled # 0 => Controls(x, h)
<1>1. Phase(h) = Phase(g)
  BY DEF Phase
<1>2. (h.sampled = 0 <=> g.sampled = 0) => Controls(gc, h)
  BY <1>1 DEF Controls
<1>3. ASSUME NEW x, x = Claim(gc, 2), h.sampled # 0
      PROVE  Controls(x, h)
  <2>1. /\ DOMAIN x = ControlFields /\ x.active = gc.active /\ x.phase = gc.phase
        /\ x.episode_counter = gc.episode_counter /\ x.once = gc.once \cup {2}
    BY <1>3 DEF Claim, Controls, ControlFields
  <2> QED
    BY <1>1, <1>3, <2>1 DEF Controls
<1> QED
  BY <1>2, <1>3

LEMMA MapCallKeeps ==
  ASSUME VtdGuestInv, NEW cpu \in Cpus, DmaMapCall(cpu)
  PROVE  VtdGuestInv' /\ (~vtd_bpf'.lost /\ Regular(guest') => Exact')
<1> DEFINE n == guest.maps + 1
           t == Task(cpu)
           gc == vtd_bpf.guest_control
           sampled == guest.test /\ guest.sampled = 0
           z == IF sampled THEN n ELSE guest.sampled
           r == Say("GUEST_DMA_MAP_ENTRY", NoOperation, <<n>>, None, "loopback_run")
<1>a. Begun(guest, guest', t, n, z)
  BY DEF DmaMapCall, Begun
<1>1. /\ vtd_bpf' = guest_dma_map_entry(Base, t, <<n>>)
      /\ told' = Tell(sampled, r)
  BY DEF DmaMapCall, Fire, Base
<1>2. /\ GuestShape(guest) /\ guest.test \in BOOLEAN /\ guest.maps \in Nat /\ guest.sampled \in 0 .. guest.maps
      /\ t \in Tasks /\ t \in Keys
  BY KeyKinds DEF VtdGuestInv, GuestShape
<1>3. z \in 0 .. n /\ n \in Nat /\ n # 0
  BY <1>2
<1>4. ProperVtd(vtd_bpf) /\ SameMaps(Base) /\ ProperVtd(Base) /\ Base.out = <<>> /\ Base.guest_control = gc
  BY GuestFinds DEF VtdGuestInv
<1>5. Base.lost = vtd_bpf.lost
  BY <1>4 DEF SameMaps
<1> HIDE DEF z, t, gc, r
<1>6. /\ guest'.test = guest.test /\ guest'.runs = guest.runs /\ guest'.irq = guest.irq /\ guest'.sampled = z
      /\ guest'.episodes = guest.episodes
      /\ guest'.mixed = guest.mixed /\ guest'.maps = n /\ DOMAIN guest' = GuestFields /\ DOMAIN guest'.dma = Tasks
      /\ guest'.dma[t] = Append(guest.dma[t], n) /\ \A x \in Tasks : x # t => guest'.dma[x] = guest.dma[x]
  BY <1>2, <1>a, MapFields
<1>7. GuestShape(guest')
  BY <1>2, <1>3, <1>6, MapShape
<1>8. Regular(guest') => Regular(guest)
  BY <1>6 DEF Regular
<1>9. Lasting(vtd_bpf, vtd_bpf')
  BY <1>1, <1>4, <1>5, LastingGuest DEF Lasting
<1>10. /\ guest'.sampled = guest.sampled => Holds(guest', t) = Holds(guest, t) /\ HeldElsewhere(guest, guest', t)
       /\ guest'.sampled = n /\ guest.sampled = 0 => Holds(guest', t) = {<<n>>} /\ HeldElsewhere(guest, guest', t)
  BY <1>2, <1>6, <1>7, MapHolds
<1>11. CASE sampled
  <2>1. guest'.sampled = n /\ guest.sampled = 0 /\ told' = <<r>> /\ guest.test = TRUE
    BY <1>1, <1>2, <1>6, <1>11 DEF z, Tell
  <2> DEFINE b == WithControl(Base, Claim(gc, 2))
  <2>2. ASSUME GuestMaps
        PROVE  /\ SameMaps(b) /\ Controls(b.guest_control, guest')
               /\ Effect(b, vtd_bpf', told', "guest_pending_states", t, Holds(guest', t))
    <3>1. Controls(gc, guest)
      BY <2>2, GuestFinds DEF gc
    <3>2. DOMAIN gc = ControlFields /\ gc.active /\ 2 \notin gc.once /\ gc.phase = "loopback_run"
      BY <2>1, <3>1 DEF Controls, Phase
    <3> DEFINE g1 == Claim(gc, 2)
               u == vtd_bpf'
               a == <<n>>
    <3> HIDE DEF g1, u, a
    <3>3. u = guest_dma_map_entry(Base, t, a)
      BY <1>1 DEF u, a
    <3>4. Effect(WithControl(Base, Claim(gc, 2)), u,
                 <<Say("GUEST_DMA_MAP_ENTRY", NoOperation, a, None, gc.phase)>>,
                 "guest_pending_states", t, {a})
      BY <1>4, <3>2, <3>3, MapEntry
    <3>5. Controls(g1, guest')
      BY <1>3, <1>6, <2>1, <3>1, SampleControls DEF g1
    <3>6. SameMaps(b) /\ b.guest_control = g1
      BY <1>4, ControlSame DEF g1
    <3> QED
      BY <1>10, <2>1, <3>2, <3>4, <3>5, <3>6 DEF u, a, r
  <2> HIDE DEF b
  <2> QED
    BY <1>2, <1>7, <1>8, <1>9, <1>10, <2>1, <2>2, GuestKeeps DEF HeldElsewhere
<1>12. CASE ~sampled
  <2>1. guest'.sampled = guest.sampled /\ told' = <<>> /\ (guest.test = FALSE \/ guest.sampled # 0)
    BY <1>1, <1>2, <1>6, <1>12 DEF z, Tell
  <2>2. ASSUME GuestMaps
        PROVE  vtd_bpf' = Base /\ Controls(gc, guest')
    <3>1. Controls(gc, guest)
      BY <2>2, GuestFinds DEF gc
    <3>2. gc.active = FALSE \/ 2 \in gc.once
      BY <2>1, <3>1 DEF Controls
    <3>3. vtd_bpf' = Base
      BY <1>1, <1>4, <3>2 DEF guest_dma_map_entry, claimed
    <3> QED
      BY <1>6, <2>1, <3>1, <3>3, SampleControls
  <2> QED
    BY <1>2, <1>7, <1>8, <1>9, <1>10, <2>1, <2>2, GuestIdle DEF gc
<1> QED
  BY <1>11, <1>12

LEMMA MapReturnKeeps ==
  ASSUME VtdGuestInv, NEW cpu \in Cpus, DmaMapReturn(cpu)
  PROVE  VtdGuestInv' /\ (~vtd_bpf'.lost /\ Regular(guest') => Exact')
<1> DEFINE t == Task(cpu)
           n == Last(guest.dma[t])
           gc == vtd_bpf.guest_control
           z == guest.mixed \/ guest.sampled \in ToSet(Front(guest.dma[t]))
           r == Say("GUEST_DMA_MAP_EXIT", NoOperation, <<n>>, n, Phase(guest))
<1>a. Ended(guest, guest', t, z) /\ guest.dma[t] # <<>>
  BY DEF DmaMapReturn, Ended
<1>1. /\ vtd_bpf' = guest_dma_map_exit(Base, t, n)
      /\ told' = Tell(n = guest.sampled, r)
  BY DEF DmaMapReturn, Fire, Base
<1>2. GuestShape(guest) /\ guest.mixed \in BOOLEAN /\ t \in Tasks /\ t \in Keys /\ z \in BOOLEAN
  BY KeyKinds DEF VtdGuestInv, GuestShape
<1>3. z = FALSE => guest.sampled \notin ToSet(Front(guest.dma[t])) /\ guest.mixed = FALSE
  BY <1>2
<1>4. ProperVtd(vtd_bpf) /\ SameMaps(Base) /\ ProperVtd(Base) /\ Base.out = <<>> /\ Base.guest_control = gc
  BY GuestFinds DEF VtdGuestInv
<1>5. Base.lost = vtd_bpf.lost
  BY <1>4 DEF SameMaps
<1> HIDE DEF z, t, gc, r, n
<1>6. /\ guest'.test = guest.test /\ guest'.runs = guest.runs /\ guest'.irq = guest.irq
      /\ guest'.sampled = guest.sampled /\ guest'.episodes = guest.episodes
      /\ guest'.mixed = z /\ guest'.maps = guest.maps /\ DOMAIN guest' = GuestFields /\ DOMAIN guest'.dma = Tasks
      /\ guest'.dma[t] = Front(guest.dma[t]) /\ \A x \in Tasks : x # t => guest'.dma[x] = guest.dma[x]
  BY <1>2, <1>a, ReturnFields
<1>7. GuestShape(guest')
  BY <1>2, <1>6, <1>a, ReturnShape
<1>8. Regular(guest') => Regular(guest) /\ z = FALSE
  BY <1>2, <1>3, <1>6 DEF Regular
<1>9. Lasting(vtd_bpf, vtd_bpf')
  BY <1>1, <1>4, <1>5, LastingGuest DEF Lasting
<1>10. z = FALSE => /\ HeldElsewhere(guest, guest', t) /\ Holds(guest', t) = {}
                    /\ Holds(guest, t) = IF n = guest.sampled THEN {<<n>>} ELSE {}
  BY <1>2, <1>3, <1>6, <1>a, ReturnHolds DEF n
<1>11. ASSUME GuestMaps, z = FALSE
       PROVE  /\ Controls(gc, guest') /\ gc.phase = Phase(guest)
              /\ Here(Base, "guest_pending_states", t) = Holds(guest, t)
  <2>1. Controls(gc, guest) /\ Here(Base, "guest_pending_states", t) = Holds(guest, t)
    BY <1>2, <1>11, GuestFinds DEF gc
  <2>2. Controls(gc, guest')
    BY <1>6, <2>1, SampleControls
  <2> QED
    BY <2>1, <2>2 DEF Controls
<1>12. CASE n = guest.sampled
  <2>1. told' = <<r>>
    BY <1>1, <1>12 DEF Tell
  <2>2. ASSUME GuestMaps, z = FALSE
        PROVE  Effect(Base, vtd_bpf', told', "guest_pending_states", t, Holds(guest', t))
    <3> DEFINE a == <<n>>
               p == gc.phase
               u == vtd_bpf'
    <3>1. Here(Base, "guest_pending_states", t) = {a}
      BY <1>10, <1>11, <1>12, <2>2
    <3>2. u = guest_dma_map_exit(Base, t, n) /\ p = Base.guest_control.phase
      BY <1>1, <1>4
    <3> HIDE DEF a, p, u
    <3>3. Effect(Base, u, <<Say("GUEST_DMA_MAP_EXIT", NoOperation, a, n, p)>>,
                 "guest_pending_states", t, {})
      BY <1>4, <3>1, <3>2, MapExit
    <3> QED
      BY <1>10, <1>11, <2>1, <2>2, <3>3 DEF a, p, u, r
  <2> QED
    BY <1>2, <1>4, <1>7, <1>8, <1>9, <1>10, <1>11, <2>2, GuestKeeps DEF HeldElsewhere
<1>13. CASE n # guest.sampled
  <2>1. told' = <<>>
    BY <1>1, <1>13 DEF Tell
  <2>2. ASSUME GuestMaps, z = FALSE
        PROVE  vtd_bpf' = Base
    <3> DEFINE u == vtd_bpf'
               p == gc.phase
    <3>1. Here(Base, "guest_pending_states", t) = {}
      BY <1>10, <1>11, <1>13, <2>2
    <3>2. u = guest_dma_map_exit(Base, t, n) /\ p = Base.guest_control.phase
      BY <1>1, <1>4
    <3> HIDE DEF p, u
    <3>3. u = Base
      BY <1>4, <3>1, <3>2, MapExit
    <3> QED
      BY <3>3 DEF u
  <2>3. ~vtd_bpf.lost /\ Regular(guest') /\ GuestMaps =>
           /\ vtd_bpf' = Base /\ told' = <<>> /\ Controls(vtd_bpf.guest_control, guest')
           /\ Holds(guest', t) = Holds(guest, t) /\ HeldElsewhere(guest, guest', t)
    BY <1>8, <1>10, <1>11, <1>13, <2>1, <2>2 DEF gc
  <2> QED
    BY <1>2, <1>7, <1>8, <1>9, <2>3, GuestIdle
<1> QED
  BY <1>12, <1>13
-----------------------------------------------------------------------------
\* Raised and handled: the fields of the guest when an interrupt is entered and when it is left.
Raised(g, h, cpu, n, e, now) == h = [g EXCEPT !.irqs = n, !.episodes = e, !.irq[cpu] = now]
Handled(g, h, cpu) == h = [g EXCEPT !.irq[cpu] = NoIrq]

IrqOnly(g, h, cpu, now) ==
  /\ h.test = g.test /\ h.runs = g.runs /\ h.sampled = g.sampled /\ h.mixed = g.mixed /\ h.maps = g.maps
  /\ h.dma = g.dma /\ DOMAIN h = GuestFields /\ DOMAIN h.irq = Cpus
  /\ h.irq[cpu] = now /\ \A x \in Cpus : x # cpu => h.irq[x] = g.irq[x]

LEMMA RaisedFields ==
  ASSUME NEW g, GuestShape(g), NEW cpu \in Cpus, NEW n, NEW e, NEW now, NEW h, Raised(g, h, cpu, n, e, now)
  PROVE  IrqOnly(g, h, cpu, now) /\ h.episodes = e
<1>1. DOMAIN g = GuestFields /\ DOMAIN g.irq = Cpus
  BY DEF GuestShape
<1>2. /\ h.test = g.test /\ h.runs = g.runs /\ h.sampled = g.sampled /\ h.mixed = g.mixed /\ h.maps = g.maps
      /\ h.dma = g.dma /\ DOMAIN h = GuestFields /\ h.episodes = e /\ h.irq = [g.irq EXCEPT ![cpu] = now]
  BY <1>1 DEF GuestFields, Raised
<1> QED
  BY <1>1, <1>2 DEF IrqOnly

LEMMA HandledFields ==
  ASSUME NEW g, GuestShape(g), NEW cpu \in Cpus, NEW h, Handled(g, h, cpu)
  PROVE  IrqOnly(g, h, cpu, NoIrq) /\ h.episodes = g.episodes
<1>1. DOMAIN g = GuestFields /\ DOMAIN g.irq = Cpus
  BY DEF GuestShape
<1>2. /\ h.test = g.test /\ h.runs = g.runs /\ h.sampled = g.sampled /\ h.mixed = g.mixed /\ h.maps = g.maps
      /\ h.dma = g.dma /\ DOMAIN h = GuestFields /\ h.episodes = g.episodes
      /\ h.irq = [g.irq EXCEPT ![cpu] = NoIrq]
  BY <1>1 DEF GuestFields, Handled
<1> QED
  BY <1>1, <1>2 DEF IrqOnly

LEMMA IrqShape ==
  ASSUME NEW g, GuestShape(g), NEW cpu \in Cpus, NEW now, now = NoIrq \/ now.irq \in IrqNames,
         NEW h, IrqOnly(g, h, cpu, now), h.episodes \in Nat
  PROVE  GuestShape(h) /\ (Regular(h) => Regular(g))
<1>1. Numbered(h)
  BY DEF GuestShape, Numbered, IrqOnly
<1>2. \A x \in Cpus : h.irq[x] = NoIrq \/ h.irq[x].irq \in IrqNames
  BY DEF GuestShape, IrqOnly
<1>3. GuestShape(h)
  BY <1>1, <1>2 DEF GuestShape, IrqOnly
<1>4. Regular(h) => Regular(g)
  BY DEF Regular, IrqOnly
<1> QED
  BY <1>3, <1>4

\* The keys of one CPU are two, and only one of them can hold anything.
LEMMA IrqHeld ==
  ASSUME NEW g, GuestShape(g), NEW cpu \in Cpus, NEW now, NEW h, IrqOnly(g, h, cpu, now),
         NEW k, k = <<cpu, "card">>
  PROVE  /\ k \in Keys /\ k[2] = "card" /\ HeldElsewhere(g, h, k)
         /\ Holds(h, k) = IF now.irq = "card" THEN {EpisodeOf(now)} ELSE {}
         /\ Holds(g, k) = IF g.irq[cpu].irq = "card" THEN {EpisodeOf(g.irq[cpu])} ELSE {}
<1>1. k \in IrqKeys /\ k[1] = cpu /\ k[2] = "card"
  BY DEF IrqKeys, IrqNames
<1>2. k \in Keys /\ k \notin Tasks
  BY <1>1, KeyKinds
<1>3. Holds(h, k) = IF now.irq = "card" THEN {EpisodeOf(now)} ELSE {}
  BY <1>1, <1>2 DEF Holds, IrqHolds, IrqOnly
<1>4. Holds(g, k) = IF g.irq[cpu].irq = "card" THEN {EpisodeOf(g.irq[cpu])} ELSE {}
  BY <1>1, <1>2 DEF Holds, IrqHolds
<1>5. ASSUME NEW x \in Keys, x # k
      PROVE  Holds(h, x) = Holds(g, x)
  <2>1. CASE x \in Tasks
    BY <2>1 DEF Holds, TaskHolds, Stacked, IrqOnly
  <2>2. CASE x \notin Tasks
    <3>1. PICK c \in Cpus, ix \in IrqNames : x = <<c, ix>>
      BY <2>2 DEF Keys, IrqKeys
    <3>2. x[1] = c /\ x[2] = ix
      BY <3>1
    <3>3. CASE c # cpu
      BY <2>2, <3>2, <3>3 DEF Holds, IrqHolds, IrqOnly
    <3>4. CASE c = cpu
      <4>1. ix # "card"
        BY <1>5, <3>1, <3>4
      <4> QED
        BY <2>2, <3>2, <4>1 DEF Holds, IrqHolds
    <3> QED
      BY <3>3, <3>4
  <2> QED
    BY <2>1, <2>2
<1> QED
  BY <1>1, <1>2, <1>3, <1>4, <1>5 DEF HeldElsewhere

LEMMA IrqControls ==
  ASSUME NEW gc, NEW g, NEW h, Controls(gc, g), h.test = g.test, h.runs = g.runs, h.sampled = g.sampled,
         NEW x, x = [gc EXCEPT !.episode_counter = h.episodes]
  PROVE  Controls(x, h) /\ (h.episodes = g.episodes => Controls(gc, h))
<1>1. Phase(h) = Phase(g)
  BY DEF Phase
<1>2. /\ DOMAIN x = ControlFields /\ x.active = gc.active /\ x.phase = gc.phase
      /\ x.episode_counter = h.episodes /\ x.once = gc.once
  BY DEF Controls, ControlFields
<1>3. Controls(x, h)
  BY <1>1, <1>2 DEF Controls
<1>4. h.episodes = g.episodes => Controls(gc, h)
  BY <1>1 DEF Controls
<1> QED
  BY <1>3, <1>4

LEMMA IrqEntryKeeps ==
  ASSUME VtdGuestInv, NEW cpu \in Cpus, IrqHandlerEntry(cpu)
  PROVE  VtdGuestInv' /\ (~vtd_bpf'.lost /\ Regular(guest') => Exact')
<1> DEFINE gc == vtd_bpf.guest_control
           k == <<cpu, "card">>
           n == guest.irqs + 1
           Entered(irq) == [irq |-> irq, episode |-> IF irq = "card" THEN guest.episodes + 1 ELSE 0,
                        phase |-> Phase(guest), depth |-> Len(guest.dma[Task(cpu)])]
           E(irq) == guest.episodes + (IF irq = "card" THEN 1 ELSE 0)
           R(irq) == Say("GUEST_IRQ_ENTRY", NoOperation, EpisodeOf(Entered(irq)), None, Phase(guest))
<1>1. PICK irq \in IrqNames :
        /\ Raised(guest, guest', cpu, n, E(irq), Entered(irq))
        /\ vtd_bpf' = guest_irq_entry(Base, <<cpu, irq>>)
        /\ told' = Tell(irq = "card", R(irq))
        /\ guest.irq[cpu] = NoIrq
  BY DEF IrqHandlerEntry, Fire, Base, IrqNames, Raised, EpisodeOf
<1> DEFINE now == Entered(irq)
           e == E(irq)
           r == R(irq)
<1>2. GuestShape(guest) /\ guest.episodes \in Nat
  BY DEF VtdGuestInv, GuestShape
<1>3. /\ now.irq = irq /\ e \in Nat /\ (irq # "card" => e = guest.episodes)
      /\ irq = "card" => e = guest.episodes + 1 /\ now.episode = e /\ now.phase = Phase(guest)
  BY <1>2
<1>4. ProperVtd(vtd_bpf) /\ SameMaps(Base) /\ ProperVtd(Base) /\ Base.out = <<>> /\ Base.guest_control = gc
  BY GuestFinds DEF VtdGuestInv
<1>5. Base.lost = vtd_bpf.lost
  BY <1>4 DEF SameMaps
<1>6. r = Say("GUEST_IRQ_ENTRY", NoOperation, EpisodeOf(now), None, Phase(guest))
  OBVIOUS
<1>7. /\ Raised(guest, guest', cpu, n, e, now) /\ told' = Tell(irq = "card", r)
      /\ vtd_bpf' = guest_irq_entry(Base, <<cpu, irq>>)
  BY <1>1
<1> HIDE DEF now, e, r, k, gc, n
<1>8. IrqOnly(guest, guest', cpu, now) /\ guest'.episodes = e
  BY <1>2, <1>7, RaisedFields
<1>9. GuestShape(guest') /\ (Regular(guest') => Regular(guest))
  BY <1>2, <1>3, <1>8, IrqShape
<1>10. /\ k \in Keys /\ k[2] = "card" /\ HeldElsewhere(guest, guest', k)
       /\ Holds(guest', k) = IF now.irq = "card" THEN {EpisodeOf(now)} ELSE {}
       /\ Holds(guest, k) = IF guest.irq[cpu].irq = "card" THEN {EpisodeOf(guest.irq[cpu])} ELSE {}
  BY <1>2, <1>8, IrqHeld DEF k
<1>11. guest.irq[cpu].irq # "card"
  BY <1>1 DEF NoIrq, None
<1>12. Lasting(vtd_bpf, vtd_bpf')
  BY <1>4, <1>5, <1>7, LastingGuest DEF Lasting
<1>13. guest'.test = guest.test /\ guest'.runs = guest.runs /\ guest'.sampled = guest.sampled
  BY <1>8 DEF IrqOnly
<1>14. CASE irq = "card"
  <2> DEFINE g1 == [gc EXCEPT !.episode_counter = e]
             b == WithControl(Base, g1)
  <2>1. told' = <<r>> /\ vtd_bpf' = guest_irq_entry(Base, k) /\ Holds(guest', k) = {EpisodeOf(now)}
    BY <1>3, <1>7, <1>10, <1>14 DEF Tell, k
  <2>2. ASSUME GuestMaps
        PROVE  /\ SameMaps(b) /\ Controls(b.guest_control, guest')
               /\ Effect(b, vtd_bpf', told', "guest_pending_states", k, Holds(guest', k))
    <3>1. Controls(gc, guest)
      BY <2>2, GuestFinds DEF gc
    <3>2. Controls(g1, guest')
      BY <1>8, <1>13, <3>1, IrqControls
    <3>3. DOMAIN gc = ControlFields /\ gc.phase = Phase(guest) /\ e = gc.episode_counter + 1
      BY <1>3, <1>14, <3>1 DEF Controls
    <3> DEFINE s == EpisodeOf(now)
               u == vtd_bpf'
    <3>4. s = [episode |-> e, phase |-> gc.phase, irq |-> "card"] /\ u = guest_irq_entry(Base, k)
      BY <1>3, <1>14, <2>1, <3>3 DEF EpisodeOf
    <3> HIDE DEF s, u
    <3>5. Effect(WithControl(Base, [gc EXCEPT !.episode_counter = e]), u,
                 <<Say("GUEST_IRQ_ENTRY", NoOperation, s, None, gc.phase)>>, "guest_pending_states", k, {s})
      BY <1>4, <1>10, <3>3, <3>4, IrqEntry
    <3>6. SameMaps(b) /\ b.guest_control = g1
      BY <1>4, ControlSame
    <3> QED
      BY <1>6, <2>1, <3>2, <3>3, <3>5, <3>6 DEF u, s
  <2> HIDE DEF b
  <2> QED
    BY <1>9, <1>10, <1>12, <2>2, GuestKeeps DEF HeldElsewhere
<1>15. CASE irq # "card"
  <2>1. told' = <<>> /\ vtd_bpf' = Base
    BY <1>7, <1>15 DEF Tell, guest_irq_entry, guest_irq_name_matches
  <2>2. Holds(guest', k) = Holds(guest, k) /\ HeldElsewhere(guest, guest', k)
    BY <1>3, <1>10, <1>11, <1>15
  <2>3. guest'.episodes = guest.episodes
    BY <1>3, <1>8, <1>15
  <2>4. GuestMaps => Controls(vtd_bpf.guest_control, guest')
    BY <1>13, <2>3, IrqControls, GuestFinds
  <2> QED
    BY <1>9, <1>10, <1>12, <2>1, <2>2, <2>4, GuestIdle
<1> QED
  BY <1>14, <1>15

LEMMA IrqExitKeeps ==
  ASSUME VtdGuestInv, NEW cpu \in Cpus, IrqHandlerExit(cpu)
  PROVE  VtdGuestInv' /\ (~vtd_bpf'.lost /\ Regular(guest') => Exact')
<1> DEFINE gc == vtd_bpf.guest_control
           k == <<cpu, "card">>
           now == guest.irq[cpu]
           r == Say("GUEST_IRQ_EXIT", NoOperation, EpisodeOf(now), None, now.phase)
<1>1. /\ Handled(guest, guest', cpu) /\ now # NoIrq
      /\ vtd_bpf' = guest_irq_exit(Base, <<cpu, now.irq>>)
      /\ told' = Tell(now.irq = "card", r)
  BY DEF IrqHandlerExit, Fire, Base, Handled, EpisodeOf
<1>2. GuestShape(guest) /\ now.irq \in IrqNames /\ guest.episodes \in Nat
  BY <1>1 DEF VtdGuestInv, GuestShape
<1>3. ProperVtd(vtd_bpf) /\ SameMaps(Base) /\ ProperVtd(Base) /\ Base.out = <<>> /\ Base.guest_control = gc
  BY GuestFinds DEF VtdGuestInv
<1>4. Base.lost = vtd_bpf.lost
  BY <1>3 DEF SameMaps
<1>5. r = Say("GUEST_IRQ_EXIT", NoOperation, EpisodeOf(now), None, now.phase)
  OBVIOUS
<1> HIDE DEF r, k, gc
<1>6. IrqOnly(guest, guest', cpu, NoIrq) /\ guest'.episodes = guest.episodes
  BY <1>1, <1>2, HandledFields
<1>7. GuestShape(guest') /\ (Regular(guest') => Regular(guest))
  BY <1>2, <1>6, IrqShape
<1>8. /\ k \in Keys /\ k[2] = "card" /\ HeldElsewhere(guest, guest', k)
      /\ Holds(guest', k) = IF NoIrq.irq = "card" THEN {EpisodeOf(NoIrq)} ELSE {}
      /\ Holds(guest, k) = IF now.irq = "card" THEN {EpisodeOf(now)} ELSE {}
  BY <1>2, <1>6, IrqHeld DEF k
<1>9. Holds(guest', k) = {}
  BY <1>8 DEF NoIrq, None
<1>10. Lasting(vtd_bpf, vtd_bpf')
  BY <1>1, <1>3, <1>4, LastingGuest DEF Lasting
<1>11. ASSUME GuestMaps
       PROVE  /\ Controls(gc, guest')
              /\ \A x \in Keys : Here(Base, "guest_pending_states", x) = Holds(guest, x)
  <2>1. guest'.test = guest.test /\ guest'.runs = guest.runs /\ guest'.sampled = guest.sampled
    BY <1>6 DEF IrqOnly
  <2>2. Controls(gc, guest) /\ \A x \in Keys : Here(Base, "guest_pending_states", x) = Holds(guest, x)
    BY <1>11, GuestFinds DEF gc
  <2> QED
    BY <1>6, <2>1, <2>2, IrqControls
<1>12. CASE now.irq = "card"
  <2>1. told' = <<r>> /\ vtd_bpf' = guest_irq_exit(Base, k) /\ Holds(guest, k) = {EpisodeOf(now)}
    BY <1>1, <1>8, <1>12 DEF Tell, k
  <2>2. ASSUME GuestMaps
        PROVE  Effect(Base, vtd_bpf', told', "guest_pending_states", k, Holds(guest', k))
    <3> DEFINE s == EpisodeOf(now)
               u == vtd_bpf'
    <3>1. s.phase = now.phase /\ u = guest_irq_exit(Base, k) /\ Here(Base, "guest_pending_states", k) = {s}
      BY <1>8, <1>11, <2>1, <2>2 DEF EpisodeOf
    <3> HIDE DEF s, u
    <3>2. Effect(Base, u, <<Say("GUEST_IRQ_EXIT", NoOperation, s, None, s.phase)>>,
                 "guest_pending_states", k, {})
      BY <1>3, <3>1, IrqExit
    <3> QED
      BY <1>5, <1>9, <2>1, <3>1, <3>2 DEF u, s
  <2> QED
    BY <1>3, <1>7, <1>8, <1>10, <1>11, <2>2, GuestKeeps DEF HeldElsewhere
<1>13. CASE now.irq # "card"
  <2> DEFINE j == <<cpu, now.irq>>
             u == vtd_bpf'
  <2>1. told' = <<>> /\ Holds(guest', k) = Holds(guest, k)
    BY <1>1, <1>8, <1>9, <1>13 DEF Tell
  <2>2. j \in Keys /\ Holds(guest, j) = {}
    <3>1. j \in IrqKeys /\ j[2] = now.irq
      BY <1>2 DEF IrqKeys
    <3>2. j \in Keys /\ j \notin Tasks
      BY <3>1, KeyKinds
    <3> QED
      BY <1>13, <3>1, <3>2 DEF Holds, IrqHolds
  <2>3. u = guest_irq_exit(Base, j)
    BY <1>1
  <2> HIDE DEF j
  <2>4. ASSUME GuestMaps
        PROVE  u = Base
    <3>1. Here(Base, "guest_pending_states", j) = {}
      BY <1>11, <2>2, <2>4
    <3> HIDE DEF u
    <3> QED
      BY <1>3, <2>3, <3>1, IrqExit
  <2> QED
    BY <1>7, <1>8, <1>10, <1>11, <2>1, <2>4, GuestIdle DEF gc
<1> QED
  BY <1>12, <1>13
-----------------------------------------------------------------------------
\* The whole trace.
LEMMA GuestStepKeeps ==
  ASSUME VtdGuestInv, GuestKernel
  PROVE  VtdGuestInv' /\ (~vtd_bpf'.lost /\ Regular(guest') => Exact')
BY RunTestKeeps, MapCallKeeps, MapReturnKeeps, IrqEntryKeeps, IrqExitKeeps DEF GuestKernel

\* The programs' state, but for the records and the room in the ring.
SameState(b, u) ==
  /\ ProperVtd(u) /\ u.lost = b.lost /\ u.guest_control = b.guest_control
  /\ u.request_counter = b.request_counter
  /\ \A n \in VtdMaps : \A j : Here(u, n, j) = Here(b, n, j)

LEMMA RingState ==
  ASSUME ProperVtd(vtd_bpf), VtdRing
  PROVE  SameState(vtd_bpf, vtd_bpf') /\ vtd_bpf'.out = <<>> /\ told' = <<>>
<1>1. /\ DOMAIN vtd_bpf' = VtdFields /\ vtd_bpf'.out = <<>> /\ vtd_bpf'.lost = vtd_bpf.lost
      /\ vtd_bpf'.guest_control = vtd_bpf.guest_control
      /\ vtd_bpf'.request_counter = vtd_bpf.request_counter
      /\ \A n \in VtdMaps : vtd_bpf'[n] = vtd_bpf[n]
  BY FieldNames DEF VtdRing, ProperVtd
<1>2. \A n \in VtdMaps : \A j : Here(vtd_bpf', n, j) = Here(vtd_bpf, n, j)
  BY <1>1 DEF Here
<1> QED
  BY <1>1, <1>2 DEF SameState, ProperVtd, VtdRing

LEMMA StaysHost ==
  ASSUME VtdHostInv, SameState(vtd_bpf, vtd_bpf'), UNCHANGED <<attached, host, requests>>
  PROVE  VtdHostInv'
<1>1. HostShape'
  BY DEF VtdHostInv, HostShape
<1>2. \A t \in HostThreads : ActiveOf(t, host[t])' = ActiveOf(t, host[t]) /\ OpenOf(t, host[t])' = OpenOf(t, host[t])
  BY DEF ActiveOf, OpenOf, AtReturn, Sees
<1>3. HostMaps => HostMaps'
  BY <1>2 DEF HostMaps, SameState, VtdMaps
<1> QED
  BY <1>1, <1>3 DEF VtdHostInv, SameState

LEMMA StaysGuest ==
  ASSUME VtdGuestInv, SameState(vtd_bpf, vtd_bpf'), UNCHANGED guest
  PROVE  VtdGuestInv'
<1>1. GuestMaps => GuestMaps'
  BY DEF GuestMaps, SameState, VtdMaps
<1> QED
  BY <1>1 DEF VtdGuestInv, SameState

LEMMA LoadedVtd ==
  /\ ProperVtd(VtdLoaded) /\ VtdLoaded.lost = FALSE /\ VtdLoaded.out = <<>> /\ VtdLoaded.request_counter = 0
  /\ VtdLoaded.guest_control = [episode_counter |-> 0, once |-> {}, phase |-> "none", active |-> FALSE]
  /\ \A n \in VtdMaps : \A j : Here(VtdLoaded, n, j) = {}
<1> DEFINE g == Loaded(VtdMaps)
<1>1. VtdLoaded =
        [f \in {"request_counter", "guest_control"} \cup DOMAIN g |->
           CASE f = "request_counter" -> 0
             [] f = "guest_control" -> [episode_counter |-> 0, once |-> {}, phase |-> "none", active |-> FALSE]
             [] OTHER -> g[f]]
  BY DEF VtdLoaded
<1>2. /\ DOMAIN g = VtdMaps \cup {"out", "full", "lost"}
      /\ \A n \in VtdMaps : g[n] = Empty
      /\ g["out"] = <<>> /\ g["lost"] = FALSE
  BY DEF Loaded, VtdMaps
<1> HIDE DEF g
<1>3. DOMAIN VtdLoaded = VtdFields
  BY <1>1, <1>2 DEF VtdFields
<1>4. /\ VtdLoaded.request_counter = 0
      /\ VtdLoaded.guest_control = [episode_counter |-> 0, once |-> {}, phase |-> "none", active |-> FALSE]
  BY <1>1
<1>5. VtdLoaded.lost = FALSE /\ VtdLoaded.out = <<>> /\ \A n \in VtdMaps : VtdLoaded[n] = Empty
  BY <1>1, <1>2 DEF VtdMaps
<1>6. \A n \in VtdMaps : \A j : Here(VtdLoaded, n, j) = {}
  BY <1>5 DEF Here, Empty
<1> QED
  BY <1>3, <1>4, <1>5, <1>6 DEF ProperVtd

VtdInv ==
  /\ mode \in {"host", "guest"}
  /\ mode = "host" => VtdHostInv
  /\ mode = "guest" => VtdGuestInv
  /\ VtdTraceExact

LEMMA VtdStarts ==
  ASSUME VtdTraceInit
  PROVE  VtdInv
<1>1. /\ ProperVtd(vtd_bpf) /\ vtd_bpf.lost = FALSE /\ vtd_bpf.out = <<>> /\ vtd_bpf.request_counter = 0
      /\ vtd_bpf.guest_control = [episode_counter |-> 0, once |-> {}, phase |-> "none", active |-> FALSE]
      /\ \A n \in VtdMaps : \A j : Here(vtd_bpf, n, j) = {}
  BY LoadedVtd DEF VtdTraceInit
<1>2. VtdTraceExact
  BY <1>1 DEF VtdTraceExact, VtdTraceInit
<1>3. VtdHostInv
  <2>1. \A t \in HostThreads : host[t] = NoCall
    BY DEF VtdTraceInit
  <2>2. DOMAIN NoCall = CallFields
    BY DEF NoCall, CallFields
  <2>3. HostShape
    BY <2>1, <2>2 DEF HostShape, VtdTraceInit
  <2>4. \A t : ActiveOf(t, NoCall) = {} /\ OpenOf(t, NoCall) = {}
    BY DEF ActiveOf, Followed, is_tracked_ioctl, NoCall, None, OpenOf, AtReturn
  <2>5. requests.tracked = 0 /\ vtd_bpf.guest_control.phase = "none"
    BY <1>1 DEF VtdTraceInit
  <2>6. HostMaps
    BY <1>1, <2>1, <2>4, <2>5 DEF HostMaps, VtdMaps
  <2> QED
    BY <1>1, <2>3, <2>6 DEF VtdHostInv
<1>4. VtdGuestInv
  <2>1. /\ DOMAIN guest = GuestFields /\ guest.test = FALSE /\ guest.runs = 0 /\ guest.sampled = 0 /\ guest.maps = 0
        /\ guest.episodes = 0 /\ guest.mixed = FALSE
        /\ guest.irq = [cpu \in Cpus |-> NoIrq] /\ guest.dma = [t \in Tasks |-> <<>>]
    BY DEF VtdTraceInit, GuestFields
  <2>2. Numbered(guest)
    BY <2>1 DEF Numbered
  <2>3. GuestShape(guest)
    <3>1. DOMAIN guest.irq = Cpus /\ DOMAIN guest.dma = Tasks /\ \A cpu \in Cpus : guest.irq[cpu] = NoIrq
      BY <2>1
    <3>2. guest.sampled \in 0 .. guest.maps
      BY <2>1
    <3>4. guest.test \in BOOLEAN /\ guest.mixed \in BOOLEAN
      BY <2>1
    <3>3. guest.test => guest.runs > 0
      BY <2>1
    <3> HIDE DEF VtdTraceInit
    <3> QED
      BY <2>1, <2>2, <3>1, <3>2, <3>3, <3>4 DEF GuestShape
  <2> DEFINE gc == vtd_bpf.guest_control
  <2>4. DOMAIN gc = ControlFields /\ gc.active = FALSE /\ gc.phase = "none" /\ gc.episode_counter = 0 /\ gc.once = {}
    BY <1>1 DEF ControlFields
  <2>5. Phase(guest) = "none"
    BY <2>1 DEF Phase
  <2> HIDE DEF gc
  <2>6. Controls(gc, guest)
    <3>1. gc.active = guest.test /\ gc.phase = Phase(guest) /\ gc.episode_counter = guest.episodes
      BY <2>1, <2>4, <2>5
    <3>2. (0 \in gc.once <=> guest.runs > 0) /\ (2 \in gc.once <=> guest.sampled # 0)
      BY <2>1, <2>4
    <3>3. 1 \in gc.once <=> guest.runs > 1 \/ (guest.runs = 1 /\ guest.test = FALSE)
      BY <2>1, <2>4
    <3> QED
      BY <2>4, <3>1, <3>2, <3>3 DEF Controls
  <2>7. ASSUME NEW k \in Keys
        PROVE  Holds(guest, k) = {}
    <3>1. CASE k \in Tasks
      BY <2>1, <3>1 DEF Holds, TaskHolds, Stacked
    <3>2. CASE k \notin Tasks
      <4>1. PICK c \in Cpus, ix \in IrqNames : k = <<c, ix>>
        BY <3>2 DEF Keys, IrqKeys
      <4>2. guest.irq[k[1]].irq # "card"
        BY <2>1, <4>1 DEF NoIrq, None
      <4> QED
        BY <3>2, <4>2 DEF Holds, IrqHolds
    <3> QED
      BY <3>1, <3>2
  <2>8. GuestMaps
    BY <1>1, <2>6, <2>7 DEF GuestMaps, VtdMaps, gc
  <2> QED
    BY <1>1, <2>3, <2>8 DEF VtdGuestInv
<1> QED
  BY <1>2, <1>3, <1>4 DEF VtdInv, VtdTraceInit

LEMMA HostMode ==
  ASSUME HostStep
  PROVE  mode = "host" /\ mode' = mode
<1>1. PICK t \in HostThreads :
        \/ IoctlEnter(t) \/ IoctlExit(t) \/ MappingStep(t) \/ FlushStep(t) \/ DomainStep(t)
        \/ InterruptStep(t)
  BY DEF HostStep
<1>2. CASE IoctlEnter(t)
  BY <1>2 DEF IoctlEnter
<1>3. CASE IoctlExit(t)
  BY <1>3 DEF IoctlExit
<1>4. CASE \E f : Function(t, f)
  BY <1>4 DEF Function
<1>5. CASE MappingStep(t)
  BY <1>4, <1>5 DEF MappingStep
<1>6. CASE FlushStep(t)
  BY <1>4, <1>6 DEF FlushStep
<1>7. CASE DomainStep(t)
  BY <1>4, <1>7 DEF DomainStep
<1>8. CASE InterruptStep(t)
  BY <1>4, <1>8 DEF InterruptStep
<1> QED
  BY <1>1, <1>2, <1>3, <1>5, <1>6, <1>7, <1>8

LEMMA GuestMode ==
  ASSUME GuestKernel
  PROVE  mode = "guest" /\ mode' = mode
BY DEF GuestKernel, RunTest, DmaMapCall, DmaMapReturn, IrqHandlerEntry, IrqHandlerExit, GuestOnly

LEMMA VtdKeeps ==
  ASSUME VtdInv, [VtdTraceNext]_vtd_trace_vars
  PROVE  VtdInv'
<1>1. CASE HostStep
  <2>1. mode = "host" /\ mode' = mode
    BY <1>1, HostMode
  <2>2. VtdHostInv' /\ (~vtd_bpf'.lost => Exact')
    BY <1>1, <2>1, HostStepKeeps DEF VtdInv
  <2> QED
    BY <2>1, <2>2 DEF VtdInv, VtdTraceExact, Exact
<1>2. CASE GuestKernel
  <2>1. mode = "guest" /\ mode' = mode
    BY <1>2, GuestMode
  <2>2. VtdGuestInv' /\ (~vtd_bpf'.lost /\ Regular(guest') => Exact')
    BY <1>2, <2>1, GuestStepKeeps DEF VtdInv
  <2> QED
    BY <2>1, <2>2 DEF VtdInv, VtdTraceExact, Exact, Regular
<1>3. CASE VtdRing
  <2>1. ProperVtd(vtd_bpf)
    BY DEF VtdInv, VtdHostInv, VtdGuestInv
  <2>2. SameState(vtd_bpf, vtd_bpf') /\ vtd_bpf'.out = <<>> /\ told' = <<>>
    BY <1>3, <2>1, RingState
  <2>3. UNCHANGED <<mode, attached, host, requests, guest>>
    BY <1>3 DEF VtdRing
  <2>4. mode = "host" => VtdHostInv'
    BY <2>2, <2>3, StaysHost DEF VtdInv
  <2>5. mode = "guest" => VtdGuestInv'
    BY <2>2, <2>3, StaysGuest DEF VtdInv
  <2>6. VtdTraceExact'
    BY <2>2 DEF VtdTraceExact
  <2> QED
    BY <2>3, <2>4, <2>5, <2>6 DEF VtdInv
<1>4. CASE UNCHANGED vtd_trace_vars
  <2>1. UNCHANGED <<mode, attached, vtd_bpf, told, host, requests, guest>>
    BY <1>4 DEF vtd_trace_vars
  <2>2. ProperVtd(vtd_bpf)
    BY DEF VtdInv, VtdHostInv, VtdGuestInv
  <2>3. SameState(vtd_bpf, vtd_bpf')
    BY <2>1, <2>2 DEF SameState
  <2>4. mode = "host" => VtdHostInv'
    BY <2>1, <2>3, StaysHost DEF VtdInv
  <2>5. mode = "guest" => VtdGuestInv'
    BY <2>1, <2>3, StaysGuest DEF VtdInv
  <2>6. VtdTraceExact'
    BY <2>1 DEF VtdInv, VtdTraceExact
  <2> QED
    BY <2>1, <2>4, <2>5, <2>6 DEF VtdInv
<1> QED
  BY <1>1, <1>2, <1>3, <1>4 DEF VtdTraceNext

(* For any number of ioctls, tests, mappings and interrupts, any set of QEMU's threads, maps of
   any size and a ring that fills up at any moment: what the programs of the virt-vtd observer
   write is the complete and true trace as long as they counted no loss, on the host and in the
   guest (with its two exceptions: a mapping above the sampled one, and what follows the end of
   a second test). *)
THEOREM VtdTraceIsExact == VtdTraceSpec => []VtdTraceExact
<1>1. VtdTraceInit => VtdInv
  BY VtdStarts
<1>2. VtdInv /\ [VtdTraceNext]_vtd_trace_vars => VtdInv'
  BY VtdKeeps
<1>3. VtdInv => VtdTraceExact
  BY DEF VtdInv
<1> QED
  BY <1>1, <1>2, <1>3, PTL DEF VtdTraceSpec
=============================================================================
