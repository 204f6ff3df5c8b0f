----------------------------- MODULE MCPrograms -----------------------------
(***************************************************************************)
(* Programs of the laboratory that never meet, in one state machine for    *)
(* TLC: program says which of them runs, the others stay as they were      *)
(* started.  The kapi module, the memory workload with its probe, the      *)
(* probes of the virt-vtd observer, the observer's gate, the virtqueue     *)
(* backend under a driver at work, and the virtio-mmio registers under a   *)
(* driver that writes them in any order.                                   *)
(***************************************************************************)
EXTENDS KapiModule, MmWorkload, VtdTrace, VtdGate, VirtioTransport

VARIABLE program

(* The threads of QEMU are alike to the observer. *)
Symmetry == Permutations(Qemu)

FixedGpas == [desc |-> 1, driver |-> 2, device |-> 3]

program_vars == <<program, module_vars, mm_vars, vtd_trace_vars, gate_vars, reg_vars>>

ProgramsInit ==
  /\ program \in {"kapi", "memory", "vtd", "gate", "queue", "registers"}
  /\ ModuleInit
  /\ MmInit /\ (program # "memory" => swap)
  /\ VtdTraceInit /\ (program # "vtd" => mode = "host" /\ attached = Optional)
  /\ GateInit
  /\ IF program # "queue" THEN TransportInit
     ELSE /\ QueueSpecInit
          /\ status = Operational /\ driver_features = <<0, VERSION_1_MASK>>
          /\ device_features_sel = VERSION_1_WORD /\ driver_features_sel = VERSION_1_WORD
          /\ interrupt_status = 0 /\ queue_sel = RNG_QUEUE
          /\ queue_addr = FixedAddr /\ alive = TRUE

KapiRuns      == program = "kapi" /\ ModuleNext
                 /\ UNCHANGED <<program, mm_vars, vtd_trace_vars, gate_vars, reg_vars>>
MemoryRuns    == program = "memory" /\ MmNext
                 /\ UNCHANGED <<program, module_vars, vtd_trace_vars, gate_vars, reg_vars>>
VtdRuns       == program = "vtd" /\ VtdTraceNext
                 /\ UNCHANGED <<program, module_vars, mm_vars, gate_vars, reg_vars>>
GateRuns      == program = "gate" /\ GateNext
                 /\ UNCHANGED <<program, module_vars, mm_vars, vtd_trace_vars, reg_vars>>
QueueRuns     == program = "queue" /\ QueueNext
                 /\ UNCHANGED <<program, module_vars, mm_vars, vtd_trace_vars, gate_vars,
                                dev_vars, alive>>
RegistersRun  == program = "registers" /\ TransportNext
                 /\ UNCHANGED <<program, module_vars, mm_vars, vtd_trace_vars, gate_vars>>

ProgramsNext == KapiRuns \/ MemoryRuns \/ VtdRuns \/ GateRuns \/ QueueRuns \/ RegistersRun
ProgramsSpec == ProgramsInit /\ [][ProgramsNext]_program_vars
=============================================================================
