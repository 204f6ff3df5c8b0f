---------------------------- MODULE MCSession ----------------------------
(***************************************************************************)
(* The run() functions of the experiments as sequences of steps.           *)
(***************************************************************************)
EXTENDS VtdSession

\* virt-ept/_run.py, virt-virtio/_run.py
KvmRun == <<"trace", "observer", "workload", "wait", "collect">>

\* memory/_run.py; virt-io/_run.py is the same without the swap
MemoryRun == <<"swapon", "trace", "observer", "workload", "wait", "collect">>

\* io/_run.py; the undo of the driver's timeout_ms goes with the module
IoRun == <<"qedu_trace", "trace", "qedu", "workload", "gate", "wait", "collect">>

\* virt-vtd/_run.py
VtdRun == <<"audit", "modprobe", "observer", "own", "bind", "vm", "boot", "vmstop",
            "restore", "collect">>

MCLeftovers == {{}, {"tracefs", "trace", "profile", "vfio-pci", "vfio_iommu_type1"},
                {"tracefs", "trace", "qedu_trace", "qedu"}}

MCWorkflows == {KvmRun, MemoryRun, IoRun, VtdRun}
MCCareless == {MemoryRun, VtdRun}

\* A second record or a signal, not both: neither is forced by fairness.
SignalOrRecords == signals = 0 \/ emitted <= 1
=============================================================================
