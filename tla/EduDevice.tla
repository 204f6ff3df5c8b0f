----------------------------- MODULE EduDevice -----------------------------
(***************************************************************************)
(* QEMU's EDU PCI function (1234:11e8) as experiments/io/qedu_*.c uses it: *)
(* one factorial engine, one DMA engine, an interrupt status register, and *)
(* the coherent buffer both sides can reach.  The device is not part of    *)
(* the repository; only the register behaviour the driver depends on is    *)
(* kept.  An engine that is busy ignores the registers that start it.      *)
(***************************************************************************)
EXTENDS EduData

VARIABLES fact_busy,     \* QEDU_STATUS_FACTORIAL_BUSY
          fact_irq,      \* QEDU_STATUS_FACTORIAL_IRQ_ENABLE
          fact_reg,      \* QEDU_REG_FACTORIAL: input while busy, then result
          dma_cmd,       \* direction of the running transfer, or "none"
          dma_irq,       \* QEDU_DMA_CMD_IRQ of the running transfer
          edu_buf,       \* QEDU_DMA_DEV_BUF, the buffer inside the device
          irq_status,    \* QEDU_REG_IRQ_STATUS
          buf            \* the coherent buffer, dma_cpu_addr / dma_addr

edu_vars == <<fact_busy, fact_irq, fact_reg, dma_cmd, dma_irq, edu_buf,
              irq_status, buf>>

IrqSources == {"FACTORIAL", "DMA"}

EduTypeOK ==
  /\ fact_busy \in BOOLEAN
  /\ fact_irq \in BOOLEAN
  /\ fact_reg \in Content
  /\ dma_cmd \in {"none", "to_device", "from_device"}
  /\ dma_irq \in BOOLEAN
  /\ edu_buf \in Content
  /\ irq_status \subseteq IrqSources
  /\ buf \in Content

EduInit ==
  /\ fact_busy = FALSE
  /\ fact_irq = FALSE
  /\ fact_reg = Zeroed
  /\ dma_cmd = "none"
  /\ dma_irq = FALSE
  /\ edu_buf = Zeroed
  /\ irq_status = {}
  /\ buf = Zeroed

(* A write of QEDU_REG_FACTORIAL; dropped while a computation runs. *)
WriteFactorial(v) ==
  /\ fact_busy' = TRUE
  /\ fact_reg' = IF fact_busy THEN fact_reg ELSE Input(v)

(* Writes of QEDU_REG_DMA_SRC/DST/CNT and the START command; all four are
   dropped while a transfer runs. *)
StartDma(dir, wants_irq) ==
  /\ dma_cmd' = IF dma_cmd = "none" THEN dir ELSE dma_cmd
  /\ dma_irq' = IF dma_cmd = "none" THEN wants_irq ELSE dma_irq

Raise(source, enabled) ==
  irq_status' = IF enabled THEN irq_status \cup {source} ELSE irq_status

(* The factorial engine stores the result, drops BUSY and interrupts. *)
FactorialEngine ==
  /\ fact_busy
  /\ fact_busy' = FALSE
  /\ fact_reg' = Fact(fact_reg.of)
  /\ Raise("FACTORIAL", fact_irq)
  /\ UNCHANGED <<fact_irq, dma_cmd, dma_irq, edu_buf, buf>>

(* The DMA engine moves the bytes, drops START and interrupts. *)
DmaEngine ==
  /\ dma_cmd # "none"
  /\ buf' = IF dma_cmd = "from_device" THEN edu_buf ELSE buf
  /\ edu_buf' = IF dma_cmd = "to_device" THEN buf ELSE edu_buf
  /\ dma_cmd' = "none"
  /\ Raise("DMA", dma_irq)
  /\ UNCHANGED <<fact_busy, fact_irq, fact_reg, dma_irq>>

EduIdle == ~fact_busy /\ dma_cmd = "none" /\ irq_status = {}
=============================================================================
