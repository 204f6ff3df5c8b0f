------------------------------ MODULE VirtQueue ------------------------------
(***************************************************************************)
(* The split virtqueue of experiments/virt-virtio: the rings the guest and *)
(* the device share, the device's struct virtio_queue, and process_queue() *)
(* of rng_virtqueue.c.  The driver here is guest.S's request sequence      *)
(* (prepare, publish, ring, reap) with any batches, any free descriptor,   *)
(* and descriptors process_queue() must refuse.                            *)
(*                                                                         *)
(* process_queue() runs in one of two threads: the VMM's (QueueNotify as   *)
(* an MMIO exit) and the backend worker's (ioeventfd).  pq[p] is its local *)
(* state in thread p, pq[p].pc being the next statement group.             *)
(***************************************************************************)
EXTENDS Naturals, Sequences, SequencesExt

CONSTANTS QueueSizeMax,   \* VIRTQ_SIZE
          IdxMod,         \* 2^16: avail.idx, used.idx and last_avail_idx are uint16_t
          EntropyFails    \* getrandom() may return an error

ASSUME QueueAssumption ==
  /\ QueueSizeMax \in Nat \ {0}
  /\ IdxMod \in Nat
  /\ IdxMod > QueueSizeMax
  /\ IdxMod % QueueSizeMax = 0
  /\ EntropyFails \in BOOLEAN

Callers == {"vmm", "worker"}
Table   == 0 .. QueueSizeMax - 1
Kinds   == {"good", "bad_desc", "bad_head"}

VARIABLES
  desc,             \* desc[h]: does descriptor h describe its own entropy buffer
  avail_ring, avail_idx, used_ring, used_idx,
  filled,           \* the buffers that hold entropy the guest has not used
  queue_size, queue_ready, last_avail_idx,
  pq,
  staged, published, returned   \* who owns which request, in order (history)

\* What a register access leaves alone: everything but the configuration.
data_vars  == <<desc, avail_ring, avail_idx, used_ring, used_idx, filled, pq, staged,
                published, returned>>
queue_vars == <<desc, avail_ring, avail_idx, used_ring, used_idx, filled, queue_size,
                queue_ready, last_avail_idx, pq, staged, published, returned>>

Slot(idx)   == idx % QueueSizeMax
Pending(a, b) == (a + IdxMod - b) % IdxMod   \* (uint16_t)(a - b)

QueueInit ==
  /\ desc = [h \in Table |-> FALSE]
  /\ avail_ring = [s \in Table |-> 0]
  /\ used_ring = [s \in Table |-> 0]
  /\ avail_idx = 0 /\ used_idx = 0 /\ last_avail_idx = 0
  /\ filled = {}
  /\ pq = [p \in Callers |-> [pc |-> "idle", snap |-> 0, head |-> 0]]
  /\ staged = <<>> /\ published = <<>> /\ returned = <<>>

-----------------------------------------------------------------------------
(* The driver: guest.S *)

Owned == ToSet(staged) \cup ToSet(published) \cup ToSet(returned)

(* A descriptor and the ring slot that names it, while avail.idx stays. *)
Prepare(h, kind) ==
  /\ h \in Table \ Owned
  /\ desc' = [desc EXCEPT ![h] = (kind # "bad_desc")]
  /\ avail_ring' = [avail_ring EXCEPT ![Slot(avail_idx + Len(staged))] =
                       IF kind = "bad_head" THEN QueueSizeMax ELSE h]
  /\ filled' = filled \ {h}
  /\ staged' = Append(staged, h)
  /\ UNCHANGED <<avail_idx, used_ring, used_idx, queue_size, queue_ready, last_avail_idx,
                 pq, published, returned>>

(* mfence; avail.idx hands every staged request to the device at once. *)
Publish ==
  /\ staged # <<>>
  /\ avail_idx' = (avail_idx + Len(staged)) % IdxMod
  /\ published' = published \o staged
  /\ staged' = <<>>
  /\ UNCHANGED <<desc, avail_ring, used_ring, used_idx, filled, queue_size, queue_ready,
                 last_avail_idx, pq, returned>>

Reap ==
  /\ returned # <<>>
  /\ returned' = Tail(returned)
  /\ UNCHANGED <<desc, avail_ring, avail_idx, used_ring, used_idx, filled, queue_size,
                 queue_ready, last_avail_idx, pq, staged, published>>

-----------------------------------------------------------------------------
(* process_queue() *)

Goto(p, pc) == pq' = [pq EXCEPT ![p].pc = pc]

PqCall(p) ==
  /\ pq[p].pc = "idle"
  /\ Goto(p, "enter")
  /\ UNCHANGED <<desc, avail_ring, avail_idx, used_ring, used_idx, filled, queue_size,
                 queue_ready, last_avail_idx, staged, published, returned>>

(* Mutant: a full ring is taken for more than the queue can hold. *)
PqEnterTight(p) ==
  LET pending == Pending(avail_idx, last_avail_idx)
      usable  == queue_ready = 1 /\ queue_size = QueueSizeMax
  IN /\ pq[p].pc = "enter"
     /\ pq' = [pq EXCEPT ![p].snap = avail_idx,
                         ![p].pc = CASE ~usable -> "failed"
                                     [] usable /\ pending = 0 -> "done"
                                     [] usable /\ pending >= QueueSizeMax -> "failed"
                                     [] OTHER -> "fetch"]
     /\ UNCHANGED <<desc, avail_ring, avail_idx, used_ring, used_idx, filled, queue_size,
                    queue_ready, last_avail_idx, staged, published, returned>>

(* The snapshot of avail.idx decides how much this call consumes. *)
PqEnter(p) ==
  LET pending == Pending(avail_idx, last_avail_idx)
      usable  == queue_ready = 1 /\ queue_size = QueueSizeMax
  IN /\ pq[p].pc = "enter"
     /\ pq' = [pq EXCEPT ![p].snap = avail_idx,
                         ![p].pc = CASE ~usable -> "failed"
                                     [] usable /\ pending = 0 -> "done"
                                     [] usable /\ pending > QueueSizeMax -> "failed"
                                     [] OTHER -> "fetch"]
     /\ UNCHANGED <<desc, avail_ring, avail_idx, used_ring, used_idx, filled, queue_size,
                    queue_ready, last_avail_idx, staged, published, returned>>

(* Mutant: the descriptor is used without comparing it with the expected buffer. *)
PqFetchUnchecked(p) ==
  LET head == avail_ring[Slot(last_avail_idx)]
      ok   == head \in Table
  IN /\ pq[p].pc = "fetch"
     /\ \/ last_avail_idx = pq[p].snap /\ Goto(p, "done")
        \/ last_avail_idx # pq[p].snap /\ ok
           /\ pq' = [pq EXCEPT ![p].pc = "fill", ![p].head = head]
        \/ last_avail_idx # pq[p].snap /\ ~ok /\ Goto(p, "failed")
     /\ UNCHANGED <<desc, avail_ring, avail_idx, used_ring, used_idx, filled, queue_size,
                    queue_ready, last_avail_idx, staged, published, returned>>

(* The head named by the ring, validated, is copied into a local. *)
PqFetch(p) ==
  LET head == avail_ring[Slot(last_avail_idx)]
      ok   == head \in Table /\ desc[head]
  IN /\ pq[p].pc = "fetch"
     /\ \/ last_avail_idx = pq[p].snap /\ Goto(p, "done")
        \/ last_avail_idx # pq[p].snap /\ ok
           /\ pq' = [pq EXCEPT ![p].pc = "fill", ![p].head = head]
        \/ last_avail_idx # pq[p].snap /\ ~ok /\ Goto(p, "failed")
     /\ UNCHANGED <<desc, avail_ring, avail_idx, used_ring, used_idx, filled, queue_size,
                    queue_ready, last_avail_idx, staged, published, returned>>

(* getrandom() until the whole buffer is filled, or an error. *)
PqFill(p) ==
  /\ pq[p].pc = "fill"
  /\ \/ Goto(p, "used") /\ filled' = filled \cup {pq[p].head}
     \/ EntropyFails /\ Goto(p, "failed") /\ UNCHANGED filled
  /\ UNCHANGED <<desc, avail_ring, avail_idx, used_ring, used_idx, queue_size,
                 queue_ready, last_avail_idx, staged, published, returned>>

(* Mutant: the used element goes to the slot of the available ring's index. *)
PqUsedSameSlot(p) ==
  /\ pq[p].pc = "used"
  /\ used_ring' = [used_ring EXCEPT ![Slot(avail_idx)] = pq[p].head]
  /\ Goto(p, "publish")
  /\ UNCHANGED <<desc, avail_ring, avail_idx, used_idx, filled, queue_size, queue_ready,
                 last_avail_idx, staged, published, returned>>

PqUsed(p) ==
  /\ pq[p].pc = "used"
  /\ used_ring' = [used_ring EXCEPT ![Slot(used_idx)] = pq[p].head]
  /\ Goto(p, "publish")
  /\ UNCHANGED <<desc, avail_ring, avail_idx, used_idx, filled, queue_size, queue_ready,
                 last_avail_idx, staged, published, returned>>

(* used.idx gives the oldest published request back to the driver ... *)
PqPublish(p) ==
  /\ pq[p].pc = "publish"
  /\ used_idx' = (used_idx + 1) % IdxMod
  /\ returned' = Append(returned, Head(published))
  /\ published' = Tail(published)
  /\ Goto(p, "advance")
  /\ UNCHANGED <<desc, avail_ring, avail_idx, used_ring, filled, queue_size, queue_ready,
                 last_avail_idx, staged>>

(* ... before the device's own index follows. *)
PqAdvance(p) ==
  /\ pq[p].pc = "advance"
  /\ last_avail_idx' = (last_avail_idx + 1) % IdxMod
  /\ Goto(p, "fetch")
  /\ UNCHANGED <<desc, avail_ring, avail_idx, used_ring, used_idx, filled, queue_size,
                 queue_ready, staged, published, returned>>

PqReturn(p) ==
  /\ pq[p].pc \in {"done", "failed"}
  /\ Goto(p, "idle")
  /\ UNCHANGED <<desc, avail_ring, avail_idx, used_ring, used_idx, filled, queue_size,
                 queue_ready, last_avail_idx, staged, published, returned>>

PqStep(p) ==
  PqEnter(p) \/ PqFetch(p) \/ PqFill(p) \/ PqUsed(p) \/ PqPublish(p) \/ PqAdvance(p)

-----------------------------------------------------------------------------
(* The queue alone: a configured queue, a driver at work, and a thread that calls
   process_queue() again and again while the driver goes on.  A call that failed ends
   the thread.  Who calls it, and when, is VirtioRng's subject. *)

QueueSpecInit ==
  QueueInit /\ queue_size = QueueSizeMax /\ queue_ready = 1

QueueNext ==
  \/ \E h \in Table, kind \in Kinds : Prepare(h, kind)
  \/ Publish
  \/ Reap
  \/ PqCall("worker")
  \/ PqStep("worker")
  \/ pq["worker"].pc = "done" /\ PqReturn("worker")

QueueSpec == QueueSpecInit /\ [][QueueNext]_queue_vars

-----------------------------------------------------------------------------
(* Properties *)

Serving(p) == pq[p].pc \in {"fill", "used", "publish"}

(* process_queue() writes entropy and a used element only for the request that has been
   available longest, with the descriptor the driver named for it and completed before
   publishing it: also while the driver prepares and publishes further requests, and across
   the wrap of the indices.  It gives up only on a request it must refuse, or when the host
   has no entropy: a driver that obeys the protocol never meets the "more entries than the
   queue can hold" error. *)
ServesOldestRequest ==
  /\ \A p \in Callers : Serving(p) =>
       /\ published # <<>>
       /\ pq[p].head = Head(published)
       /\ desc[pq[p].head]
  /\ pq["worker"].pc = "failed" /\ ~EntropyFails =>
       /\ published # <<>>
       /\ \/ ~desc[Head(published)]
          \/ avail_ring[Slot(last_avail_idx)] = QueueSizeMax

(* What used.idx covers is what the driver believes: its requests, in the order it
   published them, each with a filled buffer; across the wrap of the 16-bit indices. *)
UsedRingExact ==
  \A n \in DOMAIN returned :
    /\ used_ring[Slot(Pending(used_idx, Len(returned)) + n - 1)] = returned[n]
    /\ returned[n] \in filled
=============================================================================
