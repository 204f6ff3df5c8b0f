---------------------------- MODULE VirtioProof ----------------------------
(***************************************************************************)
(* The virtqueue and the register file of experiments/virt-virtio, for     *)
(* every ring size, every index width that is a multiple of it and every   *)
(* queue address.                                                          *)
(***************************************************************************)
EXTENDS VirtioTransport, FiniteSetTheorems, SequenceTheorems, TLAPS

-----------------------------------------------------------------------------
(* Indices that wrap *)

LEMMA Division ==
  ASSUME NEW q \in Nat \ {0}, NEW x \in Nat
  PROVE  x = q * (x \div q) + (x % q) /\ x \div q \in Nat /\ x % q \in 0 .. q - 1
BY Z3

LEMMA DivisionUnique ==
  ASSUME NEW q \in Nat \ {0}, NEW k \in Nat, NEW r \in 0 .. q - 1
  PROVE  (q * k + r) % q = r
BY Z3

(* A uint16_t index that passed its last value at most once. *)
LEMMA Wrap ==
  ASSUME NEW x \in Nat, x < 2 * IdxMod
  PROVE  x % IdxMod = IF x < IdxMod THEN x ELSE x - IdxMod
BY QueueAssumption, Z3

(* An index that wrapped names the same slot: the ring's size divides the index's range. *)
LEMMA SlotWraps == ASSUME NEW x \in Nat PROVE Slot(x + IdxMod) = Slot(x)
<1> DEFINE q == QueueSizeMax
           k == x \div q
           m == IdxMod \div q
<1>1. x = q * k + Slot(x) /\ k \in Nat /\ Slot(x) \in 0 .. q - 1
  BY Division, QueueAssumption DEF Slot
<1>2. IdxMod = q * m /\ m \in Nat
  BY Division, QueueAssumption
<1>3. q \in Nat \ {0}
  BY QueueAssumption
<1> HIDE DEF q, k, m
<1>4. x + IdxMod = q * (k + m) + Slot(x)
  <2>1. q * (k + m) = q * k + q * m
    BY <1>1, <1>2, <1>3
  <2>2. QED
    BY <1>1, <1>2, <1>3, <2>1
<1>5. (q * (k + m) + Slot(x)) % q = Slot(x)
  <2>1. k + m \in Nat
    BY <1>1, <1>2
  <2>2. QED
    BY <1>1, <1>3, <2>1, DivisionUnique
<1>6. QED
  BY <1>4, <1>5 DEF Slot, q

LEMMA SlotType == ASSUME NEW x \in Nat PROVE Slot(x) \in Table
BY QueueAssumption DEF Slot, Table

(* Fewer than QueueSizeMax positions apart are different slots. *)
LEMMA SlotsDiffer ==
  ASSUME NEW x \in Nat, NEW y \in Nat, x < y, y < x + QueueSizeMax
  PROVE  Slot(x) # Slot(y)
<1> DEFINE q == QueueSizeMax
           a == x \div q
           b == y \div q
<1>1. /\ x = q * a + Slot(x) /\ y = q * b + Slot(y)
      /\ a \in Nat /\ b \in Nat /\ q \in Nat /\ q > 0
      /\ Slot(x) \in Nat /\ y < x + q
  BY Division, QueueAssumption DEF Slot
<1> HIDE DEF q, a, b
<1> SUFFICES ASSUME Slot(x) = Slot(y) PROVE FALSE
  OBVIOUS
<1>2. (q * b) - (q * a) = y - x
  BY <1>1
<1>3. CASE b <= a
  <2>1. q * b <= q * a
    BY <1>1, <1>3
  <2>2. QED
    BY <2>1, <1>1, <1>2
<1>4. CASE b >= a + 1
  <2>1. q * b >= q * (a + 1) /\ q * (a + 1) = (q * a) + q
    BY <1>1, <1>4
  <2>2. QED
    BY <2>1, <1>1, <1>2
<1>5. QED
  BY <1>1, <1>3, <1>4

Idx == 0 .. IdxMod - 1

(* (uint16_t)(a - b) is the distance from b on to a, and leads from b to a's slot. *)
LEMMA PendingDistance ==
  ASSUME NEW a \in Idx, NEW b \in Idx
  PROVE  /\ Pending(a, b) \in Idx
         /\ Pending(a, b) = IF a >= b THEN a - b ELSE a + IdxMod - b
         /\ \A n \in Nat : Slot(b + Pending(a, b) + n) = Slot(a + n)
<1>1. Pending(a, b) = IF a >= b THEN a - b ELSE a + IdxMod - b
  BY Wrap, QueueAssumption DEF Idx, Pending
<1>2. \A n \in Nat : b + Pending(a, b) + n \in {a + n, (a + n) + IdxMod}
  BY <1>1, QueueAssumption DEF Idx
<1>3. \A n \in Nat : Slot(b + Pending(a, b) + n) = Slot(a + n)
  BY <1>2, SlotWraps DEF Idx
<1>4. QED
  BY <1>1, <1>3, QueueAssumption DEF Idx

(* Moving an index on by n, through the wrap. *)
LEMMA Forward ==
  ASSUME NEW a \in Idx, NEW n \in 0 .. IdxMod
  PROVE  /\ (a + n) % IdxMod \in Idx
         /\ (a + n) % IdxMod = IF a + n < IdxMod THEN a + n ELSE a + n - IdxMod
         /\ \A j \in Nat : Slot(((a + n) % IdxMod) + j) = Slot(a + n + j)
<1>1. (a + n) % IdxMod = IF a + n < IdxMod THEN a + n ELSE a + n - IdxMod
  BY Wrap, QueueAssumption DEF Idx
<1>2. \A j \in Nat : LET x == ((a + n) % IdxMod) + j
                     IN x \in Nat /\ a + n + j \in {x, x + IdxMod}
  BY <1>1, QueueAssumption DEF Idx
<1>3. \A j \in Nat : Slot(((a + n) % IdxMod) + j) = Slot(a + n + j)
  BY <1>2, SlotWraps
<1>4. QED
  BY <1>1, <1>3, QueueAssumption DEF Idx

(* The leading index moves on by n without lapping the other. *)
LEMMA PendingGrows ==
  ASSUME NEW a \in Idx, NEW b \in Idx, NEW n \in Nat, Pending(a, b) + n < IdxMod
  PROVE  Pending((a + n) % IdxMod, b) = Pending(a, b) + n
<1>1. Pending(a, b) = IF a >= b THEN a - b ELSE a + IdxMod - b
  BY PendingDistance
<1>2. IdxMod \in Nat /\ a \in Nat /\ b \in Nat /\ a < IdxMod /\ b < IdxMod
  BY QueueAssumption DEF Idx
<1>3. n \in 0 .. IdxMod
  BY <1>1, <1>2
<1> DEFINE c == (a + n) % IdxMod
<1>4. c \in Idx /\ c = IF a + n < IdxMod THEN a + n ELSE a + n - IdxMod
  BY <1>3, Forward
<1> HIDE DEF c
<1>5. Pending(c, b) = IF c >= b THEN c - b ELSE c + IdxMod - b
  BY <1>4, PendingDistance
<1>6. Pending(c, b) = Pending(a, b) + n
  BY <1>1, <1>2, <1>4, <1>5
<1>7. QED
  BY <1>6 DEF c

(* The trailing index moves on by one. *)
LEMMA PendingShrinks ==
  ASSUME NEW a \in Idx, NEW b \in Idx, Pending(a, b) > 0
  PROVE  Pending(a, (b + 1) % IdxMod) = Pending(a, b) - 1
<1>1. Pending(a, b) = IF a >= b THEN a - b ELSE a + IdxMod - b
  BY PendingDistance
<1>2. IdxMod \in Nat /\ a \in Nat /\ b \in Nat /\ a < IdxMod /\ b < IdxMod
  BY QueueAssumption DEF Idx
<1>3. 1 \in 0 .. IdxMod
  BY <1>2
<1> DEFINE c == (b + 1) % IdxMod
<1>4. c \in Idx /\ c = IF b + 1 < IdxMod THEN b + 1 ELSE b + 1 - IdxMod
  BY <1>3, Forward
<1> HIDE DEF c
<1>5. Pending(a, c) = IF a >= c THEN a - c ELSE a + IdxMod - c
  BY <1>4, PendingDistance
<1>6. Pending(a, c) = Pending(a, b) - 1
  BY <1>1, <1>2, <1>4, <1>5
<1>7. QED
  BY <1>6 DEF c

(* used.idx and the number of unreaped elements grow together: the oldest stays in place. *)
LEMMA OldestStays ==
  ASSUME NEW u \in Idx, NEW r \in Nat, r + 1 < IdxMod
  PROVE  Pending((u + 1) % IdxMod, r + 1) = Pending(u, r)
<1>1. r \in Idx /\ r + 1 \in Idx /\ 1 \in 0 .. IdxMod
  BY QueueAssumption DEF Idx
<1>2. IdxMod \in Nat /\ u \in Nat /\ u < IdxMod
  BY QueueAssumption DEF Idx
<1>3. Pending(u, r) = IF u >= r THEN u - r ELSE u + IdxMod - r
  BY <1>1, PendingDistance
<1> DEFINE c == (u + 1) % IdxMod
<1>4. c \in Idx /\ c = IF u + 1 < IdxMod THEN u + 1 ELSE u + 1 - IdxMod
  BY <1>1, Forward
<1> HIDE DEF c
<1>5. Pending(c, r + 1) = IF c >= r + 1 THEN c - (r + 1) ELSE c + IdxMod - (r + 1)
  BY <1>1, <1>4, PendingDistance
<1>6. Pending(c, r + 1) = Pending(u, r)
  BY <1>2, <1>3, <1>4, <1>5
<1>7. QED
  BY <1>6 DEF c

(* One element reaped: the oldest is now where the second was. *)
LEMMA OldestMoves ==
  ASSUME NEW u \in Idx, NEW r \in Nat, 0 < r, r < IdxMod, NEW n \in Nat
  PROVE  Slot(Pending(u, r - 1) + n) = Slot(Pending(u, r) + (n + 1))
<1>1. r \in Idx /\ r - 1 \in Idx
  BY QueueAssumption DEF Idx
<1>2. IdxMod \in Nat /\ u \in Nat /\ u < IdxMod
  BY QueueAssumption DEF Idx
<1> DEFINE b == Pending(u, r)
           c == Pending(u, r - 1)
<1>3. b = IF u >= r THEN u - r ELSE u + IdxMod - r
  BY <1>1, PendingDistance
<1>4. c = IF u >= r - 1 THEN u - (r - 1) ELSE u + IdxMod - (r - 1)
  BY <1>1, PendingDistance
<1> HIDE DEF b, c
<1>5. c + n \in Nat /\ b + (n + 1) \in {c + n, (c + n) + IdxMod}
  BY <1>2, <1>3, <1>4
<1>6. Slot(c + n) = Slot(b + (n + 1))
  BY <1>5, SlotWraps
<1>7. QED
  BY <1>6 DEF b, c

(* From the oldest unreaped element, as many slots on as there are, is used.idx's slot. *)
LEMMA OldestToUsed ==
  ASSUME NEW u \in Idx, NEW r \in Idx
  PROVE  Pending(u, r) \in Nat /\ Slot(Pending(u, r) + r) = Slot(u)
<1> DEFINE b == Pending(u, r)
<1>1. b \in Idx /\ \A n \in Nat : Slot(r + b + n) = Slot(u + n)
  BY PendingDistance
<1> HIDE DEF b
<1>2. 0 \in Nat /\ b \in Nat /\ r + b + 0 = b + r /\ u + 0 = u
  BY <1>1, QueueAssumption DEF Idx
<1>3. Slot(r + b + 0) = Slot(u + 0)
  BY <1>1, <1>2
<1>4. QED
  BY <1>2, <1>3 DEF b

-----------------------------------------------------------------------------
(* Sequences of distinct descriptors *)

Distinct(s) == \A i, j \in 1 .. Len(s) : s[i] = s[j] => i = j

LEMMA Pigeonhole ==
  ASSUME NEW s \in Seq(Table), Distinct(s)
  PROVE  Len(s) <= QueueSizeMax
<1> SUFFICES ASSUME Len(s) > QueueSizeMax PROVE FALSE
  BY QueueAssumption
<1>1. IsFiniteSet(Table) /\ Cardinality(Table) = QueueSizeMax
  BY FS_Interval, QueueAssumption DEF Table
<1>2. IsFiniteSet(1 .. Len(s)) /\ Cardinality(1 .. Len(s)) = Len(s)
  <2>1. Len(s) \in Int /\ Len(s) > 0
    BY QueueAssumption
  <2>2. QED
    BY <2>1, FS_Interval
<1>3. s \in [1 .. Len(s) -> Table]
  OBVIOUS
<1>4. \E x, y \in 1 .. Len(s) : x # y /\ s[x] = s[y]
  BY <1>1, <1>2, <1>3, FS_PigeonHole
<1>5. QED
  BY <1>4 DEF Distinct

(* What a concatenation holds where. *)
LEMMA Concat ==
  ASSUME NEW S, NEW s \in Seq(S), NEW t \in Seq(S)
  PROVE  /\ s \o t \in Seq(S)
         /\ Len(s \o t) = Len(s) + Len(t)
         /\ \A i \in 1 .. Len(s) : (s \o t)[i] = s[i]
         /\ \A i \in 1 .. Len(t) : (s \o t)[Len(s) + i] = t[i]
BY ConcatProperties

LEMMA ConcatAppend ==
  ASSUME NEW S, NEW s \in Seq(S), NEW t \in Seq(S), NEW e \in S
  PROVE  s \o Append(t, e) = Append(s \o t, e)
<1>1. s \o Append(t, e) \in Seq(S) /\ Append(s \o t, e) \in Seq(S)
  OBVIOUS
<1>2. Len(s \o Append(t, e)) = Len(Append(s \o t, e))
  OBVIOUS
<1>3. \A i \in 1 .. Len(s \o Append(t, e)) : (s \o Append(t, e))[i] = Append(s \o t, e)[i]
  OBVIOUS
<1>4. QED
  BY <1>1, <1>2, <1>3, SeqEqual

LEMMA TailConcat ==
  ASSUME NEW S, NEW s \in Seq(S), NEW t \in Seq(S), s # <<>>
  PROVE  Tail(s) \o t = Tail(s \o t)
<1>1. Tail(s) \in Seq(S) /\ s \o t # <<>> /\ Len(s) > 0
  OBVIOUS
<1>2. Tail(s) \o t \in Seq(S) /\ Tail(s \o t) \in Seq(S)
  BY <1>1
<1>3. Len(Tail(s) \o t) = Len(Tail(s \o t))
  BY <1>1
<1>4. \A i \in 1 .. Len(Tail(s) \o t) : (Tail(s) \o t)[i] = Tail(s \o t)[i]
  BY <1>1
<1>5. QED
  BY <1>2, <1>3, <1>4, SeqEqual

LEMMA HandOver ==
  ASSUME NEW S, NEW r \in Seq(S), NEW s \in Seq(S), NEW t \in Seq(S), s # <<>>
  PROVE  Append(r, Head(s)) \o Tail(s \o t) = r \o (s \o t)
<1> DEFINE u == s \o t
           a == Append(r, Head(s))
<1>1. u \in Seq(S) /\ u # <<>> /\ Len(u) > 0 /\ u[1] = Head(s) /\ Head(s) \in S
  OBVIOUS
<1>2. a \in Seq(S) /\ Len(a) = Len(r) + 1 /\ a[Len(r) + 1] = u[1] /\ \A i \in 1 .. Len(r) : a[i] = r[i]
  BY <1>1
<1> HIDE DEF u, a
<1> DEFINE v == Tail(u)
<1>3. v \in Seq(S) /\ Len(v) = Len(u) - 1 /\ \A i \in 1 .. Len(v) : v[i] = u[i + 1]
  BY <1>1, HeadTailProperties
<1> HIDE DEF v
<1>4. Len(r) \in Nat /\ Len(u) \in Nat /\ Len(v) \in Nat /\ Len(a) + Len(v) = Len(r) + Len(u)
  BY <1>1, <1>2, <1>3
<1>5. /\ a \o v \in Seq(S) /\ Len(a \o v) = Len(a) + Len(v)
      /\ \A i \in 1 .. Len(a) + Len(v) :
            (a \o v)[i] = IF i <= Len(a) THEN a[i] ELSE v[i - Len(a)]
  BY <1>2, <1>3, ConcatProperties
<1>6. /\ r \o u \in Seq(S) /\ Len(r \o u) = Len(r) + Len(u)
      /\ \A i \in 1 .. Len(r) + Len(u) :
            (r \o u)[i] = IF i <= Len(r) THEN r[i] ELSE u[i - Len(r)]
  BY <1>1, ConcatProperties
<1>7. \A i \in 1 .. Len(r) + Len(u) : (a \o v)[i] = (r \o u)[i]
  <2> TAKE i \in 1 .. Len(r) + Len(u)
  <2>1. CASE i <= Len(r)
    BY <1>4, <1>2, <1>5, <1>6, <2>1
  <2>2. CASE i = Len(r) + 1
    BY <1>4, <1>1, <1>2, <1>5, <1>6, <2>2
  <2>3. CASE i > Len(r) + 1
    <3>1. i - Len(a) \in 1 .. Len(v) /\ (i - Len(a)) + 1 = i - Len(r)
      BY <1>4, <1>2, <2>3
    <3>2. v[i - Len(a)] = u[i - Len(r)]
      BY <1>3, <3>1
    <3>3. (a \o v)[i] = v[i - Len(a)] /\ (r \o u)[i] = u[i - Len(r)]
      BY <1>4, <1>2, <1>5, <1>6, <2>3
    <3>4. QED
      BY <3>2, <3>3
  <2>4. QED
    BY <1>4, <2>1, <2>2, <2>3
<1>8. a \o v = r \o u
  BY <1>4, <1>5, <1>6, <1>7, SeqEqual
<1>9. QED
  BY <1>8 DEF u, a, v

-----------------------------------------------------------------------------
(* The queue's inductive invariant *)

Controls == {"idle", "enter", "fetch", "fill", "used", "publish", "advance", "done", "failed"}

\* What the device has still to serve, and every request in the driver's order.
Outstanding == published \o staged
Requests    == returned \o Outstanding

Worker  == pq["worker"]
ToServe == Pending(Worker.snap, last_avail_idx)

QueueTypes ==
  /\ desc \in [Table -> BOOLEAN]
  /\ avail_ring \in [Table -> 0 .. QueueSizeMax]
  /\ used_ring \in [Table -> Table]
  /\ avail_idx \in Idx /\ used_idx \in Idx /\ last_avail_idx \in Idx
  /\ staged \in Seq(Table) /\ published \in Seq(Table) /\ returned \in Seq(Table)
  /\ pq \in [Callers -> [pc : Controls, snap : Idx, head : Table]]
  /\ queue_size = QueueSizeMax /\ queue_ready = 1
  /\ pq["vmm"].pc = "idle"

\* used.idx trails avail.idx by the published requests; last_avail_idx trails used.idx
\* between the two stores that end a request.
Indices ==
  /\ Pending(avail_idx, used_idx) = Len(published)
  /\ used_idx = IF Worker.pc = "advance" THEN (last_avail_idx + 1) % IdxMod ELSE last_avail_idx

\* The slots from used.idx on name the outstanding requests, or a head outside the table.
AvailNames ==
  \A k \in 1 .. Len(Outstanding) :
    avail_ring[Slot(used_idx + (k - 1))] \in {Outstanding[k], QueueSizeMax}

\* A call serves no more than what was published when it took its snapshot.
Window ==
  /\ Worker.pc = "fetch" => ToServe <= Len(published)
  /\ Worker.pc \in {"fill", "used", "publish"} => ToServe \in 1 .. Len(published)
  /\ Worker.pc = "advance" => ToServe \in 1 .. Len(published) + 1

Serves ==
  /\ Serving("worker") => Worker.head = Head(published) /\ desc[Worker.head]
  /\ Worker.pc \in {"used", "publish"} => Worker.head \in filled
  /\ Worker.pc = "publish" => used_ring[Slot(used_idx)] = Worker.head

GivesUp ==
  Worker.pc = "failed" /\ ~EntropyFails =>
    /\ published # <<>>
    /\ ~desc[Head(published)] \/ avail_ring[Slot(last_avail_idx)] = QueueSizeMax

QueueInv ==
  /\ QueueTypes
  /\ Distinct(Requests)
  /\ Indices
  /\ AvailNames
  /\ UsedRingExact
  /\ Window
  /\ Serves
  /\ GivesUp

LEMMA QueueInitially == QueueSpecInit => QueueInv
<1> SUFFICES ASSUME QueueSpecInit PROVE QueueInv
  OBVIOUS
<1> USE QueueAssumption DEF QueueSpecInit, QueueInit
<1>1. QueueTypes
  BY DEF QueueTypes, Table, Idx, Callers, Controls
<1>2. Outstanding = <<>> /\ Requests = <<>>
  BY DEF Outstanding, Requests
<1>3. Worker.pc = "idle"
  BY DEF Worker, Callers
<1>4. Distinct(Requests) /\ AvailNames /\ UsedRingExact
  BY <1>2 DEF Distinct, AvailNames, UsedRingExact
<1>5. Indices
  BY <1>3, PendingDistance DEF Indices, Idx
<1>6. Window /\ Serves /\ GivesUp
  BY <1>3 DEF Window, Serves, GivesUp, Serving, Worker
<1>7. QED
  BY <1>1, <1>4, <1>5, <1>6 DEF QueueInv

(* Every request is somewhere in the driver's order once, so the table bounds them all. *)
LEMMA Room ==
  ASSUME QueueTypes, Distinct(Requests)
  PROVE  /\ Outstanding \in Seq(Table) /\ Requests \in Seq(Table)
         /\ Len(returned) \in Nat /\ Len(published) \in Nat /\ Len(staged) \in Nat
         /\ Len(Outstanding) = Len(published) + Len(staged)
         /\ Len(Requests) = Len(returned) + Len(published) + Len(staged)
         /\ Len(Requests) <= QueueSizeMax
         /\ \A k \in 1 .. Len(published) : Outstanding[k] = published[k]
         /\ \A k \in 1 .. Len(staged) : Outstanding[Len(published) + k] = staged[k]
         /\ \A n \in 1 .. Len(returned) : Requests[n] = returned[n]
         /\ \A k \in 1 .. Len(Outstanding) : Requests[Len(returned) + k] = Outstanding[k]
<1>1. returned \in Seq(Table) /\ published \in Seq(Table) /\ staged \in Seq(Table)
  BY DEF QueueTypes
<1>2. /\ Outstanding \in Seq(Table)
      /\ Len(Outstanding) = Len(published) + Len(staged)
      /\ \A k \in 1 .. Len(published) : Outstanding[k] = published[k]
      /\ \A k \in 1 .. Len(staged) : Outstanding[Len(published) + k] = staged[k]
  BY <1>1, Concat DEF Outstanding
<1>3. /\ Requests \in Seq(Table)
      /\ Len(Requests) = Len(returned) + Len(Outstanding)
      /\ \A n \in 1 .. Len(returned) : Requests[n] = returned[n]
      /\ \A k \in 1 .. Len(Outstanding) : Requests[Len(returned) + k] = Outstanding[k]
  <2> DEFINE r == returned
             o == Outstanding
  <2>1. Requests = r \o o
    BY DEF Requests
  <2>2. r \in Seq(Table) /\ o \in Seq(Table)
    BY <1>1, <1>2
  <2> HIDE DEF r, o
  <2>3. /\ r \o o \in Seq(Table) /\ Len(r \o o) = Len(r) + Len(o)
        /\ \A n \in 1 .. Len(r) : (r \o o)[n] = r[n]
        /\ \A k \in 1 .. Len(o) : (r \o o)[Len(r) + k] = o[k]
    BY <2>2, Concat
  <2>4. QED
    BY <2>1, <2>3, Zenon DEF r, o
<1>4. Len(Requests) <= QueueSizeMax
  BY <1>3, Pigeonhole
<1>5. Len(returned) \in Nat /\ Len(published) \in Nat /\ Len(staged) \in Nat
  BY <1>1
<1>6. QED
  BY <1>2, <1>3, <1>4, <1>5

(* The descriptors the driver may still use are those of no request. *)
LEMMA Unowned ==
  ASSUME QueueTypes, Distinct(Requests), NEW h \in Table \ Owned
  PROVE  /\ \A n \in 1 .. Len(returned) : returned[n] # h
         /\ \A k \in 1 .. Len(published) : published[k] # h
         /\ \A k \in 1 .. Len(Outstanding) : Outstanding[k] # h
         /\ \A i \in 1 .. Len(Requests) : Requests[i] # h
<1>1. returned \in Seq(Table) /\ published \in Seq(Table) /\ staged \in Seq(Table)
  BY DEF QueueTypes
<1>2. \A n \in 1 .. Len(returned) : returned[n] # h
  BY <1>1 DEF Owned, ToSet
<1>3. \A k \in 1 .. Len(published) : published[k] # h
  BY <1>1 DEF Owned, ToSet
<1>4. \A k \in 1 .. Len(staged) : staged[k] # h
  BY <1>1 DEF Owned, ToSet
<1>5. \A k \in 1 .. Len(Outstanding) : Outstanding[k] # h
  <2> TAKE k \in 1 .. Len(Outstanding)
  <2>1. CASE k <= Len(published)
    BY <1>3, <2>1, Room
  <2>2. CASE k > Len(published)
    <3>1. k - Len(published) \in 1 .. Len(staged) /\ k = Len(published) + (k - Len(published))
      BY <2>2, Room
    <3>2. QED
      BY <1>4, <3>1, Room
  <2>3. QED
    BY <2>1, <2>2, Room
<1>6. \A i \in 1 .. Len(Requests) : Requests[i] # h
  <2> TAKE i \in 1 .. Len(Requests)
  <2>1. CASE i <= Len(returned)
    BY <1>2, <2>1, Room
  <2>2. CASE i > Len(returned)
    <3>1. i - Len(returned) \in 1 .. Len(Outstanding) /\ i = Len(returned) + (i - Len(returned))
      BY <2>2, Room
    <3>2. QED
      BY <1>5, <3>1, Room
  <2>3. QED
    BY <2>1, <2>2, Room
<1>7. QED
  BY <1>2, <1>3, <1>5, <1>6

LEMMA PrepareKeeps ==
  ASSUME QueueInv, NEW h \in Table, NEW kind \in Kinds, Prepare(h, kind)
  PROVE  QueueInv'
<1> USE DEF QueueInv
<1> DEFINE s == Slot(avail_idx + Len(staged))
           v == IF kind = "bad_head" THEN QueueSizeMax ELSE h
<1>1. /\ h \in Table \ Owned
      /\ desc' = [desc EXCEPT ![h] = (kind # "bad_desc")]
      /\ avail_ring' = [avail_ring EXCEPT ![s] = v]
      /\ filled' = filled \ {h}
      /\ staged' = Append(staged, h)
      /\ UNCHANGED <<avail_idx, used_ring, used_idx, queue_size, queue_ready, last_avail_idx,
                     pq, published, returned>>
  BY DEF Prepare
<1>2. /\ avail_idx \in Nat /\ used_idx \in Nat /\ avail_idx \in Idx /\ used_idx \in Idx
      /\ Len(returned) \in Nat /\ Len(published) \in Nat /\ Len(staged) \in Nat
      /\ Len(Outstanding) = Len(published) + Len(staged)
  BY Room DEF QueueTypes, Idx
<1>3. s \in Table /\ v \in 0 .. QueueSizeMax
  <2>1. s \in Table
    BY <1>2, SlotType
  <2>2. QED
    BY <2>1, QueueAssumption DEF Table
<1>4. QueueTypes'
  <2>1. desc' \in [Table -> BOOLEAN]
    BY <1>1, Zenon DEF QueueTypes
  <2>2. avail_ring' \in [Table -> 0 .. QueueSizeMax] /\ staged' \in Seq(Table)
    BY <1>1, <1>3 DEF QueueTypes
  <2>3. QED
    BY <1>1, <2>1, <2>2 DEF QueueTypes
<1>5. Outstanding' = Append(Outstanding, h) /\ Requests' = Append(Requests, h)
  <2>1. Outstanding' = Append(Outstanding, h)
    BY <1>1, ConcatAppend DEF Outstanding, QueueTypes
  <2>2. returned \in Seq(Table) /\ Outstanding \in Seq(Table)
    BY Room DEF QueueTypes
  <2>3. QED
    BY <1>1, <2>1, <2>2, ConcatAppend DEF Requests
<1>6. Distinct(Requests')
  <2>1. /\ Len(Requests') = Len(Requests) + 1 /\ Requests'[Len(Requests) + 1] = h
        /\ \A i \in 1 .. Len(Requests) : Requests'[i] = Requests[i]
    BY <1>5, Room, AppendProperties
  <2>2. \A i \in 1 .. Len(Requests) : Requests[i] # h
    BY <1>1, Unowned
  <2>3. QED
    BY <2>1, <2>2, Room DEF Distinct
<1>7. Len(returned) + Len(published) + Len(staged) + 1 <= QueueSizeMax
  <2>1. Requests' \in Seq(Table) /\ Len(Requests') = Len(Requests) + 1
    BY <1>5, Room, AppendProperties
  <2>2. QED
    BY <1>6, <2>1, Pigeonhole, Room
<1>8. s = Slot(used_idx + (Len(published) + Len(staged)))
  <2>1. Slot(used_idx + Pending(avail_idx, used_idx) + Len(staged)) = s
    BY <1>2, PendingDistance
  <2>2. used_idx + Pending(avail_idx, used_idx) + Len(staged)
          = used_idx + (Len(published) + Len(staged))
    BY <1>2 DEF Indices
  <2>3. QED
    BY <2>1, <2>2
<1>9. \A k \in 1 .. Len(Outstanding) : Slot(used_idx + (k - 1)) # s
  <2> TAKE k \in 1 .. Len(Outstanding)
  <2>1. /\ used_idx + (k - 1) \in Nat /\ used_idx + (Len(published) + Len(staged)) \in Nat
        /\ used_idx + (k - 1) < used_idx + (Len(published) + Len(staged))
        /\ used_idx + (Len(published) + Len(staged)) < used_idx + (k - 1) + QueueSizeMax
    BY <1>2, <1>7, QueueAssumption
  <2>2. QED
    BY <1>8, <2>1, SlotsDiffer
<1>10. \A k \in 1 .. Len(Outstanding) :
        avail_ring'[Slot(used_idx + (k - 1))] = avail_ring[Slot(used_idx + (k - 1))]
  <2> TAKE k \in 1 .. Len(Outstanding)
  <2>1. Slot(used_idx + (k - 1)) \in Table
    BY SlotType, Room DEF QueueTypes, Idx
  <2>2. QED
    BY <1>1, <1>9, <2>1 DEF QueueTypes
<1>11. Indices'
  BY <1>1 DEF Indices, Worker
<1>12. AvailNames'
  <2>1. /\ Len(Outstanding') = Len(Outstanding) + 1 /\ Outstanding'[Len(Outstanding) + 1] = h
        /\ \A k \in 1 .. Len(Outstanding) : Outstanding'[k] = Outstanding[k]
    BY <1>5, Room, AppendProperties
  <2>2. avail_ring'[s] \in {h, QueueSizeMax}
    BY <1>1, <1>3 DEF QueueTypes
  <2>3. \A k \in 1 .. Len(Outstanding) :
          avail_ring'[Slot(used_idx + (k - 1))] \in {Outstanding'[k], QueueSizeMax}
    BY <1>10, <2>1 DEF AvailNames
  <2>4. s = Slot(used_idx + ((Len(Outstanding) + 1) - 1))
    <3>1. (Len(Outstanding) + 1) - 1 = Len(published) + Len(staged)
      BY <1>2
    <3>2. QED
      BY <1>8, <3>1
  <2>5. QED
    <3> SUFFICES ASSUME NEW k \in 1 .. Len(Outstanding')
                 PROVE  avail_ring'[Slot(used_idx + (k - 1))] \in {Outstanding'[k], QueueSizeMax}
      BY <1>1 DEF AvailNames
    <3>1. CASE k = Len(Outstanding) + 1
      BY <2>1, <2>2, <2>4, <3>1
    <3>2. CASE k \in 1 .. Len(Outstanding)
      BY <2>3, <3>2
    <3>3. QED
      BY <2>1, <3>1, <3>2, Room
<1>13. UsedRingExact'
  BY <1>1, Unowned DEF UsedRingExact, QueueTypes
<1>14. Window'
  BY <1>1 DEF Window, Worker, ToServe
<1>15. published # <<>> => Head(published) # h /\ Head(published) \in Table
  <2>1. published # <<>> => 1 \in 1 .. Len(published) /\ Head(published) = published[1]
    BY DEF QueueTypes
  <2>2. QED
    BY <1>1, <2>1, Unowned DEF QueueTypes
<1>16. Serves'
  <2>1. Serving("worker") => published # <<>>
    BY Room DEF Window, Serving, Worker
  <2>2. QED
    BY <1>1, <1>15, <2>1 DEF Serves, Serving, Worker, QueueTypes
<1>17. GivesUp'
  <2> SUFFICES ASSUME Worker.pc = "failed", ~EntropyFails PROVE GivesUp'
    BY <1>1 DEF GivesUp, Worker
  <2>1. published # <<>> /\ last_avail_idx = used_idx
    BY DEF GivesUp, Indices
  <2>2. 1 \in 1 .. Len(Outstanding) /\ used_idx + (1 - 1) = used_idx
    BY <2>1, Room DEF QueueTypes, Idx
  <2>3. avail_ring'[Slot(last_avail_idx)] = avail_ring[Slot(last_avail_idx)]
    BY <1>10, <2>1, <2>2
  <2>4. QED
    BY <1>1, <1>15, <2>1, <2>3 DEF GivesUp, QueueTypes
<1>18. QED
  BY <1>4, <1>6, <1>11, <1>12, <1>13, <1>14, <1>16, <1>17

(* The numbers every step starts from. *)
LEMMA Numbers ==
  ASSUME QueueInv
  PROVE  /\ avail_idx \in Idx /\ used_idx \in Idx /\ last_avail_idx \in Idx
         /\ \A i \in Idx : i \in Nat /\ i < IdxMod
         /\ \A i \in 0 .. QueueSizeMax : i \in Idx
         /\ Len(returned) \in Nat /\ Len(published) \in Nat /\ Len(staged) \in Nat
         /\ Len(returned) + Len(published) + Len(staged) <= QueueSizeMax
         /\ QueueSizeMax \in Nat /\ IdxMod \in Nat /\ QueueSizeMax < IdxMod
<1>1. QueueTypes /\ Distinct(Requests)
  BY DEF QueueInv
<1>2. /\ Len(returned) \in Nat /\ Len(published) \in Nat /\ Len(staged) \in Nat
      /\ Len(returned) + Len(published) + Len(staged) <= QueueSizeMax
  BY <1>1, Room
<1>3. avail_idx \in Idx /\ used_idx \in Idx /\ last_avail_idx \in Idx
  BY <1>1 DEF QueueTypes
<1>4. /\ QueueSizeMax \in Nat /\ IdxMod \in Nat /\ QueueSizeMax < IdxMod
      /\ \A i \in Idx : i \in Nat /\ i < IdxMod
      /\ \A i \in 0 .. QueueSizeMax : i \in Idx
  BY QueueAssumption DEF Idx
<1>5. QED
  BY <1>2, <1>3, <1>4

LEMMA PublishKeeps == ASSUME QueueInv, Publish PROVE QueueInv'
<1> USE DEF QueueInv
<1>1. /\ staged # <<>>
      /\ avail_idx' = (avail_idx + Len(staged)) % IdxMod
      /\ published' = Outstanding
      /\ staged' = <<>>
      /\ UNCHANGED <<desc, avail_ring, used_ring, used_idx, filled, queue_size, queue_ready,
                     last_avail_idx, pq, returned>>
  BY DEF Publish, Outstanding
<1>2. avail_idx' \in Idx
      /\ avail_idx' = IF avail_idx + Len(staged) < IdxMod
                      THEN avail_idx + Len(staged) ELSE avail_idx + Len(staged) - IdxMod
  <2>1. Len(staged) \in 0 .. IdxMod
    BY Numbers
  <2>2. QED
    BY <1>1, <2>1, Numbers, Forward
<1>3. QueueTypes'
  <2>1. published' \in Seq(Table) /\ staged' \in Seq(Table)
    BY <1>1, Room
  <2>2. QED
    BY <1>1, <1>2, <2>1 DEF QueueTypes
<1>4. Outstanding' = Outstanding /\ Requests' = Requests
  BY <1>1, Room, ConcatEmptySeq DEF Outstanding, Requests
<1>5. Len(published') = Len(published) + Len(staged)
  BY <1>1, Room
<1>6. Pending(avail_idx', used_idx) = Len(published')
  <2>1. Pending(avail_idx, used_idx) = Len(published)
    BY DEF Indices
  <2>2. Pending(avail_idx, used_idx) + Len(staged) < IdxMod
    BY <2>1, Numbers
  <2>3. Pending((avail_idx + Len(staged)) % IdxMod, used_idx)
          = Pending(avail_idx, used_idx) + Len(staged)
    BY <2>2, PendingGrows, Numbers
  <2>4. QED
    BY <1>1, <1>5, <2>1, <2>3
<1>7. Indices'
  BY <1>1, <1>6 DEF Indices, Worker
<1>8. Distinct(Requests') /\ AvailNames'
  BY <1>1, <1>4 DEF AvailNames, Distinct
<1>9. UsedRingExact'
  BY <1>1 DEF UsedRingExact
<1>10. Window'
  <2>1. ToServe' = ToServe /\ ToServe \in Nat /\ Worker' = Worker
    BY <1>1, PendingDistance, Numbers DEF ToServe, Worker, QueueTypes, Callers
  <2>2. QED
    BY <1>5, <2>1, Numbers DEF Window
<1>11. published # <<>> => published' # <<>> /\ Head(published') = Head(published)
  BY <1>1, Room DEF QueueTypes
<1>12. Serves' /\ GivesUp'
  <2>1. Serving("worker") => published # <<>>
    BY Numbers DEF Window, Serving, Worker
  <2>2. QED
    BY <1>1, <1>11, <2>1 DEF Serves, GivesUp, Serving, Worker
<1>13. QED
  BY <1>3, <1>7, <1>8, <1>9, <1>10, <1>12

LEMMA ReapKeeps == ASSUME QueueInv, Reap PROVE QueueInv'
<1> USE DEF QueueInv
<1>1. /\ returned # <<>>
      /\ returned' = Tail(returned)
      /\ UNCHANGED <<desc, avail_ring, avail_idx, used_ring, used_idx, filled, queue_size,
                     queue_ready, last_avail_idx, pq, staged, published>>
  BY DEF Reap
<1>2. /\ returned' \in Seq(Table) /\ Len(returned') = Len(returned) - 1
      /\ \A n \in 1 .. Len(returned') : returned'[n] = returned[n + 1]
  BY <1>1, HeadTailProperties DEF QueueTypes
<1>3. QueueTypes' /\ Indices' /\ Serves' /\ GivesUp' /\ Window'
  BY <1>1, <1>2 DEF QueueTypes, Indices, Serves, GivesUp, Window, Serving, Worker, ToServe
<1>4. Outstanding' = Outstanding /\ AvailNames'
  BY <1>1 DEF Outstanding, AvailNames
<1>5. Distinct(Requests')
  <2>1. Requests' = Tail(Requests)
    BY <1>1, <1>4, Room, TailConcat DEF Requests, QueueTypes
  <2>2. Requests # <<>>
    BY <1>1, Room DEF QueueTypes
  <2>3. /\ Len(Requests') = Len(Requests) - 1
        /\ \A i \in 1 .. Len(Requests') : Requests'[i] = Requests[i + 1]
    BY <2>1, <2>2, Room, HeadTailProperties
  <2>4. QED
    BY <2>3, Room DEF Distinct
<1>6. UsedRingExact'
  <2> SUFFICES ASSUME NEW n \in 1 .. Len(returned')
               PROVE  /\ used_ring[Slot(Pending(used_idx, Len(returned')) + n - 1)] = returned'[n]
                      /\ returned'[n] \in filled
    BY <1>1, <1>2 DEF UsedRingExact
  <2>1. n \in Nat /\ n - 1 \in Nat /\ n + 1 \in 1 .. Len(returned) /\ Len(returned) > 0
    BY <1>2, Numbers
  <2>2. returned'[n] = returned[n + 1] /\ n + 1 \in DOMAIN returned
    <3>1. DOMAIN returned = 1 .. Len(returned)
      BY LenProperties DEF QueueTypes
    <3>2. QED
      BY <1>2, <2>1, <3>1
  <2>3. /\ used_ring[Slot(Pending(used_idx, Len(returned)) + (n + 1) - 1)] = returned[n + 1]
        /\ returned[n + 1] \in filled
    BY <2>2 DEF UsedRingExact
  <2> DEFINE b == Pending(used_idx, Len(returned))
             c == Pending(used_idx, Len(returned) - 1)
  <2>4. Slot(c + (n - 1)) = Slot(b + ((n - 1) + 1)) /\ b \in Nat /\ c \in Nat
    <3>1. Len(returned) \in Idx /\ Len(returned) - 1 \in Idx /\ Len(returned) < IdxMod
      BY <2>1, Numbers DEF Idx
    <3>2. b \in Idx /\ c \in Idx
      BY <3>1, Numbers, PendingDistance
    <3>3. QED
      BY <2>1, <3>1, <3>2, Numbers, OldestMoves
  <2> HIDE DEF b, c
  <2>5. c + (n - 1) = c + n - 1 /\ b + ((n - 1) + 1) = b + (n + 1) - 1
    BY <2>1, <2>4
  <2>6. used_ring[Slot(c + n - 1)] = returned'[n]
    BY <2>2, <2>3, <2>4, <2>5 DEF b
  <2>7. QED
    BY <1>2, <2>2, <2>3, <2>6 DEF c
<1>7. QED
  BY <1>3, <1>4, <1>5, <1>6

-----------------------------------------------------------------------------
(* process_queue() keeps the invariant *)

\* What a step of process_queue() does to the thread's locals.
LEMMA WorkerSteps ==
  ASSUME QueueTypes, NEW pc \in Controls, pq' = [pq EXCEPT !["worker"].pc = pc]
  PROVE  /\ Worker'.pc = pc /\ Worker'.snap = Worker.snap /\ Worker'.head = Worker.head
         /\ pq' \in [Callers -> [pc : Controls, snap : Idx, head : Table]]
         /\ pq'["vmm"] = pq["vmm"]
BY DEF QueueTypes, Worker, Callers

LEMMA CallKeeps == ASSUME QueueInv, PqCall("worker") PROVE QueueInv'
<1> USE DEF QueueInv
<1>1. /\ Worker.pc = "idle" /\ Worker'.pc = "enter"
      /\ UNCHANGED <<desc, avail_ring, avail_idx, used_ring, used_idx, filled, queue_size,
                     queue_ready, last_avail_idx, staged, published, returned>>
      /\ pq' \in [Callers -> [pc : Controls, snap : Idx, head : Table]]
      /\ pq'["vmm"] = pq["vmm"]
  <2>1. pq' = [pq EXCEPT !["worker"].pc = "enter"] /\ "enter" \in Controls
    BY DEF PqCall, Goto, Controls
  <2>2. QED
    BY <2>1, WorkerSteps DEF PqCall, Worker
<1>2. QueueTypes'
  BY <1>1 DEF QueueTypes
<1>3. Distinct(Requests') /\ AvailNames' /\ UsedRingExact'
  BY <1>1 DEF Requests, Outstanding, AvailNames, UsedRingExact
<1>4. Indices' /\ Window' /\ Serves' /\ GivesUp'
  BY <1>1 DEF Indices, Window, Serves, GivesUp, Serving, Worker
<1>5. QED
  BY <1>2, <1>3, <1>4

LEMMA ReturnKeeps ==
  ASSUME QueueInv, pq["worker"].pc = "done", PqReturn("worker") PROVE QueueInv'
<1> USE DEF QueueInv
<1>1. /\ Worker.pc = "done" /\ Worker'.pc = "idle"
      /\ UNCHANGED <<desc, avail_ring, avail_idx, used_ring, used_idx, filled, queue_size,
                     queue_ready, last_avail_idx, staged, published, returned>>
      /\ pq' \in [Callers -> [pc : Controls, snap : Idx, head : Table]]
      /\ pq'["vmm"] = pq["vmm"]
  <2>1. pq' = [pq EXCEPT !["worker"].pc = "idle"] /\ "idle" \in Controls
    BY DEF PqReturn, Goto, Controls
  <2>2. QED
    BY <2>1, WorkerSteps DEF PqReturn, Worker
<1>2. QueueTypes'
  BY <1>1 DEF QueueTypes
<1>3. Distinct(Requests') /\ AvailNames' /\ UsedRingExact'
  BY <1>1 DEF Requests, Outstanding, AvailNames, UsedRingExact
<1>4. Indices' /\ Window' /\ Serves' /\ GivesUp'
  BY <1>1 DEF Indices, Window, Serves, GivesUp, Serving, Worker
<1>5. QED
  BY <1>2, <1>3, <1>4

(* The table bounds what is published: the "more entries than the queue can hold" error is
   out of reach, and the snapshot covers exactly the published requests. *)
LEMMA EnterKeeps == ASSUME QueueInv, PqEnter("worker") PROVE QueueInv'
<1> USE DEF QueueInv
<1>1. /\ Worker.pc = "enter"
      /\ UNCHANGED <<desc, avail_ring, avail_idx, used_ring, used_idx, filled, queue_size,
                     queue_ready, last_avail_idx, staged, published, returned>>
  BY DEF PqEnter, Worker
<1>2. Pending(avail_idx, last_avail_idx) = Len(published) /\ Len(published) <= QueueSizeMax
  BY <1>1, Numbers DEF Indices
<1>3. /\ Worker'.pc = IF Len(published) = 0 THEN "done" ELSE "fetch"
      /\ Worker'.snap = avail_idx
      /\ pq' \in [Callers -> [pc : Controls, snap : Idx, head : Table]]
      /\ pq'["vmm"] = pq["vmm"]
  <2> DEFINE pc == IF Len(published) = 0 THEN "done" ELSE "fetch"
  <2>1. pq' = [pq EXCEPT !["worker"].snap = avail_idx, !["worker"].pc = pc]
    <3>1. queue_ready = 1 /\ queue_size = QueueSizeMax /\ ~(Len(published) > QueueSizeMax)
      BY <1>2, Numbers DEF QueueTypes
    <3>2. CASE Len(published) = 0
      BY <1>2, <3>1, <3>2 DEF PqEnter
    <3>3. CASE Len(published) # 0
      BY <1>2, <3>1, <3>3 DEF PqEnter
    <3>4. QED
      BY <3>2, <3>3
  <2>2. pc \in Controls
    BY DEF Controls
  <2> HIDE DEF pc
  <2>3. QED
    BY <2>1, <2>2 DEF QueueTypes, Worker, Callers, pc
<1>4. QueueTypes'
  BY <1>1, <1>3 DEF QueueTypes
<1>5. Distinct(Requests') /\ AvailNames' /\ UsedRingExact'
  BY <1>1 DEF Requests, Outstanding, AvailNames, UsedRingExact
<1>6. Window'
  BY <1>1, <1>2, <1>3, Numbers DEF Window, ToServe
<1>7. Indices' /\ Serves' /\ GivesUp'
  BY <1>1, <1>3 DEF Indices, Serves, GivesUp, Serving, Worker
<1>8. QED
  BY <1>4, <1>5, <1>6, <1>7

(* The head at last_avail_idx is the oldest published request's, or one to refuse. *)
LEMMA FetchKeeps == ASSUME QueueInv, PqFetch("worker") PROVE QueueInv'
<1> USE DEF QueueInv
<1> DEFINE head == avail_ring[Slot(last_avail_idx)]
           ok   == head \in Table /\ desc[head]
<1>1. /\ Worker.pc = "fetch"
      /\ UNCHANGED <<desc, avail_ring, avail_idx, used_ring, used_idx, filled, queue_size,
                     queue_ready, last_avail_idx, staged, published, returned>>
  BY DEF PqFetch, Worker
<1>2. last_avail_idx = used_idx
  BY <1>1 DEF Indices
<1>3. Worker.snap \in Idx /\ ToServe \in Nat
  BY PendingDistance, Numbers DEF QueueTypes, Worker, Callers, ToServe
<1>4. last_avail_idx # Worker.snap =>
        /\ ToServe \in 1 .. Len(published) /\ published # <<>>
        /\ head \in {Head(published), QueueSizeMax}
  <2> SUFFICES ASSUME last_avail_idx # Worker.snap
               PROVE  /\ ToServe \in 1 .. Len(published) /\ published # <<>>
                      /\ head \in {Head(published), QueueSizeMax}
    OBVIOUS
  <2>1. ToServe # 0
    <3>1. ToServe = IF Worker.snap >= last_avail_idx THEN Worker.snap - last_avail_idx
                    ELSE Worker.snap + IdxMod - last_avail_idx
      BY <1>3, PendingDistance, Numbers DEF ToServe
    <3>2. Worker.snap \in Nat /\ last_avail_idx \in Nat /\ last_avail_idx < IdxMod /\ IdxMod \in Nat
      BY <1>3, Numbers
    <3>3. QED
      BY <3>1, <3>2
  <2>2. ToServe \in 1 .. Len(published) /\ published # <<>>
    BY <1>1, <1>3, <2>1, Numbers DEF Window
  <2>3. 1 \in 1 .. Len(published) /\ 1 \in 1 .. Len(Outstanding) /\ Outstanding[1] = Head(published)
    <3>1. Head(published) = published[1]
      BY <2>2 DEF QueueTypes
    <3>2. 1 \in 1 .. Len(published)
      BY <2>2, Numbers
    <3>3. 1 \in 1 .. Len(Outstanding) /\ Outstanding[1] = published[1]
      BY <3>2, Room
    <3>4. QED
      BY <3>1, <3>2, <3>3
  <2>4. used_idx + (1 - 1) = used_idx
    BY Numbers
  <2>5. QED
    BY <1>2, <2>2, <2>3, <2>4 DEF AvailNames
<1>5. Distinct(Requests') /\ AvailNames' /\ UsedRingExact'
  BY <1>1 DEF Requests, Outstanding, AvailNames, UsedRingExact
<1>6. CASE last_avail_idx = pq["worker"].snap /\ Goto("worker", "done")
  <2>1. Worker'.pc = "done" /\ pq' \in [Callers -> [pc : Controls, snap : Idx, head : Table]]
        /\ pq'["vmm"] = pq["vmm"]
    BY <1>6, WorkerSteps DEF Goto, Controls
  <2>2. QueueTypes' /\ Indices' /\ Window' /\ Serves' /\ GivesUp'
    BY <1>1, <1>2, <2>1 DEF QueueTypes, Indices, Window, Serves, GivesUp, Serving, Worker
  <2>3. QED
    BY <1>5, <2>2
<1>7. CASE /\ last_avail_idx # pq["worker"].snap /\ ok
           /\ pq' = [pq EXCEPT !["worker"].pc = "fill", !["worker"].head = head]
  <2>1. head = Head(published) /\ desc[head] /\ ToServe \in 1 .. Len(published)
    BY <1>4, <1>7, QueueAssumption DEF Worker, Table
  <2>2. /\ Worker'.pc = "fill" /\ Worker'.head = head /\ Worker'.snap = Worker.snap
        /\ pq' \in [Callers -> [pc : Controls, snap : Idx, head : Table]]
        /\ pq'["vmm"] = pq["vmm"]
    BY <1>7 DEF QueueTypes, Worker, Callers, Controls
  <2>3. QueueTypes' /\ Indices'
    BY <1>1, <1>2, <2>2 DEF QueueTypes, Indices
  <2>4. Window'
    BY <1>1, <2>1, <2>2 DEF Window, ToServe
  <2>5. Serves' /\ GivesUp'
    BY <1>1, <2>1, <2>2 DEF Serves, GivesUp, Serving, Worker
  <2>6. QED
    BY <1>5, <2>3, <2>4, <2>5
<1>8. CASE last_avail_idx # pq["worker"].snap /\ ~ok /\ Goto("worker", "failed")
  <2>1. Worker'.pc = "failed" /\ pq' \in [Callers -> [pc : Controls, snap : Idx, head : Table]]
        /\ pq'["vmm"] = pq["vmm"]
    BY <1>8, WorkerSteps DEF Goto, Controls
  <2>2. published # <<>> /\ (~desc[Head(published)] \/ head = QueueSizeMax)
    <3>1. published # <<>> /\ head \in {Head(published), QueueSizeMax}
      BY <1>4, <1>8 DEF Worker
    <3>2. Head(published) \in Table
      BY <3>1, HeadTailProperties DEF QueueTypes
    <3>3. QED
      BY <1>8, <3>1, <3>2
  <2>3. QueueTypes' /\ Indices' /\ Window' /\ Serves' /\ GivesUp'
    BY <1>1, <1>2, <2>1, <2>2 DEF QueueTypes, Indices, Window, Serves, GivesUp, Serving, Worker
  <2>4. QED
    BY <1>5, <2>3
<1>9. QED
  BY <1>6, <1>7, <1>8 DEF PqFetch

LEMMA FillKeeps == ASSUME QueueInv, PqFill("worker") PROVE QueueInv'
<1> USE DEF QueueInv
<1>1. /\ Worker.pc = "fill"
      /\ UNCHANGED <<desc, avail_ring, avail_idx, used_ring, used_idx, queue_size,
                     queue_ready, last_avail_idx, staged, published, returned>>
      /\ filled \subseteq filled'
  BY DEF PqFill, Worker
<1>2. last_avail_idx = used_idx
  BY <1>1 DEF Indices
<1>3. Distinct(Requests') /\ AvailNames' /\ UsedRingExact'
  BY <1>1 DEF Requests, Outstanding, AvailNames, UsedRingExact
<1>4. CASE Goto("worker", "used") /\ filled' = filled \cup {pq["worker"].head}
  <2>1. /\ Worker'.pc = "used" /\ Worker'.snap = Worker.snap /\ Worker'.head = Worker.head
        /\ pq' \in [Callers -> [pc : Controls, snap : Idx, head : Table]]
        /\ pq'["vmm"] = pq["vmm"]
    BY <1>4, WorkerSteps DEF Goto, Controls
  <2>2. QueueTypes' /\ Indices' /\ GivesUp'
    BY <1>1, <1>2, <2>1 DEF QueueTypes, Indices, GivesUp, Worker
  <2>3. Window'
    BY <1>1, <2>1 DEF Window, ToServe
  <2>4. Serves'
    BY <1>1, <1>4, <2>1 DEF Serves, Serving, Worker
  <2>5. QED
    BY <1>3, <2>2, <2>3, <2>4
<1>5. CASE EntropyFails /\ Goto("worker", "failed")
  <2>1. /\ Worker'.pc = "failed"
        /\ pq' \in [Callers -> [pc : Controls, snap : Idx, head : Table]]
        /\ pq'["vmm"] = pq["vmm"]
    BY <1>5, WorkerSteps DEF Goto, Controls
  <2>2. QueueTypes' /\ Indices' /\ Window' /\ Serves' /\ GivesUp'
    BY <1>1, <1>2, <1>5, <2>1
    DEF QueueTypes, Indices, Window, Serves, GivesUp, Serving, Worker
  <2>3. QED
    BY <1>3, <2>2
<1>6. QED
  BY <1>4, <1>5 DEF PqFill

(* The slot at used.idx holds none of the elements the driver has not reaped. *)
LEMMA UsedKeeps == ASSUME QueueInv, PqUsed("worker") PROVE QueueInv'
<1> USE DEF QueueInv
<1>1. /\ Worker.pc = "used"
      /\ used_ring' = [used_ring EXCEPT ![Slot(used_idx)] = Worker.head]
      /\ UNCHANGED <<desc, avail_ring, avail_idx, used_idx, filled, queue_size, queue_ready,
                     last_avail_idx, staged, published, returned>>
  BY DEF PqUsed, Worker
<1>2. /\ Worker'.pc = "publish" /\ Worker'.snap = Worker.snap /\ Worker'.head = Worker.head
      /\ pq' \in [Callers -> [pc : Controls, snap : Idx, head : Table]]
      /\ pq'["vmm"] = pq["vmm"]
  BY WorkerSteps DEF PqUsed, Goto, Controls
<1>3. last_avail_idx = used_idx
  BY <1>1 DEF Indices
<1>4. Slot(used_idx) \in Table /\ Worker.head \in Table
  BY SlotType, Numbers DEF QueueTypes, Worker, Callers
<1>5. QueueTypes' /\ Indices' /\ GivesUp'
  BY <1>1, <1>2, <1>3, <1>4 DEF QueueTypes, Indices, GivesUp, Worker
<1>6. Distinct(Requests') /\ AvailNames'
  BY <1>1 DEF Requests, Outstanding, AvailNames
<1>7. Window'
  BY <1>1, <1>2 DEF Window, ToServe
<1>8. Serves'
  BY <1>1, <1>2, <1>4 DEF Serves, Serving, Worker, QueueTypes
<1>9. UsedRingExact'
  <2> DEFINE b == Pending(used_idx, Len(returned))
  <2>1. Len(returned) < QueueSizeMax
    BY <1>1, Numbers DEF Window
  <2>2. b \in Nat /\ Slot(b + Len(returned)) = Slot(used_idx)
    <3>1. Len(returned) \in Idx
      BY Numbers, QueueAssumption DEF Idx
    <3>2. QED
      BY <3>1, Numbers, OldestToUsed
  <2> HIDE DEF b
  <2>3. \A n \in 1 .. Len(returned) :
          Slot(b + n - 1) \in Table /\ Slot(b + n - 1) # Slot(used_idx)
    <3> TAKE n \in 1 .. Len(returned)
    <3>1. /\ b + n - 1 \in Nat /\ b + Len(returned) \in Nat
          /\ b + n - 1 < b + Len(returned) /\ b + Len(returned) < b + n - 1 + QueueSizeMax
      BY <2>1, <2>2, Numbers
    <3>2. QED
      BY <2>2, <3>1, SlotType, SlotsDiffer
  <2>4. DOMAIN returned = 1 .. Len(returned)
    BY LenProperties DEF QueueTypes
  <2>5. QED
    BY <1>1, <2>3, <2>4 DEF UsedRingExact, QueueTypes, b
<1>10. QED
  BY <1>5, <1>6, <1>7, <1>8, <1>9

LEMMA PublishUsedKeeps == ASSUME QueueInv, PqPublish("worker") PROVE QueueInv'
<1> USE DEF QueueInv
<1>1. /\ Worker.pc = "publish"
      /\ used_idx' = (used_idx + 1) % IdxMod
      /\ returned' = Append(returned, Head(published))
      /\ published' = Tail(published)
      /\ UNCHANGED <<desc, avail_ring, avail_idx, used_ring, filled, queue_size, queue_ready,
                     last_avail_idx, staged>>
  BY DEF PqPublish, Worker
<1>2. /\ Worker'.pc = "advance" /\ Worker'.snap = Worker.snap
      /\ pq' \in [Callers -> [pc : Controls, snap : Idx, head : Table]]
      /\ pq'["vmm"] = pq["vmm"]
  BY WorkerSteps DEF PqPublish, Goto, Controls
<1>3. last_avail_idx = used_idx /\ ToServe \in 1 .. Len(published)
  BY <1>1 DEF Indices, Window
<1>4. published # <<>> /\ Len(published) >= 1
  BY <1>3, Numbers
<1>5. /\ Head(published) \in Table /\ Tail(published) \in Seq(Table)
      /\ Len(published') = Len(published) - 1
      /\ Head(published) = Worker.head /\ Head(published) \in filled
      /\ used_ring[Slot(used_idx)] = Head(published)
  BY <1>1, <1>4, HeadTailProperties DEF QueueTypes, Serves, Serving, Worker
<1>6. /\ returned' \in Seq(Table) /\ Len(returned') = Len(returned) + 1
      /\ \A n \in 1 .. Len(returned) : returned'[n] = returned[n]
      /\ returned'[Len(returned) + 1] = Head(published)
  BY <1>1, <1>5, AppendProperties DEF QueueTypes
<1>7. 1 \in 0 .. IdxMod
  BY Numbers
<1>8. used_idx' \in Idx /\ \A j \in Nat : Slot(used_idx' + j) = Slot(used_idx + 1 + j)
  BY <1>1, <1>7, Numbers, Forward
<1>9. QueueTypes'
  BY <1>1, <1>2, <1>5, <1>6, <1>8 DEF QueueTypes
<1>10. Indices'
  <2>1. Pending(avail_idx, used_idx') = Pending(avail_idx, used_idx) - 1
    <3>1. Pending(avail_idx, used_idx) > 0
      BY <1>4, Numbers DEF Indices
    <3>2. QED
      BY <1>1, <3>1, Numbers, PendingShrinks
  <2>2. QED
    BY <1>1, <1>2, <1>3, <1>5, <2>1 DEF Indices
<1>11. Outstanding' = Tail(Outstanding) /\ Requests' = Requests /\ Outstanding # <<>>
  <2>1. Outstanding' = Tail(Outstanding)
    BY <1>1, <1>4, TailConcat DEF Outstanding, QueueTypes
  <2>2. Append(returned, Head(published)) \o Tail(Outstanding) = Requests
    <3>1. returned \in Seq(Table) /\ published \in Seq(Table) /\ staged \in Seq(Table)
      BY DEF QueueTypes
    <3>2. Append(returned, Head(published)) \o Tail(published \o staged)
            = returned \o (published \o staged)
      BY <1>4, <3>1, HandOver
    <3>3. QED
      BY <3>2 DEF Outstanding, Requests
  <2>3. Requests' = returned' \o Outstanding'
    BY DEF Requests
  <2>4. Len(Outstanding) > 0
    BY <1>4, Room
  <2>5. Outstanding # <<>>
    BY <2>4
  <2>6. QED
    BY <1>1, <2>1, <2>2, <2>3, <2>5
<1>12. AvailNames'
  <2>1. /\ Len(Outstanding') = Len(Outstanding) - 1 /\ Len(Outstanding) \in Nat
        /\ \A k \in 1 .. Len(Outstanding') : Outstanding'[k] = Outstanding[k + 1]
    BY <1>11, Room, HeadTailProperties
  <2> SUFFICES ASSUME NEW k \in 1 .. Len(Outstanding')
               PROVE  avail_ring[Slot(used_idx' + (k - 1))] \in {Outstanding'[k], QueueSizeMax}
    BY <1>1 DEF AvailNames
  <2>2. k - 1 \in Nat /\ k + 1 \in 1 .. Len(Outstanding)
    BY <2>1
  <2>3. Slot(used_idx' + (k - 1)) = Slot(used_idx + 1 + (k - 1))
    BY <1>8, <2>2
  <2>4. used_idx + 1 + (k - 1) = used_idx + ((k + 1) - 1)
    BY <2>2, Numbers
  <2>5. avail_ring[Slot(used_idx + ((k + 1) - 1))] \in {Outstanding[k + 1], QueueSizeMax}
    BY <2>2 DEF AvailNames
  <2>6. QED
    BY <2>1, <2>3, <2>4, <2>5
<1>13. UsedRingExact'
  <2> DEFINE b == Pending(used_idx, Len(returned))
  <2>1. Pending(used_idx', Len(returned')) = b
    <3>1. Len(returned) + 1 < IdxMod
      BY <1>4, Numbers
    <3>2. QED
      BY <1>1, <1>6, <3>1, Numbers, OldestStays
  <2>2. b \in Nat /\ Slot(b + Len(returned)) = Slot(used_idx)
    <3>1. Len(returned) \in Idx
      BY Numbers, QueueAssumption DEF Idx
    <3>2. QED
      BY <3>1, Numbers, OldestToUsed
  <2>3. DOMAIN returned = 1 .. Len(returned) /\ DOMAIN returned' = 1 .. Len(returned) + 1
    BY <1>6, LenProperties DEF QueueTypes
  <2>4. \A n \in 1 .. Len(returned) :
          used_ring[Slot(b + n - 1)] = returned[n] /\ returned[n] \in filled
    BY <2>3 DEF UsedRingExact
  <2> HIDE DEF b
  <2>5. ASSUME NEW n \in 1 .. Len(returned) + 1
        PROVE  used_ring[Slot(b + n - 1)] = returned'[n] /\ returned'[n] \in filled
    <3>1. CASE n \in 1 .. Len(returned)
      BY <1>6, <2>4, <3>1
    <3>2. CASE n = Len(returned) + 1
      <4>1. b + n - 1 = b + Len(returned)
        BY <2>2, <3>2, Numbers
      <4>2. QED
        BY <1>5, <1>6, <2>2, <3>2, <4>1
    <3>3. QED
      BY <3>1, <3>2, Numbers
  <2>6. QED
    BY <1>1, <2>1, <2>3, <2>5 DEF UsedRingExact
<1>14. Window'
  BY <1>1, <1>2, <1>3, <1>5, Numbers DEF Window, ToServe
<1>15. Serves' /\ GivesUp'
  BY <1>2 DEF Serves, GivesUp, Serving, Worker
<1>16. QED
  BY <1>9, <1>10, <1>11, <1>12, <1>13, <1>14, <1>15

LEMMA AdvanceKeeps == ASSUME QueueInv, PqAdvance("worker") PROVE QueueInv'
<1> USE DEF QueueInv
<1>1. /\ Worker.pc = "advance"
      /\ last_avail_idx' = (last_avail_idx + 1) % IdxMod
      /\ UNCHANGED <<desc, avail_ring, avail_idx, used_ring, used_idx, filled, queue_size,
                     queue_ready, staged, published, returned>>
  BY DEF PqAdvance, Worker
<1>2. /\ Worker'.pc = "fetch" /\ Worker'.snap = Worker.snap
      /\ pq' \in [Callers -> [pc : Controls, snap : Idx, head : Table]]
      /\ pq'["vmm"] = pq["vmm"]
  BY WorkerSteps DEF PqAdvance, Goto, Controls
<1>3. last_avail_idx' = used_idx
  BY <1>1 DEF Indices
<1>4. QueueTypes' /\ Indices'
  BY <1>1, <1>2, <1>3 DEF QueueTypes, Indices
<1>5. Distinct(Requests') /\ AvailNames' /\ UsedRingExact'
  BY <1>1 DEF Requests, Outstanding, AvailNames, UsedRingExact
<1>6. Window'
  <2>1. ToServe \in 1 .. Len(published) + 1 /\ Worker.snap \in Idx
    BY <1>1 DEF Window, QueueTypes, Worker, Callers
  <2>2. Pending(Worker.snap, (last_avail_idx + 1) % IdxMod) = ToServe - 1
    BY <2>1, Numbers, PendingShrinks DEF ToServe
  <2>3. ToServe' = ToServe - 1
    BY <1>1, <1>2, <2>2 DEF ToServe
  <2>4. QED
    BY <1>1, <1>2, <2>1, <2>3, Numbers DEF Window
<1>7. Serves' /\ GivesUp'
  BY <1>2 DEF Serves, GivesUp, Serving, Worker
<1>8. QED
  BY <1>4, <1>5, <1>6, <1>7

(* Every step of the driver and of process_queue() keeps the invariant. *)
LEMMA QueueInductive == QueueInv /\ [QueueNext]_queue_vars => QueueInv'
<1> SUFFICES ASSUME QueueInv, [QueueNext]_queue_vars PROVE QueueInv'
  OBVIOUS
<1>1. CASE \E h \in Table, kind \in Kinds : Prepare(h, kind)
  BY <1>1, PrepareKeeps
<1>2. CASE Publish
  BY <1>2, PublishKeeps
<1>3. CASE Reap
  BY <1>3, ReapKeeps
<1>4. CASE PqCall("worker")
  BY <1>4, CallKeeps
<1>5. CASE PqStep("worker")
  BY <1>5, EnterKeeps, FetchKeeps, FillKeeps, UsedKeeps, PublishUsedKeeps, AdvanceKeeps DEF PqStep
<1>6. CASE pq["worker"].pc = "done" /\ PqReturn("worker")
  BY <1>6, ReturnKeeps
<1>7. CASE UNCHANGED queue_vars
  BY <1>7 DEF queue_vars, QueueInv, QueueTypes, Requests, Outstanding, Indices, AvailNames,
     UsedRingExact, Window, Serves, GivesUp, Worker, ToServe, Serving
<1>8. QED
  BY <1>1, <1>2, <1>3, <1>4, <1>5, <1>6, <1>7 DEF QueueNext

LEMMA ServesFromInv == QueueInv => ServesOldestRequest
<1> SUFFICES ASSUME QueueInv PROVE ServesOldestRequest
  OBVIOUS
<1>1. Serving("worker") => published # <<>>
  BY Numbers DEF Serving, QueueInv, Window, Worker
<1>2. ~Serving("vmm")
  BY DEF Serving, QueueInv, QueueTypes
<1>3. QED
  BY <1>1, <1>2 DEF ServesOldestRequest, QueueInv, Serves, GivesUp, Worker, Callers

(* process_queue() serves the request that has been available longest, with the descriptor
   the driver completed for it, and gives up only on one it must refuse: for every ring size,
   for every index width, however far the driver runs ahead. *)
THEOREM OldestRequestServed == QueueSpec => []ServesOldestRequest
<1>1. QueueSpecInit => QueueInv
  BY QueueInitially
<1>2. QueueInv /\ [QueueNext]_queue_vars => QueueInv'
  BY QueueInductive
<1>3. QueueInv => ServesOldestRequest
  BY ServesFromInv
<1>4. QED
  BY <1>1, <1>2, <1>3, PTL DEF QueueSpec

(* What used.idx covers is the driver's requests in its own order, each with a filled
   buffer, across the wrap of the indices and for every ring size. *)
THEOREM UsedRingIsExact == QueueSpec => []UsedRingExact
<1>1. QueueSpecInit => QueueInv
  BY QueueInitially
<1>2. QueueInv /\ [QueueNext]_queue_vars => QueueInv'
  BY QueueInductive
<1>3. QueueInv => UsedRingExact
  BY DEF QueueInv
<1>4. QED
  BY <1>1, <1>2, <1>3, PTL DEF QueueSpec

-----------------------------------------------------------------------------
(* The register file.  Each register write keeps what the doorbell relies on: the feature
   words are frozen by FEATURES_OK, the layout by queue_ready, and no write falls between a
   doorbell and the end of its process_queue() call. *)

Notify == pq["vmm"]

TransportInv ==
  /\ pq \in [Callers -> [pc : Controls, snap : Idx, head : Table]]
  /\ Notify.pc \in {"idle", "enter", "done"}
  /\ avail_idx = 0 /\ last_avail_idx = 0
  /\ "FEATURES_OK" \in status => Negotiated
  /\ queue_ready = 1 => FixedQueue
  /\ Notify.pc # "idle" => status = Operational /\ queue_ready = 1

LEMMA TransportInitially == TransportInit => TransportInv
<1> SUFFICES ASSUME TransportInit PROVE TransportInv
  OBVIOUS
<1>1. pq \in [Callers -> [pc : Controls, snap : Idx, head : Table]] /\ Notify.pc = "idle"
  BY QueueAssumption DEF TransportInit, QueueInit, Callers, Controls, Idx, Table, Notify
<1>2. QED
  BY <1>1 DEF TransportInit, QueueInit, TransportInv

(* The writes that touch none of what the doorbell relies on, or only the selectors. *)
LEMMA SelectorKeeps ==
  ASSUME TransportInv, NEW v,
         \/ WriteDeviceFeaturesSel(v) \/ WriteDriverFeaturesSel(v)
         \/ WriteQueueSel(v) \/ WriteInterruptAck(v)
  PROVE  TransportInv'
<1>1. UNCHANGED <<pq, avail_idx, last_avail_idx, status, driver_features, queue_ready,
                  queue_size, queue_addr>>
  BY DEF WriteDeviceFeaturesSel, WriteDriverFeaturesSel, WriteQueueSel, WriteInterruptAck,
         data_vars
<1>2. QED
  BY <1>1 DEF TransportInv, Notify, Negotiated, FixedQueue

LEMMA FeatureWriteKeeps ==
  ASSUME TransportInv, NEW v, WriteDriverFeatures(v) PROVE TransportInv'
<1>1. /\ UNCHANGED <<pq, avail_idx, last_avail_idx, status, queue_ready, queue_size, queue_addr>>
      /\ "FEATURES_OK" \in status => UNCHANGED driver_features
  BY DEF WriteDriverFeatures, Guarded, data_vars
<1>2. QED
  BY <1>1 DEF TransportInv, Notify, Negotiated, FixedQueue

LEMMA LayoutWriteKeeps ==
  ASSUME TransportInv, NEW v, NEW a, NEW half, WriteQueueSize(v) \/ WriteQueueAddr(a, half, v)
  PROVE  TransportInv'
<1>1. /\ UNCHANGED <<pq, avail_idx, last_avail_idx, status, driver_features, queue_ready>>
      /\ queue_ready # 0 => UNCHANGED <<queue_size, queue_addr>>
  BY DEF WriteQueueSize, WriteQueueAddr, Guarded, data_vars
<1>2. QED
  BY <1>1 DEF TransportInv, Notify, Negotiated, FixedQueue

LEMMA ReadyWriteKeeps ==
  ASSUME TransportInv, Notify.pc = "idle", NEW v, WriteQueueReady(v) PROVE TransportInv'
<1>1. /\ UNCHANGED <<pq, avail_idx, last_avail_idx, status, driver_features, queue_size,
                     queue_addr>>
      /\ queue_ready' = 1 => queue_ready = 1 \/ FixedQueue
  BY DEF WriteQueueReady, Guarded, data_vars
<1>2. QED
  BY <1>1 DEF TransportInv, Notify, Negotiated, FixedQueue

LEMMA StatusWriteKeeps ==
  ASSUME TransportInv, Notify.pc = "idle", NEW value, WriteStatus(value) PROVE TransportInv'
<1>1. CASE ResetRegisters
  BY <1>1 DEF ResetRegisters, TransportInv, Notify, data_vars
<1>2. CASE ~ResetRegisters
  <2>1. /\ UNCHANGED <<pq, avail_idx, last_avail_idx, driver_features, queue_ready, queue_size,
                       queue_addr>>
        /\ \/ UNCHANGED status
           \/ status' = IF FeaturesRefused(value) THEN value \ {"FEATURES_OK"} ELSE value
    BY <1>2 DEF WriteStatus, Guarded, data_vars
  <2>2. "FEATURES_OK" \in status' => Negotiated
    BY <2>1 DEF FeaturesRefused, TransportInv
  <2>3. QED
    BY <2>1, <2>2 DEF TransportInv, Notify, Negotiated, FixedQueue
<1>3. QED
  BY <1>1, <1>2

LEMMA NotifyKeeps ==
  ASSUME TransportInv, Notify.pc = "idle", NEW v, WriteQueueNotify(v) PROVE TransportInv'
<1>1. UNCHANGED <<avail_idx, last_avail_idx, status, driver_features, queue_ready, queue_size,
                  queue_addr>>
  BY DEF WriteQueueNotify, PqCall, dev_vars, queue_vars
<1>2. CASE UNCHANGED pq
  BY <1>1, <1>2 DEF TransportInv, Notify, Negotiated, FixedQueue
<1>3. CASE status = Operational /\ queue_ready = 1 /\ pq' = [pq EXCEPT !["vmm"].pc = "enter"]
  <2>1. /\ pq' \in [Callers -> [pc : Controls, snap : Idx, head : Table]]
        /\ Notify'.pc = "enter"
    BY <1>3 DEF TransportInv, Notify, Callers, Controls
  <2>2. QED
    BY <1>1, <1>3, <2>1 DEF TransportInv, Negotiated, FixedQueue
<1>4. QED
  BY <1>2, <1>3 DEF WriteQueueNotify, PqCall, Goto, queue_vars

LEMMA RegisterWriteKeeps ==
  ASSUME TransportInv, Notify.pc = "idle", RegisterWrite PROVE TransportInv'
BY SelectorKeeps, FeatureWriteKeeps, LayoutWriteKeeps, ReadyWriteKeeps, StatusWriteKeeps,
   NotifyKeeps DEF RegisterWrite

(* A doorbell's process_queue() finds a usable queue, with nothing to do for a driver that
   wrote no ring. *)
LEMMA NotifyEnterKeeps ==
  ASSUME TransportInv, PqEnter("vmm"), UNCHANGED <<dev_vars, alive>> PROVE TransportInv'
<1>1. /\ UNCHANGED <<avail_idx, last_avail_idx, status, driver_features, queue_ready, queue_size,
                     queue_addr>>
      /\ Notify.pc = "enter"
  BY DEF PqEnter, dev_vars, Notify
<1>2. 0 \in Idx /\ queue_ready = 1 /\ queue_size = QueueSizeMax
  BY <1>1, QueueAssumption DEF TransportInv, FixedQueue, Idx
<1>3. Pending(avail_idx, last_avail_idx) = 0 /\ ~(0 > QueueSizeMax)
  BY <1>2, PendingDistance, QueueAssumption DEF TransportInv
<1>4. pq' = [pq EXCEPT !["vmm"].snap = avail_idx, !["vmm"].pc = "done"]
  BY <1>2, <1>3 DEF PqEnter
<1>5. /\ pq' \in [Callers -> [pc : Controls, snap : Idx, head : Table]]
      /\ Notify'.pc = "done"
  BY <1>2, <1>4 DEF TransportInv, Notify, Callers, Controls
<1>6. QED
  BY <1>1, <1>5 DEF TransportInv, Negotiated, FixedQueue

LEMMA NotifyReturnsKeeps == ASSUME TransportInv, NotifyReturns PROVE TransportInv'
<1>1. UNCHANGED <<avail_idx, last_avail_idx, status, driver_features, queue_ready, queue_size,
                  queue_addr>>
  BY DEF NotifyReturns, PqReturn, dev_vars
<1>2. /\ pq' \in [Callers -> [pc : Controls, snap : Idx, head : Table]]
      /\ Notify'.pc = "idle"
  BY DEF NotifyReturns, PqReturn, Goto, TransportInv, Notify, Callers, Controls
<1>3. QED
  BY <1>1, <1>2 DEF TransportInv, Negotiated, FixedQueue

LEMMA TransportInductive == TransportInv /\ [TransportNext]_reg_vars => TransportInv'
<1> SUFFICES ASSUME TransportInv, [TransportNext]_reg_vars PROVE TransportInv'
  OBVIOUS
<1>1. CASE pq["vmm"].pc = "idle" /\ RegisterWrite
  BY <1>1, RegisterWriteKeeps DEF Notify
<1>2. CASE PqEnter("vmm") /\ UNCHANGED <<dev_vars, alive>>
  BY <1>2, NotifyEnterKeeps
<1>3. CASE NotifyReturns
  BY <1>3, NotifyReturnsKeeps
<1>4. CASE UNCHANGED reg_vars
  BY <1>4 DEF reg_vars, dev_vars, queue_vars, TransportInv, Notify, Negotiated, FixedQueue
<1>5. QED
  BY <1>1, <1>2, <1>3, <1>4 DEF TransportNext

(* Whatever the driver writes in whatever order, a ready queue has the fixed layout and a
   doorbell that is served finds an operational device that agreed on VERSION_1: for every
   ring size and every queue address. *)
THEOREM DoorbellIsLive == TransportSpec => []DoorbellReachesLiveQueue
<1>1. TransportInit => TransportInv
  BY TransportInitially
<1>2. TransportInv /\ [TransportNext]_reg_vars => TransportInv'
  BY TransportInductive
<1>3. TransportInv => DoorbellReachesLiveQueue
  BY DEF TransportInv, DoorbellReachesLiveQueue, Notify, Operational, Accepted
<1>4. QED
  BY <1>1, <1>2, <1>3, PTL DEF TransportSpec
=============================================================================
