------------------------------ MODULE BpfProof ------------------------------
(***************************************************************************)
(* Facts about the maps and the ring of Bpf that the proofs about the      *)
(* eBPF programs share.                                                    *)
(***************************************************************************)
EXTENDS Bpf, SequenceTheorems, TLAPS

\* What map m holds at key k: nothing, or one value.
Here(b, m, k) == {b[m][x] : x \in DOMAIN b[m] \cap {k}}

LEMMA HereIsHas ==
  ASSUME NEW b, NEW m, NEW k
  PROVE  /\ Has(b, m, k) <=> Here(b, m, k) # {}
         /\ Has(b, m, k) => Here(b, m, k) = {b[m][k]}
BY DEF Has, Here

LEMMA HereIsGet ==
  ASSUME NEW b, NEW m, NEW k, NEW d
  PROVE  /\ Here(b, m, k) = {} => Get(b, m, k, d) = d /\ ~Has(b, m, k)
         /\ \A v : Here(b, m, k) = {v} => Get(b, m, k, d) = v /\ b[m][k] = v /\ Has(b, m, k)
<1>1. (Has(b, m, k) <=> Here(b, m, k) # {}) /\ (Has(b, m, k) => Here(b, m, k) = {b[m][k]})
  BY HereIsHas
<1> QED
  BY <1>1 DEF Get

LEMMA SameMap ==
  ASSUME NEW b, NEW u, NEW m, u[m] = b[m]
  PROVE  \A k : Here(u, m, k) = Here(b, m, k)
BY DEF Here

LEMMA FreshMap ==
  ASSUME NEW b, NEW m, b[m] = Empty
  PROVE  \A k : Here(b, m, k) = {}
BY DEF Here, Empty

\* An update that was not counted as failed is in the map, and nowhere else.
LEMMA Updated ==
  ASSUME NEW b, NEW m, NEW k, NEW v, NEW u, u = lab_map_update(b, m, k, v),
         m \in DOMAIN b, "lost" \in DOMAIN b, m # "lost", b.lost \in BOOLEAN
  PROVE  /\ DOMAIN u = DOMAIN b /\ u.lost \in BOOLEAN
         /\ \A f \in DOMAIN b : f # m /\ f # "lost" => u[f] = b[f]
         /\ ~u.lost => ~b.lost
         /\ ~u.lost => Here(u, m, k) = {v}
         /\ ~u.lost => \A j : j # k => Here(u, m, j) = Here(b, m, j)
<1> DEFINE s == [x \in DOMAIN b[m] \cup {k} |-> IF x = k THEN v ELSE b[m][x]]
<1>1. CASE u = bpf_map_update_elem(b, m, k, v)
  <2>1. u = [b EXCEPT ![m] = s]
    BY <1>1 DEF bpf_map_update_elem
  <2>2. u[m] = s /\ DOMAIN s = DOMAIN b[m] \cup {k} /\ s[k] = v
    BY <2>1
  <2>3. \A j \in DOMAIN b[m] : j # k => s[j] = b[m][j]
    OBVIOUS
  <2>4. DOMAIN u = DOMAIN b /\ \A f \in DOMAIN b : f # m => u[f] = b[f]
    BY <2>1
  <2> HIDE DEF s
  <2>5. Here(u, m, k) = {v} /\ \A j : j # k => Here(u, m, j) = Here(b, m, j)
    BY <2>2, <2>3 DEF Here
  <2> QED
    BY <2>4, <2>5
<1>2. CASE u = [b EXCEPT !.lost = TRUE]
  BY <1>2
<1> QED
  BY <1>1, <1>2 DEF lab_map_update

LEMMA Deleted ==
  ASSUME NEW b, NEW m, NEW k, NEW u, u = bpf_map_delete_elem(b, m, k),
         m \in DOMAIN b
  PROVE  /\ DOMAIN u = DOMAIN b
         /\ \A f \in DOMAIN b : f # m => u[f] = b[f]
         /\ Here(u, m, k) = {}
         /\ \A j : j # k => Here(u, m, j) = Here(b, m, j)
<1> DEFINE s == [x \in DOMAIN b[m] \ {k} |-> b[m][x]]
<1>1. u = [b EXCEPT ![m] = s]
  BY DEF bpf_map_delete_elem
<1>2. u[m] = s /\ DOMAIN s = DOMAIN b[m] \ {k} /\ \A j \in DOMAIN b[m] : j # k => s[j] = b[m][j]
  BY <1>1
<1>3. DOMAIN u = DOMAIN b /\ \A f \in DOMAIN b : f # m => u[f] = b[f]
  BY <1>1
<1> HIDE DEF s
<1> QED
  BY <1>2, <1>3 DEF Here

\* A record that was not counted as dropped is the last of the step.
LEMMA Told ==
  ASSUME NEW b, NEW r, NEW u, u = lab_output(b, r),
         "lost" \in DOMAIN b, "out" \in DOMAIN b, b.lost \in BOOLEAN
  PROVE  /\ DOMAIN u = DOMAIN b /\ u.lost \in BOOLEAN
         /\ \A f \in DOMAIN b : f # "out" /\ f # "lost" => u[f] = b[f]
         /\ ~u.lost => ~b.lost
         /\ ~u.lost => u.out = Append(b.out, r)
         /\ ~u.lost => ~b.full
<1>1. CASE b.full
  BY <1>1 DEF lab_output
<1>2. CASE ~b.full
  BY <1>2 DEF lab_output
<1> QED
  BY <1>1, <1>2

\* Records written one after the other: the first n of h.
LEMMA Appended ==
  ASSUME NEW n \in Nat, NEW h
  PROVE  Append([i \in 1 .. n |-> h[i]], h[n + 1]) = [i \in 1 .. n + 1 |-> h[i]]
<1> DEFINE S == {h[i] : i \in 1 .. n + 1}
           p == [i \in 1 .. n |-> h[i]]
           q == [i \in 1 .. n + 1 |-> h[i]]
<1>1. p \in Seq(S) /\ q \in Seq(S) /\ h[n + 1] \in S /\ Len(p) = n /\ Len(q) = n + 1
  OBVIOUS
<1>2. /\ Append(p, h[n + 1]) \in Seq(S) /\ Len(Append(p, h[n + 1])) = n + 1
      /\ \A i \in 1 .. n + 1 : Append(p, h[n + 1])[i] = q[i]
  BY <1>1
<1> QED
  BY <1>1, <1>2, SeqEqual

LEMMA NoRecords == \A h : <<>> = [i \in 1 .. 0 |-> h[i]]
OBVIOUS

\* The records of up to seven hooks, each of which tells its own.
EachTold(s, h, L) == s[0].out = <<>> /\ \A n \in 1 .. L : s[n].out = Append(s[n - 1].out, h[n])
FirstOf(h, L) == [i \in 1 .. L |-> h[i]]

LEMMA AllTold ==
  ASSUME NEW L \in 0 .. 7, NEW s, NEW h, EachTold(s, h, L)
  PROVE  s[L].out = FirstOf(h, L)
<1> USE DEF EachTold, FirstOf
<1> DEFINE Good(n) == s[n].out = [i \in 1 .. n |-> h[i]]
<1>0. Good(0)
  BY NoRecords
<1>1. ASSUME NEW n \in 0 .. 6, n + 1 <= L, Good(n)
      PROVE  Good(n + 1)
  <2>1. n + 1 \in 1 .. L /\ (n + 1) - 1 = n /\ n \in Nat
    BY <1>1
  <2>2. s[n + 1].out = Append(s[n].out, h[n + 1])
    BY <2>1
  <2> QED
    BY <1>1, <2>1, <2>2, Appended
<1> HIDE DEF Good
<1>2. /\ L >= 1 => Good(1)
      /\ L >= 2 => Good(2)
      /\ L >= 3 => Good(3)
      /\ L >= 4 => Good(4)
  BY <1>0, <1>1
<1>3. /\ L >= 5 => Good(5)
      /\ L >= 6 => Good(6)
      /\ L >= 7 => Good(7)
  BY <1>1, <1>2
<1>4. Good(L)
  BY <1>0, <1>2, <1>3
<1> QED
  BY <1>4 DEF Good

\* Lists put together.
LEMMA Concatenated ==
  ASSUME NEW S, NEW T, NEW s \in Seq(S), NEW t \in Seq(T)
  PROVE  /\ s \o t \in Seq(S \cup T) /\ Len(s \o t) = Len(s) + Len(t)
         /\ \A i \in 1 .. Len(s) : (s \o t)[i] = s[i]
         /\ \A i \in 1 .. Len(t) : (s \o t)[Len(s) + i] = t[i]
<1>1. s \in Seq(S \cup T) /\ t \in Seq(S \cup T) /\ Len(s) \in Nat /\ Len(t) \in Nat
  OBVIOUS
<1>2. /\ s \o t \in Seq(S \cup T) /\ Len(s \o t) = Len(s) + Len(t)
      /\ \A i \in 1 .. Len(s) + Len(t) : (s \o t)[i] = IF i <= Len(s) THEN s[i] ELSE t[i - Len(s)]
  BY <1>1, ConcatProperties
<1> QED
  BY <1>1, <1>2

Joins(l, s, t) ==
  /\ Len(l) = Len(s) + Len(t) /\ DOMAIN l = 1 .. Len(l)
  /\ \A i \in 1 .. Len(s) : l[i] = s[i]
  /\ \A i \in 1 .. Len(t) : l[Len(s) + i] = t[i]

LEMMA JoinedLists ==
  ASSUME NEW S, NEW T, NEW s \in Seq(S), NEW t \in Seq(T), NEW l, l = s \o t
  PROVE  Joins(l, s, t)
<1>1. /\ l \in Seq(S \cup T) /\ Len(l) = Len(s) + Len(t)
      /\ \A i \in 1 .. Len(s) : l[i] = s[i]
      /\ \A i \in 1 .. Len(t) : l[Len(s) + i] = t[i]
  BY Concatenated
<1> QED
  BY <1>1 DEF Joins

\* A list between a first and a last element.
LEMMA Enclosed ==
  ASSUME NEW S, NEW s \in Seq(S), NEW a, NEW z, NEW l, l = <<a>> \o s \o <<z>>
  PROVE  /\ Len(l) = Len(s) + 2 /\ DOMAIN l = 1 .. Len(l)
         /\ l[1] = a /\ l[Len(s) + 2] = z
         /\ \A i \in 1 .. Len(s) : l[i + 1] = s[i]
<1>1. <<a>> \in Seq({a}) /\ <<z>> \in Seq({z}) /\ Len(<<a>>) = 1 /\ Len(<<z>>) = 1
      /\ <<a>>[1] = a /\ <<z>>[1] = z /\ Len(s) \in Nat
  OBVIOUS
<1>2. /\ <<a>> \o s \in Seq({a} \cup S) /\ Len(<<a>> \o s) = 1 + Len(s)
      /\ (<<a>> \o s)[1] = a /\ \A i \in 1 .. Len(s) : (<<a>> \o s)[1 + i] = s[i]
  <2>1. /\ \A i \in 1 .. 1 : (<<a>> \o s)[i] = <<a>>[i]
        /\ \A i \in 1 .. Len(s) : (<<a>> \o s)[1 + i] = s[i]
        /\ <<a>> \o s \in Seq({a} \cup S) /\ Len(<<a>> \o s) = 1 + Len(s)
    BY <1>1, Concatenated
  <2> QED
    BY <1>1, <2>1
<1> DEFINE f == <<a>> \o s
<1>3. l = f \o <<z>>
  OBVIOUS
<1> HIDE DEF f
<1>4. /\ l \in Seq({a} \cup S \cup {z}) /\ Len(l) = Len(f) + 1
      /\ \A i \in 1 .. Len(f) : l[i] = f[i]
      /\ \A i \in 1 .. 1 : l[Len(f) + i] = <<z>>[i]
  BY <1>1, <1>2, <1>3, Concatenated DEF f
<1>5. Len(f) = 1 + Len(s) /\ f[1] = a /\ \A i \in 1 .. Len(s) : f[1 + i] = s[i]
  BY <1>2 DEF f
<1>6. l[Len(f) + 1] = z
  BY <1>1, <1>4
<1>7. \A i \in 1 .. Len(s) : l[i + 1] = s[i]
  <2> TAKE i \in 1 .. Len(s)
  <2>1. i + 1 \in 1 .. Len(f) /\ i + 1 = 1 + i
    BY <1>1, <1>5
  <2> QED
    BY <1>4, <1>5, <2>1
<1> QED
  BY <1>1, <1>4, <1>5, <1>6, <1>7

\* Short lists.
IsShort(l, e, f) ==
  /\ l \in Seq({e, f}) /\ Len(l) \in 0 .. 2 /\ DOMAIN l = 1 .. Len(l)
  /\ \A n \in 1 .. Len(l) : l[n] \in {e, f}

LEMMA ShortLists ==
  ASSUME NEW e, NEW f
  PROVE  /\ <<e>> \o <<f>> = <<e, f>>
         /\ \A l \in {<<>>, <<e>>, <<e, f>>} : IsShort(l, e, f)
<1>1. <<e>> \in Seq({e, f}) /\ <<f>> \in Seq({e, f}) /\ <<e, f>> \in Seq({e, f}) /\ <<>> \in Seq({e, f})
  OBVIOUS
<1>2. Len(<<e>>) = 1 /\ Len(<<f>>) = 1 /\ Len(<<e, f>>) = 2 /\ Len(<<>>) = 0
  OBVIOUS
<1>3. <<e>>[1] = e /\ <<f>>[1] = f /\ <<e, f>>[1] = e /\ <<e, f>>[2] = f
  OBVIOUS
<1>4. <<e>> \o <<f>> = <<e, f>>
  <2> DEFINE p == <<e>>
             q == <<f>>
             r == <<e, f>>
  <2>1. /\ p \o q \in Seq({e, f}) /\ Len(p \o q) = 2
        /\ (p \o q)[1] = e /\ (p \o q)[2] = f
    <3> HIDE DEF p, q
    <3>1. /\ p \in Seq({e, f}) /\ q \in Seq({e, f}) /\ Len(p) = 1 /\ Len(q) = 1 /\ p[1] = e /\ q[1] = f
      BY <1>1, <1>2, <1>3 DEF p, q
    <3>2. /\ p \o q \in Seq({e, f} \cup {e, f}) /\ Len(p \o q) = 1 + 1
          /\ \A i \in 1 .. 1 : (p \o q)[i] = p[i]
          /\ \A i \in 1 .. 1 : (p \o q)[1 + i] = q[i]
      BY <3>1, Concatenated
    <3>3. 1 \in 1 .. 1 /\ 1 + 1 = 2 /\ {e, f} \cup {e, f} = {e, f}
      OBVIOUS
    <3> QED
      BY <3>1, <3>2, <3>3
  <2>2. r \in Seq({e, f}) /\ Len(r) = 2 /\ r[1] = e /\ r[2] = f
    BY <1>1, <1>2, <1>3
  <2> HIDE DEF p, q, r
  <2>3. \A i \in 1 .. 2 : (p \o q)[i] = r[i]
    BY <2>1, <2>2
  <2>4. p \o q = r
    BY <2>1, <2>2, <2>3, SeqEqual
  <2> QED
    BY <2>4 DEF p, q, r
<1>5. \A n \in 1 .. Len(<<>>) : FALSE
  BY <1>2
<1>6. \A n \in 1 .. Len(<<e>>) : <<e>>[n] \in {e, f}
  BY <1>2, <1>3
<1>7. \A n \in 1 .. Len(<<e, f>>) : <<e, f>>[n] \in {e, f}
  OBVIOUS
<1>8. ASSUME NEW l \in {<<>>, <<e>>, <<e, f>>}
      PROVE  IsShort(l, e, f)
  <2>1. l \in Seq({e, f}) /\ Len(l) \in 0 .. 2
    <3>1. l = <<>> \/ l = <<e>> \/ l = <<e, f>>
      OBVIOUS
    <3>2. l = <<>> => l \in Seq({e, f}) /\ Len(l) = 0
      BY <1>1, <1>2
    <3>3. l = <<e>> => l \in Seq({e, f}) /\ Len(l) = 1
      BY <1>1, <1>2
    <3>4. l = <<e, f>> => l \in Seq({e, f}) /\ Len(l) = 2
      BY <1>1, <1>2
    <3> QED
      BY <3>1, <3>2, <3>3, <3>4
  <2>2. DOMAIN l = 1 .. Len(l)
    BY <2>1
  <2>3. \A n \in 1 .. Len(l) : l[n] \in {e, f}
    BY <1>5, <1>6, <1>7
  <2> QED
    BY <2>1, <2>2, <2>3 DEF IsShort
<1> QED
  BY <1>4, <1>8
=============================================================================
