-------------------------- MODULE TeddySched_proofs --------------------------
(***************************************************************************)
(* Proofs about TeddySched, for every number of tasks, CPUs, priorities,   *)
(* kinds and settings: the inductive invariant SchedInv and what follows   *)
(* from it.                                                                *)
(***************************************************************************)
EXTENDS PriorityOrder, SequenceTheorems, FiniteSetTheorems, TLAPS

-----------------------------------------------------------------------------
(* Facts about the sequences that model queues: what appending, taking the  *)
(* head, removing from the middle and pushing in front do to the set of     *)
(* elements and to the absence of duplicates.                              *)

(* Append adds exactly e, and no duplicate if e was absent. *)
LEMMA AppendFacts ==
  ASSUME NEW S, NEW s \in Seq(S), NEW e \in S
  PROVE  /\ Append(s, e) \in Seq(S)
         /\ ToSet(Append(s, e)) = ToSet(s) \cup {e}
         /\ IsInjective(s) /\ e \notin ToSet(s) => IsInjective(Append(s, e))
<1> DEFINE a == Append(s, e)
<1>1. /\ a \in Seq(S) /\ Len(a) = Len(s) + 1
      /\ \A i \in 1 .. Len(s) : a[i] = s[i]
      /\ a[Len(s) + 1] = e
  BY AppendProperties
<1>2. DOMAIN a = 1 .. Len(s) + 1 /\ DOMAIN s = 1 .. Len(s) /\ Len(s) \in Nat
  BY <1>1, LenProperties
<1>3. ToSet(a) = ToSet(s) \cup {e}
  BY <1>1, <1>2 DEF ToSet
<1>4. ASSUME IsInjective(s), e \notin ToSet(s)
      PROVE  IsInjective(a)
  BY <1>1, <1>2, <1>4 DEF IsInjective, ToSet
<1> QED BY <1>1, <1>3, <1>4

(* Tail drops exactly the head of a sequence without duplicates. *)
LEMMA TailFacts ==
  ASSUME NEW S, NEW s \in Seq(S), s # <<>>
  PROVE  /\ Head(s) \in S /\ Head(s) \in ToSet(s)
         /\ Tail(s) \in Seq(S)
         /\ IsInjective(s) => /\ IsInjective(Tail(s))
                              /\ ToSet(Tail(s)) = ToSet(s) \ {Head(s)}
<1> DEFINE u == Tail(s)
<1>1. /\ Head(s) \in S /\ u \in Seq(S) /\ Len(u) = Len(s) - 1
      /\ \A i \in 1 .. Len(u) : u[i] = s[i + 1]
      /\ Len(s) \in Nat \ {0}
  BY HeadTailProperties, EmptySeq
<1>2. DOMAIN u = 1 .. Len(s) - 1 /\ DOMAIN s = 1 .. Len(s) /\ Head(s) = s[1]
  BY <1>1, LenProperties
<1>3. Head(s) \in ToSet(s)
  BY <1>1, <1>2 DEF ToSet
<1>4. ASSUME IsInjective(s)
      PROVE  IsInjective(u) /\ ToSet(u) = ToSet(s) \ {Head(s)}
  <2>1. IsInjective(u)
    BY <1>1, <1>2, <1>4 DEF IsInjective
  <2>2. ASSUME NEW x \in ToSet(u) PROVE x \in ToSet(s) \ {Head(s)}
    <3>1. PICK i \in 1 .. Len(s) - 1 : x = s[i + 1]
      BY <1>1, <1>2 DEF ToSet
    <3>2. i + 1 \in 1 .. Len(s) /\ i + 1 # 1
      BY <1>1
    <3> QED BY <3>1, <3>2, <1>1, <1>2, <1>4 DEF IsInjective, ToSet
  <2>3. ASSUME NEW x \in ToSet(s) \ {Head(s)} PROVE x \in ToSet(u)
    <3>1. PICK i \in 1 .. Len(s) : x = s[i]
      BY <1>2 DEF ToSet
    <3>2. i # 1
      BY <3>1, <1>2
    <3>3. i - 1 \in 1 .. Len(s) - 1 /\ u[i - 1] = x
      BY <3>1, <3>2, <1>1
    <3> QED BY <3>3, <1>2 DEF ToSet
  <2> QED BY <2>1, <2>2, <2>3
<1> QED BY <1>1, <1>3, <1>4

(* RemoveAt drops exactly the element at i of a sequence without duplicates. *)
LEMMA RemoveAtFacts ==
  ASSUME NEW S, NEW s \in Seq(S), NEW i \in DOMAIN s
  PROVE  /\ RemoveAt(s, i) \in Seq(S)
         /\ IsInjective(s) => /\ IsInjective(RemoveAt(s, i))
                              /\ ToSet(RemoveAt(s, i)) = ToSet(s) \ {s[i]}
<1> DEFINE p == SubSeq(s, 1, i - 1)
           q == SubSeq(s, i + 1, Len(s))
           r == RemoveAt(s, i)
<1>1. DOMAIN s = 1 .. Len(s) /\ Len(s) \in Nat /\ i \in 1 .. Len(s)
  BY LenProperties
<1>2. /\ p \in Seq(S) /\ Len(p) = i - 1
      /\ \A j \in 1 .. i - 1 : p[j] = s[j]
  <2>1. \A j \in 1 .. i - 1 : s[j] \in S
    BY <1>1, ElementOfSeq
  <2>2. /\ p \in Seq(S)
        /\ Len(p) = IF 1 <= i - 1 THEN i - 1 - 1 + 1 ELSE 0
        /\ \A j \in 1 .. i - 1 - 1 + 1 : p[j] = s[1 + j - 1]
    BY <1>1, <2>1, SubSeqProperties
  <2> QED BY <1>1, <2>2
<1>3. /\ q \in Seq(S) /\ Len(q) = Len(s) - i
      /\ \A j \in 1 .. Len(s) - i : q[j] = s[i + j]
  <2>1. \A j \in i + 1 .. Len(s) : s[j] \in S
    BY <1>1, ElementOfSeq
  <2>2. /\ q \in Seq(S)
        /\ Len(q) = IF i + 1 <= Len(s) THEN Len(s) - (i + 1) + 1 ELSE 0
        /\ \A j \in 1 .. Len(s) - (i + 1) + 1 : q[j] = s[i + 1 + j - 1]
    BY <1>1, <2>1, SubSeqProperties
  <2> QED BY <1>1, <2>2
<1>4. /\ r \in Seq(S) /\ Len(r) = Len(s) - 1 /\ DOMAIN r = 1 .. Len(s) - 1
      /\ \A j \in 1 .. Len(s) - 1 : r[j] = IF j < i THEN s[j] ELSE s[j + 1]
  <2>1. r = p \o q
    BY DEF RemoveAt
  <2>2. /\ r \in Seq(S) /\ Len(r) = Len(p) + Len(q)
        /\ \A j \in 1 .. Len(p) + Len(q) :
             r[j] = IF j <= Len(p) THEN p[j] ELSE q[j - Len(p)]
    <3>1. p \in Seq(S) /\ q \in Seq(S)
      BY <1>2, <1>3
    <3> QED
      BY <2>1, <3>1, ConcatProperties, SMTT(30)
  <2>3. DOMAIN r = 1 .. Len(r)
    BY <2>2, LenProperties
  <2>4. ASSUME NEW j \in 1 .. Len(s) - 1
        PROVE  r[j] = IF j < i THEN s[j] ELSE s[j + 1]
    <3>1. CASE j < i
      BY <3>1, <1>1, <1>2, <1>3, <2>2
    <3>2. CASE j >= i
      <4>1. j - (i - 1) \in 1 .. Len(s) - i /\ ~(j <= i - 1)
        BY <3>2, <1>1
      <4>2. r[j] = q[j - (i - 1)]
        <5>1. Len(p) = i - 1 /\ j \in 1 .. Len(p) + Len(q) /\ ~(j <= Len(p))
          BY <4>1, <1>1, <1>2, <1>3, SMTT(30)
        <5>2. r[j] = q[j - Len(p)]
          BY <5>1, <2>2
        <5> QED BY <5>1, <5>2
      <4>3. q[j - (i - 1)] = s[i + (j - (i - 1))]
        BY <4>1, <1>3
      <4>4. i + (j - (i - 1)) = j + 1
        BY <1>1
      <4> QED BY <4>2, <4>3, <4>4, <3>2, <1>1
    <3> QED BY <3>1, <3>2, <1>1
  <2> QED BY <1>1, <1>2, <1>3, <2>2, <2>3, <2>4
<1>5. ASSUME IsInjective(s)
      PROVE  IsInjective(r) /\ ToSet(r) = ToSet(s) \ {s[i]}
  <2>1. IsInjective(r)
    <3>1. ASSUME NEW j \in 1 .. Len(s) - 1, NEW k \in 1 .. Len(s) - 1, r[j] = r[k]
          PROVE  j = k
      <4> DEFINE a == IF j < i THEN j ELSE j + 1
                 b == IF k < i THEN k ELSE k + 1
      <4>1. a \in 1 .. Len(s) /\ b \in 1 .. Len(s) /\ (a = b => j = k)
        BY <1>1
      <4>2. r[j] = s[a] /\ r[k] = s[b]
        BY <1>4
      <4>3. DOMAIN s = 1 .. Len(s)
        BY <1>1, LenProperties
      <4> HIDE DEF a, b
      <4>4. a = b
        BY <1>5, <3>1, <4>1, <4>2, <4>3 DEF IsInjective
      <4> QED
        BY <4>1, <4>4
    <3> QED
      BY <1>4, <3>1 DEF IsInjective
  <2>2. ASSUME NEW x \in ToSet(r) PROVE x \in ToSet(s) \ {s[i]}
    <3>1. PICK j \in 1 .. Len(s) - 1 : x = r[j]
      BY <1>4 DEF ToSet
    <3>2. PICK k \in 1 .. Len(s) : k # i /\ x = s[k]
      BY <3>1, <1>1, <1>4
    <3> QED BY <3>2, <1>1, <1>5 DEF IsInjective, ToSet
  <2>3. ASSUME NEW x \in ToSet(s) \ {s[i]} PROVE x \in ToSet(r)
    <3>1. PICK k \in 1 .. Len(s) : k # i /\ x = s[k]
      BY <1>1 DEF ToSet
    <3>2. PICK j \in 1 .. Len(s) - 1 : x = r[j]
      <4>1. CASE k < i
        <5>1. k \in 1 .. Len(s) - 1 /\ r[k] = s[k]
          BY <4>1, <1>1, <1>4
        <5> QED BY <5>1, <3>1
      <4>2. CASE k > i
        <5>1. k - 1 \in 1 .. Len(s) - 1 /\ r[k - 1] = s[k]
          BY <4>2, <1>1, <1>4
        <5> QED BY <5>1, <3>1
      <4> QED BY <3>1, <4>1, <4>2, <1>1
    <3> QED BY <3>2, <1>4 DEF ToSet
  <2> QED BY <2>1, <2>2, <2>3
<1> QED BY <1>4, <1>5

(* Pushing an absent element in front adds exactly it. *)
LEMMA PushFacts ==
  ASSUME NEW S, NEW s \in Seq(S), NEW e \in S
  PROVE  /\ <<e>> \o s \in Seq(S)
         /\ ToSet(<<e>> \o s) = ToSet(s) \cup {e}
         /\ IsInjective(s) /\ e \notin ToSet(s) => IsInjective(<<e>> \o s)
<1> DEFINE a == <<e>> \o s
<1>1. <<e>> \in Seq(S) /\ Len(<<e>>) = 1 /\ <<e>>[1] = e
  OBVIOUS
<1>2. /\ a \in Seq(S) /\ Len(a) = 1 + Len(s)
      /\ \A i \in 1 .. 1 + Len(s) : a[i] = IF i <= 1 THEN <<e>>[i] ELSE s[i - 1]
  BY <1>1, ConcatProperties
<1>3. DOMAIN a = 1 .. Len(s) + 1 /\ DOMAIN s = 1 .. Len(s) /\ Len(s) \in Nat
  BY <1>2, LenProperties
<1>4. /\ a[1] = e
      /\ \A i \in 1 .. Len(s) : a[i + 1] = s[i]
  BY <1>1, <1>2, <1>3
<1>5. \A i \in 2 .. Len(s) + 1 : i - 1 \in 1 .. Len(s) /\ a[i] = s[i - 1]
  BY <1>2, <1>3
<1>6. ToSet(a) = ToSet(s) \cup {e}
  <2>1. ASSUME NEW x \in ToSet(a) PROVE x \in ToSet(s) \cup {e}
    <3>1. PICK i \in 1 .. Len(s) + 1 : x = a[i]
      BY <1>3 DEF ToSet
    <3>2. CASE i = 1
      BY <3>1, <3>2, <1>4
    <3>3. CASE i # 1
      BY <3>1, <3>3, <1>3, <1>5 DEF ToSet
    <3> QED BY <3>2, <3>3
  <2>2. e \in ToSet(a)
    BY <1>3, <1>4 DEF ToSet
  <2>3. ASSUME NEW x \in ToSet(s) PROVE x \in ToSet(a)
    <3>1. PICK i \in 1 .. Len(s) : x = s[i]
      BY <1>3 DEF ToSet
    <3>2. i + 1 \in 1 .. Len(s) + 1 /\ x = a[i + 1]
      BY <3>1, <1>3, <1>4
    <3> QED BY <3>2, <1>3 DEF ToSet
  <2> QED BY <2>1, <2>2, <2>3
<1>7. ASSUME IsInjective(s), e \notin ToSet(s)
      PROVE  IsInjective(a)
  BY <1>3, <1>4, <1>5, <1>7 DEF IsInjective, ToSet
<1> QED BY <1>2, <1>6, <1>7

(* A sequence of one element. *)
LEMMA SingletonFacts ==
  ASSUME NEW S, NEW e \in S
  PROVE  <<e>> \in Seq(S) /\ ToSet(<<e>>) = {e} /\ IsInjective(<<e>>)
<1>1. <<e>> \in Seq(S) /\ DOMAIN <<e>> = {1} /\ <<e>>[1] = e
  OBVIOUS
<1> QED BY <1>1 DEF ToSet, IsInjective

(* The empty sequence. *)
LEMMA EmptyFacts ==
  ASSUME NEW S
  PROVE  <<>> \in Seq(S) /\ ToSet(<<>>) = {} /\ IsInjective(<<>>)
<1>1. <<>> \in Seq(S) /\ DOMAIN <<>> = {}
  OBVIOUS
<1> QED BY <1>1 DEF ToSet, IsInjective

-----------------------------------------------------------------------------
(* The DSQ numbering (dsq_id in main.bpf.c).                               *)

(* Multiplication by a natural number is monotone. *)
LEMMA TimesMonotone ==
  ASSUME NEW a \in Nat, NEW b \in Nat, NEW m \in Nat, a <= b
  PROVE  a * m <= b * m
<1> DEFINE d == b - a
<1>1. d \in Nat /\ b = a + d
  OBVIOUS
<1> HIDE DEF d
<1>2. (a + d) * m = a * m + d * m /\ a * m \in Nat /\ d * m \in Nat
  BY <1>1
<1> QED BY <1>1, <1>2

(* Every (priority, slot) pair is one of the DSQs teddy_init creates. *)
LEMMA DsqIdInRange ==
  ASSUME NEW p \in Prios, NEW k \in Kinds
  PROVE  DsqId(p, k) \in DsqIds
<1> USE PrioAssumption, TopologyAssumption DEF Prios, Kinds, DsqId, DsqIds, DsqBase
<1> DEFINE m == 1 + KindNum
<1>1. m \in Nat /\ p \in Nat /\ k \in Nat /\ k <= m - 1 /\ p + 1 <= PriorityNum
  OBVIOUS
<1>2. p * m \in Nat /\ (p + 1) * m = p * m + m /\ PriorityNum * m \in Nat
  BY <1>1
<1>3. (p + 1) * m <= PriorityNum * m
  <2>1. p + 1 \in Nat /\ PriorityNum \in Nat
    BY <1>1
  <2> HIDE DEF m
  <2> QED BY <1>1, <2>1, TimesMonotone
<1>4. p * m + k <= PriorityNum * m - 1 /\ p * m + k \in Nat
  <2> DEFINE a == p * m
             b == PriorityNum * m
  <2>1. a \in Nat /\ b \in Nat /\ a + m <= b /\ k \in Nat /\ k <= m - 1 /\ m \in Nat
    BY <1>1, <1>2, <1>3
  <2>2. a + k <= b - 1 /\ a + k \in Nat
    <3> HIDE DEF a, b, m
    <3> QED BY <2>1
  <2> QED BY <2>2
<1>5. DsqId(p, k) = DsqBase + p * m + k /\ DsqIds = DsqBase .. DsqBase + PriorityNum * m - 1
  OBVIOUS
<1> QED BY <1>1, <1>2, <1>4, <1>5

(* Two (priority, slot) pairs never share a DSQ. *)
LEMMA DsqIdInjective ==
  ASSUME NEW p \in Prios, NEW k \in Kinds, NEW r \in Prios, NEW j \in Kinds,
         DsqId(p, k) = DsqId(r, j)
  PROVE  p = r /\ k = j
<1> USE PrioAssumption, TopologyAssumption DEF Prios, Kinds
<1> DEFINE m == 1 + KindNum
<1>1. /\ m \in Nat /\ p \in Nat /\ r \in Nat /\ k \in Nat /\ j \in Nat
      /\ k <= m - 1 /\ j <= m - 1
  OBVIOUS
<1>2. p * m \in Nat /\ r * m \in Nat /\ p * m + k = r * m + j
  BY <1>1 DEF DsqId, DsqBase
<1>3. ASSUME NEW a \in Nat, NEW b \in Nat, a < b PROVE a * m + m <= b * m
  <2>1. (a + 1) * m = a * m + m
    BY <1>1
  <2>2. (a + 1) * m <= b * m
    <3>1. a + 1 \in Nat /\ a + 1 <= b
      BY <1>3
    <3> HIDE DEF m
    <3> QED BY <1>1, <3>1, TimesMonotone
  <2> QED BY <2>1, <2>2
<1>4. CASE p < r
  <2>1. p * m + m <= r * m
    BY <1>1, <1>3, <1>4
  <2> QED BY <2>1, <1>1, <1>2
<1>5. CASE r < p
  <2>1. r * m + m <= p * m
    BY <1>1, <1>3, <1>5
  <2> QED BY <2>1, <1>1, <1>2
<1>6. CASE p = r
  BY <1>1, <1>2, <1>6
<1> QED BY <1>1, <1>4, <1>5, <1>6

(* The DSQ a context asks for exists. *)
LEMMA QueueOfType ==
  ASSUME NEW x \in Ctxs \cup {None}
  PROVE  QueueOf(x) \in DsqIds /\ SliceOf(x) \in Nat
<1>1. DefaultPrio \in Prios /\ 0 \in Kinds
  BY PrioAssumption, TopologyAssumption DEF DefaultPrio, Prios, Kinds
<1>2. CASE x = None
  BY <1>1, <1>2, DsqIdInRange, SettingAssumption DEF QueueOf, SliceOf
<1>3. CASE x # None
  <2>1. x.prio \in Prios /\ x.kind \in Kinds /\ x.slice \in Nat
    BY <1>3 DEF Ctxs
  <2> QED BY <2>1, <1>3, DsqIdInRange DEF QueueOf, SliceOf
<1> QED BY <1>2, <1>3

(* The DSQs of a dispatch walk exist; its even steps are the shared slots. *)
LEMMA WalkDsqType ==
  ASSUME NEW c \in Cpus, NEW i \in 0 .. 2 * PriorityNum - 1
  PROVE  /\ i \div 2 \in Prios
         /\ WalkDsq(c, i) \in DsqIds
         /\ \E k \in {0, KindOf[c]} : k \in Kinds /\ WalkDsq(c, i) = DsqId(i \div 2, k)
         /\ \A p \in Prios : i = 2 * p => WalkDsq(c, i) = DsqId(p, 0)
<1> USE PrioAssumption, TopologyAssumption DEF Prios, Kinds
<1>1. i \div 2 \in Prios
  OBVIOUS
<1>2. KindOf[c] \in Kinds /\ 0 \in Kinds
  OBVIOUS
<1>3. \E k \in {0, KindOf[c]} : k \in Kinds /\ WalkDsq(c, i) = DsqId(i \div 2, k)
  BY <1>2 DEF WalkDsq
<1>4. WalkDsq(c, i) \in DsqIds
  BY <1>1, <1>3, DsqIdInRange
<1>5. ASSUME NEW p \in Prios, i = 2 * p PROVE i % 2 = 0 /\ i \div 2 = p
  BY <1>5
<1> QED BY <1>1, <1>3, <1>4, <1>5 DEF WalkDsq

(* get_target_storage creates the defaults, which name the same DSQ as no   *)
(* context at all.                                                          *)
LEMMA StorageFacts ==
  ASSUME NEW t, ctx[t] \in Ctxs \cup {None}, NEW x \in Storage(t)
  PROVE  x \in Ctxs \cup {None} /\ QueueOf(x) = QueueOf(ctx[t])
<1>1. DefaultCtx \in Ctxs
  BY PrioAssumption, TopologyAssumption, SettingAssumption, SMTT(30)
  DEF DefaultCtx, Ctxs, Prios, Kinds, Prefers, NoPrefer, DefaultPrio
<1>2. QueueOf(DefaultCtx) = QueueOf(None)
  BY <1>1, NoneAssumption DEF QueueOf, DefaultCtx
<1> QED BY <1>1, <1>2 DEF Storage

(* The priority of a context is one. *)
LEMMA PrioOfType ==
  ASSUME NEW x \in Ctxs \cup {None}
  PROVE  PrioOf(x) \in Prios /\ 2 * PrioOf(x) \in 0 .. 2 * PriorityNum - 2
<1>1. PrioOf(x) \in Prios
  BY PrioAssumption DEF PrioOf, DefaultPrio, Prios, Ctxs
<1> QED BY <1>1, PrioAssumption DEF Prios

(* What stopping leaves in the context is a context. *)
LEMMA AfterStoppingType ==
  ASSUME NEW t, NEW x \in Ctxs \cup {None}, update_map[t] \in Settings \cup {None}
  PROVE  AfterStopping(t, x) \in Ctxs \cup {None}
<1>1. CASE x # None /\ update_map[t] # None
  <2> DEFINE s == update_map[t]
  <2>1. s \in Ctxs /\ x \in Ctxs
    BY <1>1, SettingAssumption
  <2>2. /\ s.prio \in Prios /\ s.kind \in Kinds /\ s.prefer \in Prefers /\ s.slice \in Nat
        /\ x.kind \in Kinds
    BY <2>1 DEF Ctxs
  <2>3. Applied(t, x, s) \in Ctxs
    BY <2>2 DEF Applied, Ctxs, Prefers, FastPrefer, SlowPrefer, NoPrefer
  <2> QED BY <1>1, <2>3 DEF AfterStopping
<1>2. CASE ~(x # None /\ update_map[t] # None)
  BY <1>2 DEF AfterStopping
<1> QED BY <1>1, <1>2
-----------------------------------------------------------------------------
(* The steps of the inductive invariant, one lemma per action.             *)

(* select_cpu decides; nothing is queued yet. *)
LEMMA SelectCpuStep ==
  ASSUME SchedInv, NEW t \in Tasks, SelectCpu(t)
  PROVE  SchedInv'
<1> USE DEF SchedInv
<1>1. PICK x \in Storage(t) :
        /\ ctx' = [ctx EXCEPT ![t] = x]
        /\ SelectQueue(t, x) \/ SelectIdle(t, x) \/ SelectNone(t, x)
  BY DEF SelectCpu
<1>2. /\ where[t] = "asleep" /\ where' = [where EXCEPT ![t] = "waking"]
      /\ UNCHANGED <<update_map, allowed, dsq, local, curr, resched, walk>>
  BY DEF SelectCpu
<1>3. x \in Ctxs \cup {None} /\ QueueOf(x) = QueueOf(ctx[t])
  BY <1>1, StorageFacts DEF TypeOK
<1>4. QueueOf(x) \in DsqIds
  BY <1>3, QueueOfType
<1>5. verdict[t] = NoVerdict
  BY <1>2 DEF WakeConsistent
<1>6. allowed[t] \subseteq Cpus /\ allowed[t] # {}
  <2>1. allowed[t] \in Affinities
    BY DEF TypeOK
  <2> QED BY <2>1, AffinityAssumption
<1>7. \A h \in HomeFor(t, home[t]) : h \in allowed[t] /\ h \in Cpus
  BY <1>6 DEF HomeFor
(* the outcome of select_cpu *)
<1>8. \/ /\ verdict' = [verdict EXCEPT ![t] = [cpu |-> None, q |-> QueueOf(x)]]
         /\ slice' = [slice EXCEPT ![t] = DefaultSlice]
         /\ \E h \in allowed[t] : home' = [home EXCEPT ![t] = h]
         /\ UNCHANGED idle
      \/ /\ x # None
         /\ \E c \in idle \cap allowed[t] :
              /\ KindOk(c, x)
              /\ idle' = idle \ {c}
              /\ verdict' = [verdict EXCEPT ![t] = [cpu |-> c, q |-> None]]
              /\ home' = [home EXCEPT ![t] = c]
         /\ slice' = [slice EXCEPT ![t] = x.slice]
      \/ /\ \E h \in allowed[t] : home' = [home EXCEPT ![t] = h]
         /\ UNCHANGED <<verdict, slice, idle>>
  <2>1. CASE SelectQueue(t, x)
    BY <2>1, <1>7 DEF SelectQueue
  <2>2. CASE SelectIdle(t, x)
    <3>1. \A c \in PickSync(t, x) \cup PickIdle(t, x) : c \in idle \cap allowed[t] /\ KindOk(c, x)
      BY DEF PickSync, PickIdle, PickDefault, PickIdleInOrder, KindOk
    <3> QED BY <2>2, <3>1 DEF SelectIdle, IsCritical
  <2>3. CASE SelectNone(t, x)
    BY <2>3, <1>7 DEF SelectNone
  <2> QED BY <1>1, <2>1, <2>2, <2>3
<1>9. TypeOK'
  <2>1. /\ ctx' \in [Tasks -> Ctxs \cup {None}]
        /\ where' \in [Tasks -> {"asleep", "waking", "dsq", "local", "running"}]
    BY <1>1, <1>2, <1>3 DEF TypeOK
  <2>2. home' \in [Tasks -> Cpus] /\ idle' \subseteq Cpus
    BY <1>6, <1>8 DEF TypeOK
  <2>3. verdict' \in [Tasks -> [cpu : Cpus \cup {None}, q : DsqIds \cup {None}]]
    <3> DEFINE V == [cpu : Cpus \cup {None}, q : DsqIds \cup {None}]
    <3>1. PICK v \in V : verdict' = [verdict EXCEPT ![t] = v]
      <4>1. [cpu |-> None, q |-> QueueOf(x)] \in V
        BY <1>4
      <4>2. \A c \in allowed[t] : [cpu |-> c, q |-> None] \in V
        BY <1>6
      <4>3. verdict[t] \in V /\ verdict = [verdict EXCEPT ![t] = verdict[t]]
        BY DEF TypeOK
      <4> QED BY <4>1, <4>2, <4>3, <1>8
    <3> QED BY <3>1 DEF TypeOK
  <2>4. DefaultSlice \in Nat /\ (x # None => x.slice \in Nat)
    BY <1>3, SettingAssumption DEF Ctxs
  <2>5. slice' \in [Tasks -> Nat]
    BY <2>4, <1>8 DEF TypeOK
  <2> QED BY <1>2, <2>1, <2>2, <2>3, <2>5 DEF TypeOK
<1>10. PlacedOnce'
  <2>1. \A u \in Tasks : u # t => where'[u] = where[u] /\ ctx'[u] = ctx[u] /\ home'[u] = home[u]
    BY <1>1, <1>2, <1>8 DEF TypeOK
  <2>2. where'[t] = "waking"
    BY <1>2 DEF TypeOK
  <2> QED BY <1>2, <2>1, <2>2 DEF PlacedOnce
<1>11. WakeConsistent'
  BY <1>1, <1>2, <1>3, <1>5, <1>6, <1>8 DEF WakeConsistent, NoVerdict, TypeOK, KindOk
<1>12. ClaimedCpuGetsTask'
  <2> SUFFICES ASSUME NEW c \in Cpus, curr[c] = None, walk[c] = None, c \notin idle',
                      c \notin resched
               PROVE  \E u \in Tasks : where'[u] = "waking" /\ verdict'[u].cpu = c
    BY <1>2 DEF ClaimedCpuGetsTask
  <2>1. CASE c \notin idle
    <3>1. PICK u \in Tasks : where[u] = "waking" /\ verdict[u].cpu = c
      BY <2>1 DEF ClaimedCpuGetsTask
    <3>2. u # t
      BY <3>1, <1>2
    <3>3. where'[u] = where[u] /\ verdict'[u] = verdict[u]
      BY <3>2, <1>2, <1>8 DEF TypeOK
    <3> QED BY <3>1, <3>3
  <2>2. CASE c \in idle
    <3>1. verdict' = [verdict EXCEPT ![t] = [cpu |-> c, q |-> None]]
      BY <2>2, <1>8
    <3> QED BY <3>1, <1>2 DEF TypeOK
  <2> QED BY <2>1, <2>2
<1>13. SharedTaskAttended'
  BY <1>1, <1>2, <1>8 DEF SharedTaskAttended, InSharedDsq, Attends, TypeOK
<1> QED BY <1>9, <1>10, <1>11, <1>12, <1>13

(* A task bound to one CPU is woken without select_cpu. *)
LEMMA WakeBoundStep ==
  ASSUME SchedInv, NEW t \in Tasks, WakeBound(t)
  PROVE  SchedInv'
<1> USE DEF SchedInv
<1>1. PICK h \in allowed[t] : home' = [home EXCEPT ![t] = h]
  BY DEF WakeBound
<1>2. /\ where[t] = "asleep" /\ where' = [where EXCEPT ![t] = "waking"]
      /\ UNCHANGED <<ctx, update_map, allowed, verdict, slice, dsq, local, curr,
                     idle, resched, walk>>
  BY DEF WakeBound
<1>3. h \in Cpus
  <2>1. allowed[t] \in Affinities
    BY DEF TypeOK
  <2> QED BY <2>1, AffinityAssumption
<1>4. verdict[t] = NoVerdict
  BY <1>2 DEF WakeConsistent
<1>5. TypeOK'
  BY <1>1, <1>2, <1>3 DEF TypeOK
<1>6. PlacedOnce'
  <2>1. \A u \in Tasks : u # t => where'[u] = where[u] /\ home'[u] = home[u]
    BY <1>1, <1>2 DEF TypeOK
  <2>2. where'[t] = "waking"
    BY <1>2 DEF TypeOK
  <2> QED BY <1>2, <2>1, <2>2 DEF PlacedOnce
<1>7. WakeConsistent'
  BY <1>1, <1>2, <1>4 DEF WakeConsistent, NoVerdict, TypeOK
<1>8. ClaimedCpuGetsTask'
  BY <1>2 DEF ClaimedCpuGetsTask, TypeOK
<1>9. SharedTaskAttended'
  BY <1>1, <1>2 DEF SharedTaskAttended, InSharedDsq, Attends, TypeOK
<1> QED BY <1>5, <1>6, <1>7, <1>8, <1>9

(* The wakeup completes: a task that was nowhere enters one queue. *)
LEMMA WakeStep ==
  ASSUME SchedInv, NEW t \in Tasks, Wake(t)
  PROVE  SchedInv'
<1> USE DEF SchedInv
<1> DEFINE h == home[t]
<1>1. /\ where[t] = "waking" /\ walk[h] = None
      /\ verdict' = [verdict EXCEPT ![t] = NoVerdict]
      /\ resched' = IF curr[h] = None THEN resched \cup {h} ELSE resched
      /\ UNCHANGED <<update_map, allowed, home, curr, idle, walk>>
  BY DEF Wake, Kick
<1>2. h \in Cpus /\ h \in allowed[t]
  BY <1>1 DEF TypeOK, WakeConsistent
(* either into the claimed CPU's local DSQ, or into the DSQ of the context *)
<1>3. \/ /\ local' = [local EXCEPT ![h] = Append(@, t)]
         /\ where' = [where EXCEPT ![t] = "local"]
         /\ UNCHANGED <<ctx, slice, dsq>>
      \/ \E x \in Ctxs \cup {None} :
           /\ ctx' = [ctx EXCEPT ![t] = x]
           /\ dsq' = [dsq EXCEPT ![QueueOf(x)] = Append(@, t)]
           /\ where' = [where EXCEPT ![t] = "dsq"]
           /\ slice' \in [Tasks -> Nat]
           /\ UNCHANGED local
  <2>1. CASE WakeLocal(t)
    BY <2>1, <1>1 DEF WakeLocal, WakeConsistent
  <2>2. CASE WakeDsq(t)
    <3>1. ctx' = [ctx EXCEPT ![t] = ctx[t]] /\ ctx[t] \in Ctxs \cup {None}
      BY <2>2 DEF WakeDsq, TypeOK
    <3> QED BY <3>1, <2>2 DEF WakeDsq, InsertDsq, WakeConsistent, TypeOK
  <2>3. CASE WakeEnqueue(t)
    <3>1. PICK x \in Storage(t) : ctx' = [ctx EXCEPT ![t] = x] /\ Enqueue(t, x)
      BY <2>3 DEF WakeEnqueue
    <3>2. x \in Ctxs \cup {None}
      BY StorageFacts DEF TypeOK
    <3>3. slice' \in [Tasks -> Nat]
      BY <3>1, <3>2, QueueOfType DEF Enqueue, TypeOK
    <3> QED BY <3>1, <3>2, <3>3, <2>3 DEF WakeEnqueue, Enqueue, InsertDsq
  <2> QED BY <2>1, <2>2, <2>3 DEF Wake
<1>4. \A u \in Tasks : u # t => where'[u] = where[u] /\ ctx'[u] = ctx[u] /\ verdict'[u] = verdict[u]
  BY <1>1, <1>3 DEF TypeOK
<1>5. \A q \in DsqIds : t \notin ToSet(dsq[q])
  BY <1>1 DEF PlacedOnce
<1>6. \A c \in Cpus : t \notin ToSet(local[c])
  BY <1>1 DEF PlacedOnce
<1>7. \A q \in DsqIds : /\ Append(dsq[q], t) \in Seq(Tasks)
                        /\ ToSet(Append(dsq[q], t)) = ToSet(dsq[q]) \cup {t}
                        /\ IsInjective(Append(dsq[q], t))
  BY <1>5, AppendFacts DEF PlacedOnce, TypeOK
<1>8. \A c \in Cpus : /\ Append(local[c], t) \in Seq(Tasks)
                      /\ ToSet(Append(local[c], t)) = ToSet(local[c]) \cup {t}
                      /\ IsInjective(Append(local[c], t))
  BY <1>6, AppendFacts DEF PlacedOnce, TypeOK
<1>9. ASSUME local' = [local EXCEPT ![h] = Append(@, t)],
             where' = [where EXCEPT ![t] = "local"],
             UNCHANGED <<ctx, slice, dsq>>
      PROVE  TypeOK' /\ PlacedOnce' /\ SharedTaskAttended'
  <2>1. TypeOK'
    BY <1>1, <1>2, <1>8, <1>9 DEF TypeOK, NoVerdict
  <2>2. PlacedOnce'
    BY <1>1, <1>2, <1>4, <1>8, <1>9 DEF PlacedOnce, TypeOK
  <2>3. SharedTaskAttended'
    BY <1>1, <1>2, <1>4, <1>9, EmptyFacts DEF SharedTaskAttended, InSharedDsq, Attends, TypeOK
  <2> QED BY <2>1, <2>2, <2>3
<1>10. ASSUME NEW x \in Ctxs \cup {None},
              ctx' = [ctx EXCEPT ![t] = x],
              dsq' = [dsq EXCEPT ![QueueOf(x)] = Append(@, t)],
              where' = [where EXCEPT ![t] = "dsq"],
              slice' \in [Tasks -> Nat],
              UNCHANGED local
       PROVE  TypeOK' /\ PlacedOnce' /\ SharedTaskAttended'
  <2>1. QueueOf(x) \in DsqIds
    BY QueueOfType
  <2>2. TypeOK'
    BY <1>1, <1>2, <1>7, <1>10, <2>1 DEF TypeOK, NoVerdict
  <2>3. ctx'[t] = x /\ where'[t] = "dsq" /\ home' = home
    BY <1>1, <1>10 DEF TypeOK
  <2>4. PlacedOnce'
    <3>1. ASSUME NEW q \in DsqIds
          PROVE  /\ IsInjective(dsq'[q])
                 /\ ToSet(dsq'[q]) = {u \in Tasks : where'[u] = "dsq" /\ QueueOf(ctx'[u]) = q}
      <4>1. CASE q = QueueOf(x)
        BY <4>1, <1>4, <1>7, <1>10, <2>1, <2>3 DEF PlacedOnce, TypeOK
      <4>2. CASE q # QueueOf(x)
        BY <4>2, <1>1, <1>4, <1>10, <2>3 DEF PlacedOnce, TypeOK
      <4> QED BY <4>1, <4>2
    <3>2. ASSUME NEW c \in Cpus
          PROVE  /\ IsInjective(local'[c])
                 /\ ToSet(local'[c]) = {u \in Tasks : where'[u] = "local" /\ home'[u] = c}
                 /\ {curr'[c]} \ {None} = {u \in Tasks : where'[u] = "running" /\ home'[u] = c}
      BY <1>1, <1>4, <1>10, <2>3 DEF PlacedOnce
    <3> QED BY <3>1, <3>2 DEF PlacedOnce
  <2>5. SharedTaskAttended'
    BY <1>1, <1>2, <1>4, <1>10, <2>3 DEF SharedTaskAttended, InSharedDsq, Attends, TypeOK
  <2> QED BY <2>2, <2>4, <2>5
<1>11. WakeConsistent'
  BY <1>1, <1>2, <1>4 DEF WakeConsistent, TypeOK, NoVerdict
<1>12. ClaimedCpuGetsTask'
  <2> SUFFICES ASSUME NEW c \in Cpus, curr[c] = None, walk[c] = None, c \notin idle,
                      c \notin resched'
               PROVE  \E u \in Tasks : where'[u] = "waking" /\ verdict'[u].cpu = c
    BY <1>1 DEF ClaimedCpuGetsTask
  <2>1. c \notin resched
    BY <1>1
  <2>2. PICK u \in Tasks : where[u] = "waking" /\ verdict[u].cpu = c
    BY <2>1 DEF ClaimedCpuGetsTask
  <2>3. u # t
    <3>1. ASSUME u = t PROVE FALSE
      <4>1. c = h
        BY <2>2, <3>1, NoneAssumption DEF WakeConsistent
      <4> QED BY <4>1, <1>1
    <3> QED BY <3>1
  <2> QED BY <2>2, <2>3, <1>4
<1> QED BY <1>3, <1>9, <1>10, <1>11, <1>12

(* The task running on a CPU is on that CPU's run queue and nowhere else. *)
LEMMA RunningFacts ==
  ASSUME TypeOK, PlacedOnce, NEW c \in Cpus, curr[c] # None
  PROVE  /\ curr[c] \in Tasks /\ where[curr[c]] = "running" /\ home[curr[c]] = c
         /\ \A q \in DsqIds : curr[c] \notin ToSet(dsq[q])
         /\ \A d \in Cpus : curr[c] \notin ToSet(local[d])
         /\ \A d \in Cpus : d # c => curr[d] # curr[c]
<1>1. curr[c] \in Tasks /\ where[curr[c]] = "running" /\ home[curr[c]] = c
  BY DEF TypeOK, PlacedOnce
<1>2. \A d \in Cpus : curr[d] = curr[c] => home[curr[c]] = d
  BY DEF PlacedOnce
<1> QED BY <1>1, <1>2 DEF PlacedOnce

(* stopping only changes the context and the pending setting of its task. *)
LEMMA StoppingFacts ==
  ASSUME TypeOK, NEW t \in Tasks, NEW x \in Storage(t), Stopping(t, x)
  PROVE  /\ AfterStopping(t, x) \in Ctxs \cup {None}
         /\ ctx' = [ctx EXCEPT ![t] = AfterStopping(t, x)]
         /\ ctx' \in [Tasks -> Ctxs \cup {None}]
         /\ \A u \in Tasks : u # t => ctx'[u] = ctx[u]
         /\ update_map' \in [Tasks -> Settings \cup {None}]
<1>1. x \in Ctxs \cup {None}
  BY StorageFacts DEF TypeOK
<1>2. AfterStopping(t, x) \in Ctxs \cup {None}
  BY <1>1, AfterStoppingType DEF TypeOK
<1> QED BY <1>2 DEF Stopping, TypeOK

(* The running task leaves the CPU by blocking. *)
LEMMA BlockStep ==
  ASSUME SchedInv, NEW c \in Cpus, Block(c)
  PROVE  SchedInv'
<1> USE DEF SchedInv
<1> DEFINE t == curr[c]
<1>1. /\ t # None /\ walk[c] = None
      /\ where' = [where EXCEPT ![t] = "asleep"]
      /\ curr' = [curr EXCEPT ![c] = None]
      /\ walk' = [walk EXCEPT ![c] = 0]
      /\ UNCHANGED <<allowed, home, verdict, slice, dsq, local, idle, resched>>
  BY DEF Block
<1>2. PICK x \in Storage(t) : Stopping(t, x)
  BY DEF Block
<1>3. /\ t \in Tasks /\ where[t] = "running" /\ home[t] = c
      /\ \A d \in Cpus : d # c => curr[d] # t
  BY <1>1, RunningFacts
<1>4. /\ ctx' \in [Tasks -> Ctxs \cup {None}]
      /\ update_map' \in [Tasks -> Settings \cup {None}]
      /\ \A u \in Tasks : u # t => ctx'[u] = ctx[u]
  BY <1>2, <1>3, StoppingFacts
<1>5. \A d \in Cpus : /\ d # c => walk'[d] = walk[d] /\ curr'[d] = curr[d]
                      /\ walk'[c] = 0 /\ walk'[c] # None
  BY <1>1, NoneAssumption DEF TypeOK
<1>6. \A u \in Tasks : u # t => where'[u] = where[u] /\ ctx'[u] = ctx[u]
  BY <1>1, <1>4 DEF TypeOK
<1>7. where'[t] = "asleep" /\ verdict[t] = NoVerdict
  BY <1>1, <1>3 DEF TypeOK, WakeConsistent
<1>8. TypeOK'
  <2>1. walk' \in [Cpus -> (0 .. 2 * PriorityNum) \cup {None}]
    BY <1>1, PrioAssumption DEF TypeOK
  <2> QED BY <1>1, <1>3, <1>4, <2>1 DEF TypeOK
<1>9. PlacedOnce'
  <2>1. ASSUME NEW q \in DsqIds
        PROVE  /\ IsInjective(dsq'[q])
               /\ ToSet(dsq'[q]) = {u \in Tasks : where'[u] = "dsq" /\ QueueOf(ctx'[u]) = q}
    BY <1>1, <1>3, <1>6, <1>7 DEF PlacedOnce
  <2>2. ASSUME NEW d \in Cpus
        PROVE  /\ IsInjective(local'[d])
               /\ ToSet(local'[d]) = {u \in Tasks : where'[u] = "local" /\ home'[u] = d}
               /\ {curr'[d]} \ {None} = {u \in Tasks : where'[u] = "running" /\ home'[u] = d}
    BY <1>1, <1>3, <1>6, <1>7 DEF PlacedOnce, TypeOK
  <2> QED BY <2>1, <2>2 DEF PlacedOnce
<1>10. WakeConsistent'
  BY <1>1, <1>6, <1>7 DEF WakeConsistent, NoVerdict
<1>11. ClaimedCpuGetsTask'
  <2>1. \A u \in Tasks : where[u] = "waking" => where'[u] = "waking"
    BY <1>3, <1>6
  <2> QED BY <1>1, <1>5, <2>1 DEF ClaimedCpuGetsTask
<1>12. SharedTaskAttended'
  <2> SUFFICES ASSUME NEW u \in Tasks, InSharedDsq(u)'
               PROVE  /\ home'[u] \in allowed'[u]
                      /\ Attends(home[u], 2 * PrioOf(ctx[u]))'
    BY DEF SharedTaskAttended
  <2>1. u # t /\ ctx'[u] = ctx[u] /\ InSharedDsq(u)
    BY <1>6, <1>7 DEF InSharedDsq
  <2>2. 2 * PrioOf(ctx[u]) \in Nat /\ home[u] \in Cpus
    BY PrioOfType, PrioAssumption DEF TypeOK
  <2> QED BY <1>1, <1>5, <2>1, <2>2 DEF SharedTaskAttended, Attends
<1> QED BY <1>8, <1>9, <1>10, <1>11, <1>12

(* A higher class takes the CPU: the task goes to the head of the local DSQ. *)
LEMMA PreemptStep ==
  ASSUME SchedInv, NEW c \in Cpus, Preempt(c)
  PROVE  SchedInv'
<1> USE DEF SchedInv
<1> DEFINE t == curr[c]
<1>1. /\ t # None /\ walk[c] = None
      /\ where' = [where EXCEPT ![t] = "local"]
      /\ curr' = [curr EXCEPT ![c] = None]
      /\ local' = [local EXCEPT ![c] = <<t>> \o @]
      /\ walk' = [walk EXCEPT ![c] = 0]
      /\ UNCHANGED <<allowed, home, verdict, slice, dsq, idle, resched>>
  BY DEF Preempt
<1>2. PICK x \in Storage(t) : Stopping(t, x)
  BY DEF Preempt
<1>3. /\ t \in Tasks /\ where[t] = "running" /\ home[t] = c
      /\ \A d \in Cpus : d # c => curr[d] # t
      /\ \A d \in Cpus : t \notin ToSet(local[d])
  BY <1>1, RunningFacts
<1>4. /\ ctx' \in [Tasks -> Ctxs \cup {None}]
      /\ update_map' \in [Tasks -> Settings \cup {None}]
      /\ \A u \in Tasks : u # t => ctx'[u] = ctx[u]
  BY <1>2, <1>3, StoppingFacts
<1>5. \A d \in Cpus : /\ d # c => walk'[d] = walk[d] /\ curr'[d] = curr[d]
                      /\ walk'[c] = 0 /\ walk'[c] # None
  BY <1>1, NoneAssumption DEF TypeOK
<1>6. \A u \in Tasks : u # t => where'[u] = where[u] /\ ctx'[u] = ctx[u]
  BY <1>1, <1>4 DEF TypeOK
<1>7. where'[t] = "local" /\ verdict[t] = NoVerdict
  BY <1>1, <1>3 DEF TypeOK, WakeConsistent
<1>8. /\ local'[c] \in Seq(Tasks) /\ IsInjective(local'[c])
      /\ ToSet(local'[c]) = ToSet(local[c]) \cup {t}
      /\ \A d \in Cpus : d # c => local'[d] = local[d]
  BY <1>1, <1>3, PushFacts DEF PlacedOnce, TypeOK
<1>9. TypeOK'
  <2>1. walk' \in [Cpus -> (0 .. 2 * PriorityNum) \cup {None}]
    BY <1>1, PrioAssumption DEF TypeOK
  <2>2. local' \in [Cpus -> Seq(Tasks)]
    BY <1>1, <1>8 DEF TypeOK
  <2> QED BY <1>1, <1>3, <1>4, <2>1, <2>2 DEF TypeOK
<1>10. PlacedOnce'
  <2>1. ASSUME NEW q \in DsqIds
        PROVE  /\ IsInjective(dsq'[q])
               /\ ToSet(dsq'[q]) = {u \in Tasks : where'[u] = "dsq" /\ QueueOf(ctx'[u]) = q}
    BY <1>1, <1>3, <1>6, <1>7 DEF PlacedOnce
  <2>2. ASSUME NEW d \in Cpus
        PROVE  /\ IsInjective(local'[d])
               /\ ToSet(local'[d]) = {u \in Tasks : where'[u] = "local" /\ home'[u] = d}
    <3>1. CASE d = c
      BY <3>1, <1>1, <1>3, <1>6, <1>7, <1>8 DEF PlacedOnce
    <3>2. CASE d # c
      BY <3>2, <1>1, <1>3, <1>6, <1>7, <1>8 DEF PlacedOnce
    <3> QED BY <3>1, <3>2
  <2>3. ASSUME NEW d \in Cpus
        PROVE  {curr'[d]} \ {None} = {u \in Tasks : where'[u] = "running" /\ home'[u] = d}
    BY <1>1, <1>3, <1>6, <1>7 DEF PlacedOnce, TypeOK
  <2> QED BY <2>1, <2>2, <2>3 DEF PlacedOnce
<1>11. WakeConsistent'
  <2>1. home[t] \in allowed[t]
    BY <1>3 DEF WakeConsistent
  <2> QED BY <1>1, <1>6, <1>7, <2>1 DEF WakeConsistent, NoVerdict
<1>12. ClaimedCpuGetsTask'
  <2>1. \A u \in Tasks : where[u] = "waking" => where'[u] = "waking"
    BY <1>3, <1>6
  <2> QED BY <1>1, <1>5, <2>1 DEF ClaimedCpuGetsTask
<1>13. SharedTaskAttended'
  <2> SUFFICES ASSUME NEW u \in Tasks, InSharedDsq(u)'
               PROVE  /\ home'[u] \in allowed'[u]
                      /\ Attends(home[u], 2 * PrioOf(ctx[u]))'
    BY DEF SharedTaskAttended
  <2>1. u # t /\ ctx'[u] = ctx[u] /\ InSharedDsq(u)
    BY <1>6, <1>7 DEF InSharedDsq
  <2>2. 2 * PrioOf(ctx[u]) \in Nat /\ home[u] \in Cpus
    BY PrioOfType, PrioAssumption DEF TypeOK
  <2>3. CASE home[u] = c
    BY <2>1, <2>2, <2>3, <1>1, <1>5 DEF SharedTaskAttended, Attends
  <2>4. CASE home[u] # c
    BY <2>1, <2>2, <2>4, <1>1, <1>5, <1>8 DEF SharedTaskAttended, Attends
  <2> QED BY <2>3, <2>4
<1> QED BY <1>9, <1>10, <1>11, <1>12, <1>13

(* A CPU enters schedule() without losing its task, or as an idle CPU. *)
LEMMA EnterScheduleStep ==
  ASSUME SchedInv, NEW c \in Cpus, SliceEnd(c) \/ Resched(c)
  PROVE  SchedInv'
<1> USE DEF SchedInv
<1>1. /\ walk[c] = None /\ walk' = [walk EXCEPT ![c] = 0]
      /\ \/ curr[c] # None /\ resched' = resched
         \/ resched' = resched \ {c}
      /\ UNCHANGED <<ctx, update_map, allowed, home, where, verdict, slice, dsq,
                     local, curr, idle>>
  BY DEF SliceEnd, Resched
<1>2. \A d \in Cpus : /\ d # c => walk'[d] = walk[d] /\ (d \in resched' <=> d \in resched)
                      /\ walk'[c] = 0 /\ walk'[c] # None
  BY <1>1, NoneAssumption DEF TypeOK
<1>3. TypeOK'
  <2>1. walk' \in [Cpus -> (0 .. 2 * PriorityNum) \cup {None}]
    BY <1>1, PrioAssumption DEF TypeOK
  <2> QED BY <1>1, <2>1 DEF TypeOK
<1>4. PlacedOnce' /\ WakeConsistent'
  BY <1>1 DEF PlacedOnce, WakeConsistent
<1>5. ClaimedCpuGetsTask'
  BY <1>1, <1>2 DEF ClaimedCpuGetsTask
<1>6. SharedTaskAttended'
  <2> SUFFICES ASSUME NEW u \in Tasks, InSharedDsq(u)
               PROVE  home[u] \in allowed[u] /\ Attends(home[u], 2 * PrioOf(ctx[u]))'
    BY <1>1 DEF SharedTaskAttended, InSharedDsq
  <2>1. 2 * PrioOf(ctx[u]) \in Nat /\ home[u] \in Cpus
    BY PrioOfType, PrioAssumption DEF TypeOK
  <2> QED BY <1>1, <1>2, <2>1 DEF SharedTaskAttended, Attends
<1> QED BY <1>3, <1>4, <1>5, <1>6

(* One step of the dispatch walk: an empty slot is passed, or its first     *)
(* takable task moves to the local DSQ.                                     *)
LEMMA DispatchStep ==
  ASSUME SchedInv, NEW c \in Cpus, Dispatch(c)
  PROVE  SchedInv'
<1> USE DEF SchedInv
<1> DEFINE w == walk[c]
           q == WalkDsq(c, w)
<1>1. /\ w # None /\ w < 2 * PriorityNum /\ local[c] = <<>>
      /\ UNCHANGED <<ctx, update_map, allowed, verdict, slice, curr, idle, resched>>
  BY DEF Dispatch
<1>2. w \in 0 .. 2 * PriorityNum - 1
  BY <1>1, PrioAssumption DEF TypeOK
<1>3. q \in DsqIds
  BY <1>2, WalkDsqType
<1>4. CASE /\ Takable(c, q) = {}
           /\ walk' = [walk EXCEPT ![c] = @ + 1]
           /\ UNCHANGED <<dsq, local, where, home>>
  <2>1. \A d \in Cpus : /\ d # c => walk'[d] = walk[d]
                        /\ walk'[c] = w + 1 /\ walk'[c] # None
    BY <1>2, <1>4, NoneAssumption, PrioAssumption DEF TypeOK
  <2>2. TypeOK'
    <3>1. walk' \in [Cpus -> (0 .. 2 * PriorityNum) \cup {None}]
      BY <1>2, <1>4, PrioAssumption DEF TypeOK
    <3> QED BY <1>1, <1>4, <3>1 DEF TypeOK
  <2>3. PlacedOnce' /\ WakeConsistent'
    BY <1>1, <1>4 DEF PlacedOnce, WakeConsistent
  <2>4. ClaimedCpuGetsTask'
    BY <1>1, <1>4, <2>1 DEF ClaimedCpuGetsTask
  <2>5. SharedTaskAttended'
    <3> SUFFICES ASSUME NEW u \in Tasks, InSharedDsq(u)
                 PROVE  home[u] \in allowed[u] /\ Attends(home[u], 2 * PrioOf(ctx[u]))'
      BY <1>1, <1>4 DEF SharedTaskAttended, InSharedDsq
    <3> DEFINE p == PrioOf(ctx[u])
    <3>1. p \in Prios /\ 2 * p \in Nat /\ home[u] \in Cpus
      BY PrioOfType, PrioAssumption DEF TypeOK
    <3>2. home[u] \in allowed[u] /\ Attends(home[u], 2 * p)
      BY DEF SharedTaskAttended
    <3>3. ASSUME home[u] = c, w = 2 * p PROVE FALSE
      <4>1. q = DsqId(p, 0)
        BY <1>2, <3>1, <3>3, WalkDsqType
      <4>2. QueueOf(ctx[u]) = q
        BY <4>1 DEF InSharedDsq, QueueOf, PrioOf
      <4>3. u \in ToSet(dsq[q])
        BY <4>2, <1>3 DEF PlacedOnce, InSharedDsq
      <4>4. PICK i \in DOMAIN dsq[q] : dsq[q][i] = u
        BY <4>3 DEF ToSet
      <4> QED BY <4>4, <3>2, <3>3, <1>4 DEF Takable
    <3>4. CASE home[u] # c
      BY <3>2, <3>4, <2>1, <1>1, <1>4 DEF Attends
    <3>5. CASE home[u] = c
      <4>1. w <= 2 * p => w + 1 <= 2 * p
        BY <3>1, <3>3, <3>5, <1>2
      <4> QED BY <3>2, <3>5, <4>1, <2>1, <1>1, <1>4 DEF Attends
    <3> QED BY <3>2, <3>4, <3>5
  <2> QED BY <2>2, <2>3, <2>4, <2>5
<1>5. ASSUME NEW i \in Takable(c, q),
             dsq' = [dsq EXCEPT ![q] = RemoveAt(@, i)],
             local' = [local EXCEPT ![c] = <<dsq[q][i]>>],
             where' = [where EXCEPT ![dsq[q][i]] = "local"],
             home' = [home EXCEPT ![dsq[q][i]] = c],
             UNCHANGED walk
      PROVE  SchedInv'
  <2> DEFINE t == dsq[q][i]
  <2>1. i \in DOMAIN dsq[q] /\ c \in allowed[t]
    BY DEF Takable
  <2>2. dsq[q] \in Seq(Tasks) /\ IsInjective(dsq[q])
    BY <1>3 DEF TypeOK, PlacedOnce
  <2>3. t \in ToSet(dsq[q])
    BY <2>1 DEF ToSet
  <2>4. t \in Tasks /\ where[t] = "dsq" /\ QueueOf(ctx[t]) = q /\ verdict[t] = NoVerdict
    BY <2>3, <1>3 DEF PlacedOnce, WakeConsistent
  <2>5. /\ dsq'[q] \in Seq(Tasks) /\ IsInjective(dsq'[q])
        /\ ToSet(dsq'[q]) = ToSet(dsq[q]) \ {t}
        /\ \A r \in DsqIds : r # q => dsq'[r] = dsq[r]
    BY <1>3, <1>5, <2>1, <2>2, RemoveAtFacts DEF TypeOK
  <2>6. /\ local'[c] \in Seq(Tasks) /\ IsInjective(local'[c]) /\ ToSet(local'[c]) = {t}
        /\ local'[c] # <<>>
        /\ \A d \in Cpus : d # c => local'[d] = local[d]
    <3>1. local'[c] = <<t>> /\ \A d \in Cpus : d # c => local'[d] = local[d]
      BY <1>5 DEF TypeOK
    <3> QED BY <3>1, <2>4, SingletonFacts
  <2>7. \A u \in Tasks : u # t => where'[u] = where[u] /\ home'[u] = home[u]
    BY <1>5 DEF TypeOK
  <2>8. where'[t] = "local" /\ home'[t] = c
    BY <1>5, <2>4 DEF TypeOK
  <2>9. TypeOK'
    <3>1. dsq' \in [DsqIds -> Seq(Tasks)]
      BY <1>5, <2>5 DEF TypeOK
    <3>2. local' \in [Cpus -> Seq(Tasks)]
      BY <1>5, <2>6 DEF TypeOK
    <3>3. where' \in [Tasks -> {"asleep", "waking", "dsq", "local", "running"}]
      BY <1>5 DEF TypeOK
    <3>4. home' \in [Tasks -> Cpus]
      BY <1>5 DEF TypeOK
    <3> QED BY <1>1, <1>5, <3>1, <3>2, <3>3, <3>4 DEF TypeOK
  <2>10. PlacedOnce'
    <3>1. ASSUME NEW r \in DsqIds
          PROVE  /\ IsInjective(dsq'[r])
                 /\ ToSet(dsq'[r]) = {u \in Tasks : where'[u] = "dsq" /\ QueueOf(ctx'[u]) = r}
      <4>1. CASE r = q
        BY <4>1, <1>1, <1>3, <2>4, <2>5, <2>7, <2>8 DEF PlacedOnce
      <4>2. CASE r # q
        BY <4>2, <1>1, <2>4, <2>5, <2>7, <2>8 DEF PlacedOnce
      <4> QED BY <4>1, <4>2
    <3>2. ASSUME NEW d \in Cpus
          PROVE  /\ IsInjective(local'[d])
                 /\ ToSet(local'[d]) = {u \in Tasks : where'[u] = "local" /\ home'[u] = d}
      <4>1. CASE d = c
        <5>1. {u \in Tasks : where[u] = "local" /\ home[u] = c} = {}
          BY <1>1, EmptyFacts DEF PlacedOnce
        <5> QED BY <4>1, <5>1, <2>4, <2>6, <2>7, <2>8
      <4>2. CASE d # c
        BY <4>2, <2>4, <2>6, <2>7, <2>8 DEF PlacedOnce
      <4> QED BY <4>1, <4>2
    <3>3. ASSUME NEW d \in Cpus
          PROVE  {curr'[d]} \ {None} = {u \in Tasks : where'[u] = "running" /\ home'[u] = d}
      BY <1>1, <2>4, <2>7, <2>8 DEF PlacedOnce
    <3> QED BY <3>1, <3>2, <3>3 DEF PlacedOnce
  <2>11. WakeConsistent'
    BY <1>1, <2>1, <2>4, <2>7, <2>8 DEF WakeConsistent, NoVerdict
  <2>12. ClaimedCpuGetsTask'
    <3>1. \A u \in Tasks : where[u] = "waking" => where'[u] = "waking"
      BY <2>4, <2>7
    <3> QED BY <1>1, <1>5, <3>1 DEF ClaimedCpuGetsTask
  <2>13. SharedTaskAttended'
    <3> SUFFICES ASSUME NEW u \in Tasks, InSharedDsq(u)'
                 PROVE  /\ home'[u] \in allowed'[u]
                        /\ Attends(home[u], 2 * PrioOf(ctx[u]))'
      BY DEF SharedTaskAttended
    <3>1. u # t /\ ctx'[u] = ctx[u] /\ InSharedDsq(u) /\ home'[u] = home[u] /\ home[u] \in Cpus
      BY <1>1, <2>7, <2>8 DEF InSharedDsq, TypeOK
    <3>2. CASE home[u] = c
      BY <3>1, <3>2, <1>1, <2>6 DEF SharedTaskAttended, Attends
    <3>3. CASE home[u] # c
      BY <3>1, <3>3, <1>1, <1>5, <2>6 DEF SharedTaskAttended, Attends
    <3> QED BY <3>2, <3>3
  <2> QED BY <2>9, <2>10, <2>11, <2>12, <2>13
<1> QED BY <1>4, <1>5 DEF Dispatch

(* The walk ends without a task: the CPU keeps what it ran, or goes idle. *)
LEMMA NothingFoundStep ==
  ASSUME SchedInv, NEW c \in Cpus, NothingFound(c)
  PROVE  SchedInv'
<1> USE DEF SchedInv
<1>1. /\ walk[c] = 2 * PriorityNum /\ local[c] = <<>>
      /\ walk' = [walk EXCEPT ![c] = None]
      /\ idle' = IF curr[c] = None THEN idle \cup {c} ELSE idle
      /\ UNCHANGED <<ctx, update_map, allowed, home, where, verdict, slice, dsq,
                     local, curr, resched>>
  BY DEF NothingFound
<1>2. \A d \in Cpus : d # c => walk'[d] = walk[d]
  BY <1>1 DEF TypeOK
<1>3. walk'[c] = None /\ walk[c] # None
  BY <1>1, NoneAssumption, PrioAssumption DEF TypeOK
<1>4. TypeOK'
  <2>1. walk' \in [Cpus -> (0 .. 2 * PriorityNum) \cup {None}]
    BY <1>1 DEF TypeOK
  <2>2. idle' \subseteq Cpus
    BY <1>1 DEF TypeOK
  <2> QED BY <1>1, <2>1, <2>2 DEF TypeOK
<1>5. PlacedOnce' /\ WakeConsistent'
  BY <1>1 DEF PlacedOnce, WakeConsistent
<1>6. ClaimedCpuGetsTask'
  BY <1>1, <1>2 DEF ClaimedCpuGetsTask
<1>7. SharedTaskAttended'
  <2> SUFFICES ASSUME NEW u \in Tasks, InSharedDsq(u)
               PROVE  home[u] \in allowed[u] /\ Attends(home[u], 2 * PrioOf(ctx[u]))'
    BY <1>1 DEF SharedTaskAttended, InSharedDsq
  <2>1. 2 * PrioOf(ctx[u]) \in 0 .. 2 * PriorityNum - 2 /\ home[u] \in Cpus
    BY PrioOfType DEF TypeOK
  <2>2. home[u] \in allowed[u] /\ Attends(home[u], 2 * PrioOf(ctx[u]))
    BY DEF SharedTaskAttended
  <2>3. CASE home[u] = c
    <3>1. ~(walk[c] <= 2 * PrioOf(ctx[u]))
      BY <1>1, <2>1, PrioAssumption
    <3> QED BY <2>2, <2>3, <3>1, <1>1, <1>3 DEF Attends
  <2>4. CASE home[u] # c
    BY <2>1, <2>2, <2>4, <1>1, <1>2 DEF Attends
  <2> QED BY <2>2, <2>3, <2>4
<1> QED BY <1>4, <1>5, <1>6, <1>7

(* Userspace writes a setting: nothing moves. *)
LEMMA WriteSchedInfoStep ==
  ASSUME SchedInv, NEW t \in Tasks, NEW s \in Settings, WriteSchedInfo(t, s)
  PROVE  SchedInv'
BY DEF SchedInv, WriteSchedInfo, TypeOK, PlacedOnce, WakeConsistent,
       ClaimedCpuGetsTask, SharedTaskAttended, InSharedDsq, Attends

(* The CPU takes the head of its local DSQ; what it ran goes back into the  *)
(* DSQ of the context stopping left.                                        *)
LEMMA SwitchToStep ==
  ASSUME SchedInv, NEW c \in Cpus, SwitchTo(c)
  PROVE  SchedInv'
<1> USE DEF SchedInv
<1> DEFINE t == Head(local[c])
           prev == curr[c]
<1>1. /\ walk[c] # None /\ local[c] # <<>>
      /\ local' = [local EXCEPT ![c] = Tail(@)]
      /\ curr' = [curr EXCEPT ![c] = t]
      /\ idle' = idle \ {c}
      /\ walk' = [walk EXCEPT ![c] = None]
      /\ UNCHANGED <<allowed, home, verdict, resched>>
  BY DEF SwitchTo
<1>2. /\ t \in ToSet(local[c])
      /\ local'[c] \in Seq(Tasks) /\ IsInjective(local'[c])
      /\ ToSet(local'[c]) = ToSet(local[c]) \ {t}
      /\ \A d \in Cpus : d # c => local'[d] = local[d]
  <2>1. local[c] \in Seq(Tasks) /\ IsInjective(local[c]) /\ local'[c] = Tail(local[c])
    BY <1>1 DEF TypeOK, PlacedOnce
  <2> QED BY <1>1, <2>1, TailFacts DEF TypeOK
<1>3. t \in Tasks /\ where[t] = "local" /\ home[t] = c /\ t # None
  BY <1>2, NoneAssumption DEF PlacedOnce
<1>4. /\ \A d \in Cpus : d # c => walk'[d] = walk[d] /\ curr'[d] = curr[d]
      /\ walk'[c] = None /\ curr'[c] = t
  BY <1>1 DEF TypeOK
(* what becomes of the task that was running *)
<1>5. \/ /\ prev = None
         /\ where' = [where EXCEPT ![t] = "running"]
         /\ UNCHANGED <<ctx, update_map, slice, dsq>>
      \/ \E y \in Ctxs \cup {None} :
           /\ prev # None
           /\ where' = [where EXCEPT ![t] = "running", ![prev] = "dsq"]
           /\ ctx' = [ctx EXCEPT ![prev] = y]
           /\ update_map' \in [Tasks -> Settings \cup {None}]
           /\ slice' \in [Tasks -> Nat]
           /\ dsq' = [dsq EXCEPT ![QueueOf(y)] = Append(@, prev)]
  <2>1. CASE prev = None
    BY <2>1 DEF SwitchTo
  <2>2. CASE prev # None
    <3>1. PICK x \in Storage(prev) :
            /\ Stopping(prev, x)
            /\ dsq' = [dsq EXCEPT ![QueueOf(AfterStopping(prev, x))] = Append(@, prev)]
            /\ slice' = [slice EXCEPT ![prev] = SliceOf(AfterStopping(prev, x))]
      BY <2>2 DEF SwitchTo
    <3>2. prev \in Tasks
      BY <2>2 DEF TypeOK
    <3>3. /\ AfterStopping(prev, x) \in Ctxs \cup {None}
          /\ ctx' = [ctx EXCEPT ![prev] = AfterStopping(prev, x)]
          /\ update_map' \in [Tasks -> Settings \cup {None}]
      BY <3>1, <3>2, StoppingFacts
    <3>4. slice' \in [Tasks -> Nat]
      BY <3>1, <3>3, QueueOfType DEF TypeOK
    <3>5. where' = [where EXCEPT ![t] = "running", ![prev] = "dsq"]
      BY <2>2 DEF SwitchTo
    <3> QED BY <2>2, <3>1, <3>3, <3>4, <3>5
  <2> QED BY <2>1, <2>2
<1>6. ASSUME prev = None,
             where' = [where EXCEPT ![t] = "running"],
             UNCHANGED <<ctx, update_map, slice, dsq>>
      PROVE  TypeOK' /\ PlacedOnce' /\ WakeConsistent'
             /\ (\A u \in Tasks : InSharedDsq(u)' => InSharedDsq(u) /\ ctx'[u] = ctx[u])
  <2>1. \A u \in Tasks : u # t => where'[u] = where[u]
    BY <1>6 DEF TypeOK
  <2>2. where'[t] = "running"
    BY <1>3, <1>6 DEF TypeOK
  <2>3. TypeOK'
    BY <1>1, <1>2, <1>3, <1>6 DEF TypeOK
  <2>4. PlacedOnce'
    <3>1. ASSUME NEW q \in DsqIds
          PROVE  /\ IsInjective(dsq'[q])
                 /\ ToSet(dsq'[q]) = {u \in Tasks : where'[u] = "dsq" /\ QueueOf(ctx'[u]) = q}
      BY <1>3, <1>6, <2>1, <2>2 DEF PlacedOnce
    <3>2. ASSUME NEW d \in Cpus
          PROVE  /\ IsInjective(local'[d])
                 /\ ToSet(local'[d]) = {u \in Tasks : where'[u] = "local" /\ home'[u] = d}
      <4>1. CASE d = c
        BY <4>1, <1>1, <1>2, <1>3, <2>1, <2>2 DEF PlacedOnce
      <4>2. CASE d # c
        BY <4>2, <1>1, <1>2, <1>3, <2>1, <2>2 DEF PlacedOnce
      <4> QED BY <4>1, <4>2
    <3>3. ASSUME NEW d \in Cpus
          PROVE  {curr'[d]} \ {None} = {u \in Tasks : where'[u] = "running" /\ home'[u] = d}
      <4>1. {curr[d]} \ {None} = {u \in Tasks : where[u] = "running" /\ home[u] = d}
        BY DEF PlacedOnce
      <4>2. CASE d = c
        <5>1. {u \in Tasks : where[u] = "running" /\ home[u] = c} = {}
          BY <4>1, <4>2, <1>6
        <5> QED BY <4>2, <5>1, <1>1, <1>3, <1>4, <2>1, <2>2
      <4>3. CASE d # c
        BY <4>1, <4>3, <1>1, <1>3, <1>4, <2>1, <2>2
      <4> QED BY <4>2, <4>3
    <3> QED BY <3>1, <3>2, <3>3 DEF PlacedOnce
  <2>5. WakeConsistent'
    BY <1>1, <1>3, <1>6, <2>1, <2>2 DEF WakeConsistent
  <2>6. \A u \in Tasks : InSharedDsq(u)' => InSharedDsq(u) /\ ctx'[u] = ctx[u]
    BY <1>6, <2>1, <2>2 DEF InSharedDsq
  <2> QED BY <2>3, <2>4, <2>5, <2>6
<1>7. ASSUME NEW y \in Ctxs \cup {None},
             prev # None,
             where' = [where EXCEPT ![t] = "running", ![prev] = "dsq"],
             ctx' = [ctx EXCEPT ![prev] = y],
             update_map' \in [Tasks -> Settings \cup {None}],
             slice' \in [Tasks -> Nat],
             dsq' = [dsq EXCEPT ![QueueOf(y)] = Append(@, prev)]
      PROVE  TypeOK' /\ PlacedOnce' /\ WakeConsistent'
             /\ (\A u \in Tasks : InSharedDsq(u)'
                   => u = prev \/ (InSharedDsq(u) /\ ctx'[u] = ctx[u]))
  <2>1. /\ prev \in Tasks /\ where[prev] = "running" /\ home[prev] = c
        /\ \A q \in DsqIds : prev \notin ToSet(dsq[q])
        /\ \A d \in Cpus : prev \notin ToSet(local[d])
        /\ \A d \in Cpus : d # c => curr[d] # prev
    BY <1>7, RunningFacts
  <2>2. prev # t
    BY <1>3, <2>1
  <2>3. \A u \in Tasks : u # t /\ u # prev => where'[u] = where[u]
    BY <1>7 DEF TypeOK
  <2>4. /\ where'[t] = "running" /\ where'[prev] = "dsq" /\ ctx'[prev] = y
        /\ \A u \in Tasks : u # prev => ctx'[u] = ctx[u]
    BY <1>3, <1>7, <2>1, <2>2 DEF TypeOK
  <2>5. QueueOf(y) \in DsqIds
    BY QueueOfType
  <2>6. /\ dsq'[QueueOf(y)] \in Seq(Tasks) /\ IsInjective(dsq'[QueueOf(y)])
        /\ ToSet(dsq'[QueueOf(y)]) = ToSet(dsq[QueueOf(y)]) \cup {prev}
        /\ \A q \in DsqIds : q # QueueOf(y) => dsq'[q] = dsq[q]
    BY <1>7, <2>1, <2>5, AppendFacts DEF TypeOK, PlacedOnce
  <2>7. TypeOK'
    <3>1. dsq' \in [DsqIds -> Seq(Tasks)]
      BY <1>7, <2>6 DEF TypeOK
    <3>2. /\ ctx' \in [Tasks -> Ctxs \cup {None}]
          /\ where' \in [Tasks -> {"asleep", "waking", "dsq", "local", "running"}]
      BY <1>7 DEF TypeOK
    <3> QED BY <1>1, <1>2, <1>3, <1>7, <3>1, <3>2 DEF TypeOK
  <2>8. PlacedOnce'
    <3>1. ASSUME NEW q \in DsqIds
          PROVE  /\ IsInjective(dsq'[q])
                 /\ ToSet(dsq'[q]) = {u \in Tasks : where'[u] = "dsq" /\ QueueOf(ctx'[u]) = q}
      <4>1. CASE q = QueueOf(y)
        BY <4>1, <1>3, <2>1, <2>3, <2>4, <2>5, <2>6 DEF PlacedOnce
      <4>2. CASE q # QueueOf(y)
        BY <4>2, <1>3, <2>1, <2>3, <2>4, <2>6 DEF PlacedOnce
      <4> QED BY <4>1, <4>2
    <3>2. ASSUME NEW d \in Cpus
          PROVE  /\ IsInjective(local'[d])
                 /\ ToSet(local'[d]) = {u \in Tasks : where'[u] = "local" /\ home'[u] = d}
      <4>1. CASE d = c
        BY <4>1, <1>1, <1>2, <1>3, <2>1, <2>3, <2>4 DEF PlacedOnce
      <4>2. CASE d # c
        BY <4>2, <1>1, <1>2, <1>3, <2>1, <2>3, <2>4 DEF PlacedOnce
      <4> QED BY <4>1, <4>2
    <3>3. ASSUME NEW d \in Cpus
          PROVE  {curr'[d]} \ {None} = {u \in Tasks : where'[u] = "running" /\ home'[u] = d}
      <4>1. {curr[d]} \ {None} = {u \in Tasks : where[u] = "running" /\ home[u] = d}
        BY DEF PlacedOnce
      <4>2. CASE d = c
        <5>1. {u \in Tasks : where[u] = "running" /\ home[u] = c} = {prev}
          BY <4>1, <4>2, <1>7
        <5> QED BY <4>2, <5>1, <1>1, <1>3, <1>4, <2>2, <2>3, <2>4
      <4>3. CASE d # c
        BY <4>1, <4>3, <1>1, <1>3, <1>4, <2>1, <2>3, <2>4
      <4> QED BY <4>2, <4>3
    <3> QED BY <3>1, <3>2, <3>3 DEF PlacedOnce
  <2>9. WakeConsistent'
    BY <1>1, <1>3, <2>1, <2>3, <2>4 DEF WakeConsistent, NoVerdict
  <2>10. ASSUME NEW u \in Tasks, InSharedDsq(u)', u # prev
         PROVE  InSharedDsq(u) /\ ctx'[u] = ctx[u]
    <3>1. u # t
      BY <2>4, <2>10 DEF InSharedDsq
    <3>2. where'[u] = where[u] /\ ctx'[u] = ctx[u]
      BY <2>3, <2>4, <2>10, <3>1
    <3> QED BY <2>10, <3>2 DEF InSharedDsq
  <2> QED BY <2>7, <2>8, <2>9, <2>10
<1>8. TypeOK' /\ PlacedOnce' /\ WakeConsistent'
  BY <1>5, <1>6, <1>7
<1>9. \A u \in Tasks : InSharedDsq(u)' => home[u] = c \/ (InSharedDsq(u) /\ ctx'[u] = ctx[u])
  <2>1. prev # None => home[prev] = c
    BY RunningFacts
  <2> QED BY <2>1, <1>5, <1>6, <1>7
<1>10. ClaimedCpuGetsTask'
  <2>1. \A u \in Tasks : where[u] = "waking" => where'[u] = "waking"
    <3>1. prev # None => where[prev] = "running"
      BY RunningFacts
    <3> QED BY <3>1, <1>3, <1>5 DEF TypeOK
  <2> QED BY <1>1, <1>3, <1>4, <2>1 DEF ClaimedCpuGetsTask
<1>11. SharedTaskAttended'
  <2> SUFFICES ASSUME NEW u \in Tasks, InSharedDsq(u)'
               PROVE  /\ home'[u] \in allowed'[u]
                      /\ Attends(home[u], 2 * PrioOf(ctx[u]))'
    BY DEF SharedTaskAttended
  <2>1. home'[u] \in allowed'[u] /\ home'[u] = home[u] /\ home[u] \in Cpus
    BY <1>1, <1>8 DEF WakeConsistent, InSharedDsq, TypeOK
  <2>2. CASE home[u] = c
    BY <2>1, <2>2, <1>3, <1>4 DEF Attends
  <2>3. CASE home[u] # c
    BY <2>1, <2>3, <1>1, <1>2, <1>4, <1>9 DEF SharedTaskAttended, Attends
  <2> QED BY <2>1, <2>2, <2>3
<1> QED BY <1>8, <1>10, <1>11

(* sched_setaffinity on a sleeping task moves nothing. *)
LEMMA SetAffinityAsleepStep ==
  ASSUME SchedInv, NEW t \in Tasks, NEW a \in Affinities, SetAffinityAsleep(t, a)
  PROVE  SchedInv'
<1> USE DEF SchedInv
<1>1. /\ where[t] = "asleep"
      /\ \A u \in Tasks : u # t => allowed'[u] = allowed[u]
      /\ UNCHANGED <<ctx, update_map, home, where, verdict, slice, dsq, local, curr,
                     idle, resched, walk>>
  BY DEF SetAffinityAsleep, TypeOK
<1>2. TypeOK'
  BY DEF SetAffinityAsleep, TypeOK
<1>3. PlacedOnce' /\ ClaimedCpuGetsTask'
  BY <1>1 DEF PlacedOnce, ClaimedCpuGetsTask
<1>4. WakeConsistent'
  BY <1>1 DEF WakeConsistent
<1>5. SharedTaskAttended'
  BY <1>1 DEF SharedTaskAttended, InSharedDsq, Attends
<1> QED BY <1>2, <1>3, <1>4, <1>5

(* sched_setaffinity on a queued task takes it out and enqueues it again,   *)
(* on a run queue that may serve it and is told to look.                    *)
LEMMA SetAffinityQueuedStep ==
  ASSUME SchedInv, NEW t \in Tasks, NEW a \in Affinities, SetAffinityQueued(t, a)
  PROVE  SchedInv'
<1> USE DEF SchedInv
<1>1. /\ where[t] = "dsq" /\ allowed' = [allowed EXCEPT ![t] = a]
      /\ UNCHANGED <<update_map, where, verdict, local, curr, idle, walk>>
  BY DEF SetAffinityQueued
<1>2. PICK h \in a : /\ walk[h] = None
                     /\ home' = [home EXCEPT ![t] = h]
                     /\ resched' = IF curr[h] = None THEN resched \cup {h} ELSE resched
  BY DEF SetAffinityQueued, Kick
<1>3. h \in Cpus
  BY <1>2, AffinityAssumption
<1>4. PICK q \in DsqIds, x \in Storage(t) : \E i \in DOMAIN dsq[q] :
        /\ dsq[q][i] = t
        /\ LET out == [dsq EXCEPT ![q] = RemoveAt(@, i)]
           IN  dsq' = [out EXCEPT ![QueueOf(x)] = Append(@, t)]
        /\ ctx' = [ctx EXCEPT ![t] = x]
        /\ slice' = [slice EXCEPT ![t] = SliceOf(x)]
  BY DEF SetAffinityQueued
<1>5. PICK i \in DOMAIN dsq[q] :
        /\ dsq[q][i] = t
        /\ LET out == [dsq EXCEPT ![q] = RemoveAt(@, i)]
           IN  dsq' = [out EXCEPT ![QueueOf(x)] = Append(@, t)]
        /\ ctx' = [ctx EXCEPT ![t] = x]
        /\ slice' = [slice EXCEPT ![t] = SliceOf(x)]
  BY <1>4
<1>6. x \in Ctxs \cup {None} /\ QueueOf(x) = QueueOf(ctx[t])
  BY StorageFacts DEF TypeOK
<1>7. QueueOf(x) = q
  <2>1. t \in ToSet(dsq[q])
    BY <1>5 DEF ToSet
  <2> QED BY <2>1, <1>6 DEF PlacedOnce
<1>8. /\ dsq'[q] = Append(RemoveAt(dsq[q], i), t)
      /\ \A r \in DsqIds : r # q => dsq'[r] = dsq[r]
      /\ dsq' = [dsq EXCEPT ![q] = Append(RemoveAt(dsq[q], i), t)]
  BY <1>5, <1>7 DEF TypeOK
<1>9. /\ dsq'[q] \in Seq(Tasks) /\ IsInjective(dsq'[q])
      /\ ToSet(dsq'[q]) = ToSet(dsq[q])
  <2> DEFINE r == RemoveAt(dsq[q], i)
  <2>1. /\ r \in Seq(Tasks) /\ IsInjective(r) /\ ToSet(r) = ToSet(dsq[q]) \ {t}
        /\ t \in ToSet(dsq[q])
    <3>1. dsq[q] \in Seq(Tasks) /\ IsInjective(dsq[q])
      BY DEF TypeOK, PlacedOnce
    <3>2. r \in Seq(Tasks) /\ IsInjective(r) /\ ToSet(r) = ToSet(dsq[q]) \ {dsq[q][i]}
      BY <3>1, RemoveAtFacts
    <3>3. t \in ToSet(dsq[q])
      BY <1>5 DEF ToSet
    <3> QED BY <1>5, <3>2, <3>3
  <2> HIDE DEF r
  <2>2. Append(r, t) \in Seq(Tasks) /\ IsInjective(Append(r, t))
        /\ ToSet(Append(r, t)) = ToSet(r) \cup {t}
    BY <2>1, AppendFacts
  <2> QED BY <1>8, <2>1, <2>2 DEF r
<1>10. \A u \in Tasks : u # t => ctx'[u] = ctx[u] /\ home'[u] = home[u] /\ allowed'[u] = allowed[u]
  BY <1>1, <1>2, <1>5 DEF TypeOK
<1>11. ctx'[t] = x /\ home'[t] = h /\ allowed'[t] = a /\ verdict[t] = NoVerdict
  BY <1>1, <1>2, <1>5 DEF TypeOK, WakeConsistent
<1>12. TypeOK'
  <2>1. dsq' \in [DsqIds -> Seq(Tasks)]
    BY <1>8, <1>9 DEF TypeOK
  <2>2. ctx' \in [Tasks -> Ctxs \cup {None}] /\ slice' \in [Tasks -> Nat]
    BY <1>5, <1>6, QueueOfType DEF TypeOK
  <2>3. home' \in [Tasks -> Cpus] /\ allowed' \in [Tasks -> Affinities] /\ resched' \subseteq Cpus
    BY <1>1, <1>2, <1>3 DEF TypeOK
  <2> QED BY <1>1, <2>1, <2>2, <2>3 DEF TypeOK
<1>13. PlacedOnce'
  <2>1. ASSUME NEW r \in DsqIds
        PROVE  /\ IsInjective(dsq'[r])
               /\ ToSet(dsq'[r]) = {u \in Tasks : where'[u] = "dsq" /\ QueueOf(ctx'[u]) = r}
    <3>1. \A u \in Tasks : QueueOf(ctx'[u]) = QueueOf(ctx[u])
      BY <1>6, <1>10, <1>11
    <3>2. ToSet(dsq'[r]) = ToSet(dsq[r]) /\ IsInjective(dsq'[r])
      BY <1>8, <1>9 DEF PlacedOnce
    <3> QED BY <3>1, <3>2, <1>1 DEF PlacedOnce
  <2>2. ASSUME NEW d \in Cpus
        PROVE  /\ IsInjective(local'[d])
               /\ ToSet(local'[d]) = {u \in Tasks : where'[u] = "local" /\ home'[u] = d}
               /\ {curr'[d]} \ {None} = {u \in Tasks : where'[u] = "running" /\ home'[u] = d}
    BY <1>1, <1>10 DEF PlacedOnce
  <2> QED BY <2>1, <2>2 DEF PlacedOnce
<1>14. WakeConsistent'
  BY <1>1, <1>10, <1>11 DEF WakeConsistent, NoVerdict
<1>15. ClaimedCpuGetsTask'
  BY <1>1, <1>2 DEF ClaimedCpuGetsTask
<1>16. SharedTaskAttended'
  <2> SUFFICES ASSUME NEW u \in Tasks, InSharedDsq(u)'
               PROVE  /\ home'[u] \in allowed'[u]
                      /\ Attends(home[u], 2 * PrioOf(ctx[u]))'
    BY DEF SharedTaskAttended
  <2>1. CASE u = t
    BY <2>1, <1>1, <1>2, <1>11 DEF Attends
  <2>2. CASE u # t
    <3>1. InSharedDsq(u)
      BY <2>2, <1>1, <1>10 DEF InSharedDsq
    <3> QED BY <2>2, <3>1, <1>1, <1>2, <1>10 DEF SharedTaskAttended, Attends
  <2> QED BY <2>1, <2>2
<1> QED BY <1>12, <1>13, <1>14, <1>15, <1>16

-----------------------------------------------------------------------------
(* The theorems.                                                           *)

(* Nothing is queued or pending when the scheduler is loaded. *)
LEMMA InitInv == Init => SchedInv
<1> SUFFICES ASSUME Init PROVE SchedInv
  OBVIOUS
<1> USE DEF Init
<1>1. TypeOK
  <2>1. <<>> \in Seq(Tasks)
    OBVIOUS
  <2>2. NoVerdict \in [cpu : Cpus \cup {None}, q : DsqIds \cup {None}]
    BY DEF NoVerdict
  <2>3. DefaultSlice \in Nat
    BY SettingAssumption
  <2>4. dsq \in [DsqIds -> Seq(Tasks)] /\ local \in [Cpus -> Seq(Tasks)]
    BY <2>1
  <2>5. /\ ctx \in [Tasks -> Ctxs \cup {None}]
        /\ update_map \in [Tasks -> Settings \cup {None}]
        /\ verdict \in [Tasks -> [cpu : Cpus \cup {None}, q : DsqIds \cup {None}]]
        /\ slice \in [Tasks -> Nat]
        /\ curr \in [Cpus -> Tasks \cup {None}]
        /\ walk \in [Cpus -> (0 .. 2 * PriorityNum) \cup {None}]
    BY <2>2, <2>3
  <2> QED BY <2>4, <2>5 DEF TypeOK
<1>2. PlacedOnce
  <2>1. ToSet(<<>>) = {} /\ IsInjective(<<>>)
    BY EmptyFacts
  <2> QED BY <2>1 DEF PlacedOnce
<1>3. WakeConsistent /\ ClaimedCpuGetsTask /\ SharedTaskAttended
  BY DEF WakeConsistent, ClaimedCpuGetsTask, SharedTaskAttended, InSharedDsq, NoVerdict
<1> QED BY <1>1, <1>2, <1>3 DEF SchedInv

(* Every step of the kernel, the scheduler or userspace keeps it. *)
LEMMA NextInv == SchedInv /\ [Next]_vars => SchedInv'
<1> SUFFICES ASSUME SchedInv, [Next]_vars PROVE SchedInv'
  OBVIOUS
<1>1. ASSUME NEW t \in Tasks, SelectCpu(t) \/ WakeBound(t) \/ Wake(t)
      PROVE  SchedInv'
  BY <1>1, SelectCpuStep, WakeBoundStep, WakeStep
<1>2. ASSUME NEW c \in Cpus, \/ Block(c) \/ Preempt(c) \/ SliceEnd(c) \/ Resched(c)
                             \/ Dispatch(c) \/ SwitchTo(c) \/ NothingFound(c)
      PROVE  SchedInv'
  BY <1>2, BlockStep, PreemptStep, EnterScheduleStep, DispatchStep, SwitchToStep,
     NothingFoundStep
<1>3. ASSUME NEW t \in Tasks, NEW s \in Settings, WriteSchedInfo(t, s)
      PROVE  SchedInv'
  BY <1>3, WriteSchedInfoStep
<1>4. ASSUME NEW t \in Tasks, NEW a \in Affinities, SetAffinity(t, a)
      PROVE  SchedInv'
  BY <1>4, SetAffinityAsleepStep, SetAffinityQueuedStep DEF SetAffinity
<1>5. CASE UNCHANGED vars
  BY <1>5 DEF vars, SchedInv, TypeOK, PlacedOnce, WakeConsistent, ClaimedCpuGetsTask,
          SharedTaskAttended, InSharedDsq, Attends
<1> QED BY <1>1, <1>2, <1>3, <1>4, <1>5 DEF Next, KernelNext

(* The inductive invariant holds of every run of the scheduler. *)
THEOREM SchedInvariant == Spec => []SchedInv
BY InitInv, NextInv, PTL DEF Spec

(* Type correctness, with every DSQ id in the range teddy_init creates. *)
THEOREM TypeCorrect == Spec => []TypeOK
<1>1. SchedInv => TypeOK
  BY DEF SchedInv
<1> QED BY <1>1, SchedInvariant, PTL

(* A task is never queued twice, never lost, and waits in the DSQ of its    *)
(* context (select_cpu, enqueue, dispatch, stopping).                       *)
THEOREM TasksPlacedOnce == Spec => []PlacedOnce
<1>1. SchedInv => PlacedOnce
  BY DEF SchedInv
<1> QED BY <1>1, SchedInvariant, PTL

(* No task is sent to a CPU outside its affinity. *)
THEOREM AffinityAlwaysRespected == Spec => []AffinityRespected
<1>1. SchedInv => AffinityRespected
  BY NoneAssumption DEF SchedInv, WakeConsistent, AffinityRespected, NoVerdict
<1> QED BY <1>1, SchedInvariant, PTL

(* A CPU taken out of the idle mask by select_cpu is never forgotten. *)
THEOREM ClaimedCpusServed == Spec => []ClaimedCpuGetsTask
<1>1. SchedInv => ClaimedCpuGetsTask
  BY DEF SchedInv
<1> QED BY <1>1, SchedInvariant, PTL

(* A task in a shared DSQ is never stranded behind a parked CPU. *)
THEOREM SharedTasksAttended == Spec => []SharedTaskAttended
<1>1. SchedInv => SharedTaskAttended
  BY DEF SchedInv
<1> QED BY <1>1, SchedInvariant, PTL

(* One step sends a task to a CPU of its kind only. *)
LEMMA PlacementStep ==
  ASSUME SchedInv, [Next]_vars, NEW t \in Tasks,
         where[t] \in {"waking", "dsq"}, where'[t] = "local", ctx[t] # None
  PROVE  ctx[t].kind \in {0, KindOf[home'[t]]}
<1> USE DEF SchedInv
<1>1. ASSUME NEW u \in Tasks, Wake(u)
      PROVE  ctx[t].kind \in {0, KindOf[home'[t]]}
  <2>1. t = u /\ verdict[u].cpu # None /\ home' = home
    BY <1>1 DEF Wake, WakeLocal, WakeDsq, WakeEnqueue, Enqueue, InsertDsq, TypeOK
  <2> QED BY <2>1 DEF WakeConsistent
<1>2. ASSUME NEW c \in Cpus, Dispatch(c)
      PROVE  ctx[t].kind \in {0, KindOf[home'[t]]}
  <2> DEFINE w == walk[c]
             q == WalkDsq(c, w)
  <2>1. w \in 0 .. 2 * PriorityNum - 1
    BY <1>2, PrioAssumption DEF Dispatch, TypeOK
  <2>2. PICK i \in Takable(c, q) : /\ where' = [where EXCEPT ![dsq[q][i]] = "local"]
                                   /\ home' = [home EXCEPT ![dsq[q][i]] = c]
    BY <1>2 DEF Dispatch
  <2>3. t = dsq[q][i]
    BY <2>2 DEF TypeOK
  <2>4. t \in ToSet(dsq[q]) /\ home'[t] = c
    BY <2>2, <2>3 DEF Takable, ToSet, TypeOK
  <2>5. QueueOf(ctx[t]) = q
    BY <2>1, <2>4, WalkDsqType DEF PlacedOnce
  <2>6. PICK k \in {0, KindOf[c]}, p \in Prios : k \in Kinds /\ q = DsqId(p, k)
    BY <2>1, WalkDsqType
  <2>7. ctx[t].prio \in Prios /\ ctx[t].kind \in Kinds
    BY DEF TypeOK, Ctxs
  <2>8. DsqId(ctx[t].prio, ctx[t].kind) = DsqId(p, k)
    BY <2>5, <2>6 DEF QueueOf
  <2>9. ctx[t].kind = k
    <3> DEFINE r == ctx[t].prio
               j == ctx[t].kind
    <3>1. r \in Prios /\ j \in Kinds /\ k \in Kinds /\ p \in Prios /\ DsqId(r, j) = DsqId(p, k)
      BY <2>6, <2>7, <2>8
    <3> HIDE DEF r, j
    <3>2. j = k
      BY ONLY <3>1, DsqIdInjective
    <3> QED BY <3>2 DEF j
  <2> QED BY <2>4, <2>6, <2>9
<1>3. ASSUME NEW c \in Cpus, Preempt(c) \/ SwitchTo(c) \/ Block(c)
      PROVE  FALSE
  <2>1. curr[c] # None => where[curr[c]] = "running"
    BY RunningFacts
  <2> QED BY <2>1, <1>3 DEF Preempt, SwitchTo, Block, TypeOK
<1>4. \/ UNCHANGED where
      \/ \E u \in Tasks : where' = [where EXCEPT ![u] = "waking"] \/ Wake(u)
      \/ \E c \in Cpus : Dispatch(c) \/ Preempt(c) \/ SwitchTo(c) \/ Block(c)
  BY DEF Next, KernelNext, vars, SelectCpu, WakeBound, SliceEnd, Resched, NothingFound,
         WriteSchedInfo, SetAffinity, SetAffinityAsleep, SetAffinityQueued
<1>5. ~(\E u \in Tasks : where' = [where EXCEPT ![u] = "waking"]) /\ where' # where
  BY DEF TypeOK
<1> QED BY <1>1, <1>2, <1>3, <1>4, <1>5

(* Neither select_cpu nor dispatch sends a task to a CPU of another kind.   *)
THEOREM PlacementAlwaysFits == Spec => PlacementFits
<1>1. SchedInv /\ [Next]_vars =>
        [\A t \in Tasks :
           where[t] \in {"waking", "dsq"} /\ where'[t] = "local" /\ ctx[t] # None
             => ctx[t].kind \in {0, KindOf[home'[t]]}]_vars
  BY PlacementStep
<1> QED BY <1>1, SchedInvariant, PTL DEF Spec, PlacementFits

(* What a step does to a context: nothing, or the defaults are created on   *)
(* first use, and stopping may apply a pending setting.                     *)
LEMMA ContextMoves ==
  ASSUME SchedInv, [Next]_vars, NEW u \in Tasks
  PROVE  \/ ctx'[u] = ctx[u]
         \/ \E x \in Storage(u) : ctx'[u] = x \/ ctx'[u] = AfterStopping(u, x)
<1>1. \A c \in Cpus : curr[c] # None => curr[c] \in Tasks
  BY DEF SchedInv, TypeOK
<1> DEFINE Touched ==
      \/ ctx' = ctx
      \/ \E t \in Tasks : \E x \in Storage(t) : ctx' = [ctx EXCEPT ![t] = x]
      \/ \E t \in Tasks : \E x \in Storage(t) : ctx' = [ctx EXCEPT ![t] = AfterStopping(t, x)]
<1>2. ASSUME NEW t \in Tasks, SelectCpu(t) PROVE Touched
  BY <1>2 DEF SelectCpu
<1>3. ASSUME NEW t \in Tasks, Wake(t) PROVE Touched
  BY <1>3 DEF Wake, WakeLocal, WakeDsq, WakeEnqueue
<1>4. ASSUME NEW c \in Cpus, Block(c) \/ Preempt(c) PROVE Touched
  BY <1>1, <1>4 DEF Block, Preempt, Stopping
<1>5. ASSUME NEW c \in Cpus, SwitchTo(c) PROVE Touched
  BY <1>1, <1>5 DEF SwitchTo, Stopping
<1>6. ASSUME NEW t \in Tasks, NEW a \in Affinities, SetAffinity(t, a) PROVE Touched
  BY <1>6 DEF SetAffinity, SetAffinityAsleep, SetAffinityQueued
<1>7. Touched
  BY <1>2, <1>3, <1>4, <1>5, <1>6
  DEF Next, KernelNext, vars, WakeBound, SliceEnd, Resched, Dispatch, NothingFound,
      WriteSchedInfo
<1>8. ctx \in [Tasks -> Ctxs \cup {None}]
  BY DEF SchedInv, TypeOK
<1> QED BY <1>7, <1>8

(* A task is bound to some CPUs of the machine. *)
LEMMA AllowedFacts ==
  ASSUME TypeOK, NEW t \in Tasks
  PROVE  allowed[t] \in SUBSET Cpus /\ allowed[t] # {}
<1>1. allowed[t] \in Affinities
  BY DEF TypeOK
<1>2. \A a \in Affinities : a \in SUBSET Cpus /\ a # {}
  BY AffinityAssumption
<1> QED BY <1>1, <1>2

(* A kind that stopping applies has a CPU the task may use. *)
LEMMA AppliedFits ==
  ASSUME SchedInv, NEW t \in Tasks, NEW x \in Storage(t), ~Stranded(t),
         AfterStopping(t, x) # None
  PROVE  \E c \in allowed[t] : AfterStopping(t, x).kind \in {0, KindOf[c]}
<1>1. allowed[t] \in SUBSET Cpus /\ allowed[t] # {} /\ update_map[t] \in Settings \cup {None}
  BY AllowedFacts DEF SchedInv, TypeOK
<1>2. ASSUME x # None PROVE \E c \in allowed[t] : x.kind \in {0, KindOf[c]}
  BY <1>1, <1>2 DEF Storage, DefaultCtx, Stranded
<1>3. CASE x # None /\ update_map[t] # None
  <2> DEFINE s == update_map[t]
  <2>1. AfterStopping(t, x).kind =
          IF Cardinality(allowed[t]) = Cardinality(Cpus) THEN s.kind ELSE x.kind
    BY <1>3 DEF AfterStopping, Applied
  <2>2. Cardinality(allowed[t]) = Cardinality(Cpus) => allowed[t] = Cpus
    BY <1>1, FS_Subset, CpusAssumption
  <2>3. s.kind \in Kinds
    BY <1>1, <1>3, SettingAssumption DEF Ctxs
  <2>4. \E c \in Cpus : s.kind \in {0, KindOf[c]}
    <3>1. CASE s.kind = 0
      BY <1>1, <3>1
    <3>2. CASE s.kind # 0
      <4>1. s.kind \in 1 .. KindNum
        BY <2>3, <3>2, TopologyAssumption DEF Kinds
      <4> HIDE DEF s
      <4> QED BY <4>1, TopologyAssumption
    <3> QED BY <3>1, <3>2
  <2> QED BY <1>2, <1>3, <2>1, <2>2, <2>4
<1>4. CASE ~(x # None /\ update_map[t] # None)
  BY <1>2, <1>4 DEF AfterStopping
<1> QED BY <1>3, <1>4

(* No setting strands a task whose affinity stays as it is. *)
THEOREM SettingsNeverStrand == Spec => StrandedByAffinityOnly
<1>1. SchedInv /\ [Next]_vars =>
        [\A t \in Tasks : Stranded(t)' /\ ~Stranded(t) => allowed'[t] # allowed[t]]_vars
  <2> SUFFICES ASSUME SchedInv, Next, NEW t \in Tasks, ~Stranded(t), Stranded(t)',
                      allowed'[t] = allowed[t]
               PROVE  FALSE
    OBVIOUS
  <2>1. ctx'[t] # None /\ \A c \in allowed[t] : ctx'[t].kind \notin {0, KindOf[c]}
    BY DEF Stranded
  <2>2. CASE ctx'[t] = ctx[t]
    BY <2>1, <2>2 DEF Stranded
  <2>3. ASSUME NEW x \in Storage(t), ctx'[t] = x
        PROVE  FALSE
    <3>1. allowed[t] # {}
      BY AllowedFacts DEF SchedInv
    <3> QED BY <2>1, <2>3, <3>1 DEF Storage, DefaultCtx, Stranded
  <2>4. ASSUME NEW x \in Storage(t), ctx'[t] = AfterStopping(t, x)
        PROVE  FALSE
    BY <2>1, <2>4, AppliedFits
  <2> QED BY <2>2, <2>3, <2>4, ContextMoves
<1> QED BY <1>1, SchedInvariant, PTL DEF Spec, StrandedByAffinityOnly

-----------------------------------------------------------------------------
(* Affinities that never change: the guard of teddy_stopping on cpu_kind is *)
(* enough.                                                                  *)

(* A task has a kind only if it may use every CPU. *)
KindsUnbound ==
  \A t \in Tasks : ctx[t] # None /\ ctx[t].kind # 0 => allowed[t] = Cpus

(* Only stopping gives a task a kind, and only to an unbound task. *)
LEMMA KindsUnboundStep ==
  ASSUME SchedInv, KindsUnbound, [KernelNext]_vars
  PROVE  KindsUnbound'
<1>1. ASSUME NEW t \in Tasks, NEW x \in Storage(t), x # None
      PROVE  x.kind # 0 => allowed[t] = Cpus
  BY <1>1 DEF Storage, DefaultCtx, KindsUnbound
<1>2. ASSUME NEW t \in Tasks, NEW x \in Storage(t), AfterStopping(t, x) # None
      PROVE  AfterStopping(t, x).kind # 0 => allowed[t] = Cpus
  <2>1. CASE x # None /\ update_map[t] # None
    <3>1. AfterStopping(t, x).kind =
            IF Cardinality(allowed[t]) = Cardinality(Cpus) THEN update_map[t].kind ELSE x.kind
      BY <2>1 DEF AfterStopping, Applied
    <3>2. Cardinality(allowed[t]) = Cardinality(Cpus) => allowed[t] = Cpus
      <4>1. allowed[t] \in SUBSET Cpus
        BY AffinityAssumption DEF SchedInv, TypeOK
      <4> QED BY <4>1, FS_Subset, CpusAssumption
    <3> QED BY <2>1, <3>1, <3>2, <1>1
  <2>2. CASE ~(x # None /\ update_map[t] # None)
    BY <2>2, <1>1, <1>2 DEF AfterStopping
  <2> QED BY <2>1, <2>2
<1>3. allowed' = allowed
  BY DEF KernelNext, vars, SelectCpu, WakeBound, Wake, Block, Preempt, SliceEnd, Resched,
         Dispatch, SwitchTo, NothingFound, WriteSchedInfo
<1> SUFFICES ASSUME NEW u \in Tasks, ctx'[u] # None, ctx'[u].kind # 0
             PROVE  allowed[u] = Cpus
  BY <1>3 DEF KindsUnbound
<1>4. \/ ctx'[u] = ctx[u]
      \/ \E x \in Storage(u) : ctx'[u] = x \/ ctx'[u] = AfterStopping(u, x)
  BY ContextMoves DEF Next
<1> QED BY <1>1, <1>2, <1>4 DEF KindsUnbound

(* While affinities stay as they were, every queued task waits in a DSQ     *)
(* that some CPU it may use looks at.                                       *)
THEOREM ServableWhileUnchanged == StaticSpec => []Servable
<1>1. Init => KindsUnbound
  BY DEF Init, KindsUnbound
<1>2. [KernelNext]_vars => [Next]_vars
  BY DEF Next
<1>3. SchedInv /\ KindsUnbound => Servable
  <2> SUFFICES ASSUME SchedInv, KindsUnbound, NEW t \in Tasks, ctx[t] # None
               PROVE  \E c \in allowed[t] : ctx[t].kind \in {0, KindOf[c]}
    BY DEF Servable, Stranded
  <2>1. ctx[t].kind \in Kinds /\ allowed[t] # {}
    <3>1. ctx[t] \in Ctxs /\ allowed[t] \in Affinities
      BY DEF SchedInv, TypeOK
    <3> QED BY <3>1, AffinityAssumption DEF Ctxs
  <2>2. CASE ctx[t].kind = 0
    BY <2>1, <2>2
  <2>3. CASE ctx[t].kind # 0
    <3>1. ctx[t].kind \in 1 .. KindNum /\ allowed[t] = Cpus
      BY <2>1, <2>3, TopologyAssumption DEF Kinds, KindsUnbound
    <3> QED BY <3>1, TopologyAssumption
  <2> QED BY <2>2, <2>3
<1> QED BY <1>1, <1>2, <1>3, InitInv, NextInv, KindsUnboundStep, PTL DEF StaticSpec

-----------------------------------------------------------------------------
(* Shared slots only: no setting names a kind.                             *)

NoKindSettings == \A s \in Settings : s.kind = 0

SharedInv ==
  /\ \A t \in Tasks : ctx[t] # None => ctx[t].kind = 0
  /\ \A c \in Cpus : local[c] # <<>> => curr[c] # None \/ walk[c] # None \/ c \in resched

(* Contexts stay shared, and a CPU with local work is active or resched. *)
LEMMA SharedInvStep ==
  ASSUME NoKindSettings, SchedInv, SharedInv, [Next]_vars
  PROVE  SharedInv'
<1>1. ASSUME NEW t \in Tasks, NEW x \in Storage(t), x # None
      PROVE  x.kind = 0
  BY <1>1 DEF Storage, DefaultCtx, SharedInv
<1>2. ASSUME NEW t \in Tasks, NEW x \in Storage(t), AfterStopping(t, x) # None
      PROVE  AfterStopping(t, x).kind = 0
  BY <1>1, <1>2 DEF AfterStopping, Applied, NoKindSettings, SchedInv, TypeOK
<1>3. \A t \in Tasks : ctx'[t] # None => ctx'[t].kind = 0
  <2> SUFFICES ASSUME NEW u \in Tasks, ctx'[u] # None
               PROVE  ctx'[u].kind = 0
    OBVIOUS
  <2>1. \/ ctx'[u] = ctx[u]
        \/ \E x \in Storage(u) : ctx'[u] = x \/ ctx'[u] = AfterStopping(u, x)
    BY ContextMoves
  <2> QED BY <1>1, <1>2, <2>1 DEF SharedInv
<1>4. \A c \in Cpus : local'[c] # <<>> => curr'[c] # None \/ walk'[c] # None \/ c \in resched'
  <2> DEFINE Active(c) == curr[c] # None \/ walk[c] # None \/ c \in resched
  <2>1. ASSUME NEW t \in Tasks, Wake(t), NEW c \in Cpus, local'[c] # <<>>
        PROVE  Active(c)'
    <3>1. /\ resched' = IF curr[home[t]] = None THEN resched \cup {home[t]} ELSE resched
          /\ curr' = curr /\ walk' = walk
      BY <2>1 DEF Wake, Kick
    <3>2. CASE c = home[t]
      BY <3>1, <3>2
    <3>3. CASE c # home[t]
      <4>1. local'[c] = local[c]
        BY <2>1, <3>3 DEF Wake, WakeLocal, WakeDsq, WakeEnqueue, WakeConsistent, SchedInv, TypeOK
      <4> QED BY <2>1, <3>1, <4>1 DEF SharedInv
    <3> QED BY <3>2, <3>3
  <2>2. ASSUME NEW d \in Cpus, Block(d) \/ Preempt(d) \/ SliceEnd(d) \/ Resched(d),
               NEW c \in Cpus, local'[c] # <<>>
        PROVE  Active(c)'
    <3>1. walk' = [walk EXCEPT ![d] = 0] /\ 0 # None
      BY <2>2, NoneAssumption DEF Block, Preempt, SliceEnd, Resched
    <3>2. CASE c = d
      BY <3>1, <3>2 DEF SchedInv, TypeOK
    <3>3. CASE c # d
      <4>1. local'[c] = local[c] /\ curr'[c] = curr[c] /\ walk'[c] = walk[c]
            /\ (c \in resched => c \in resched')
        BY <2>2, <3>3 DEF Block, Preempt, SliceEnd, Resched, SchedInv, TypeOK
      <4> QED BY <2>2, <4>1 DEF SharedInv
    <3> QED BY <3>2, <3>3
  <2>3. ASSUME NEW d \in Cpus, Dispatch(d), NEW c \in Cpus, local'[c] # <<>>
        PROVE  Active(c)'
    <3>1. CASE c = d
      <4>1. walk'[d] # None
        BY <2>3, NoneAssumption, PrioAssumption DEF Dispatch, SchedInv, TypeOK
      <4> QED BY <3>1, <4>1
    <3>2. CASE c # d
      <4>1. local'[c] = local[c] /\ curr'[c] = curr[c] /\ walk'[c] = walk[c] /\ resched' = resched
        BY <2>3, <3>2 DEF Dispatch, SchedInv, TypeOK
      <4> QED BY <2>3, <4>1 DEF SharedInv
    <3> QED BY <3>1, <3>2
  <2>4. ASSUME NEW d \in Cpus, SwitchTo(d) \/ NothingFound(d), NEW c \in Cpus, local'[c] # <<>>
        PROVE  Active(c)'
    <3>1. CASE c = d
      <4>1. SwitchTo(d)
        BY <2>4, <3>1 DEF NothingFound
      <4>2. curr' = [curr EXCEPT ![d] = Head(local[d])] /\ local[d] # <<>>
        BY <4>1 DEF SwitchTo
      <4>3. Head(local[d]) # None
        BY <4>2, TailFacts, NoneAssumption DEF SchedInv, TypeOK
      <4> QED BY <3>1, <4>2, <4>3 DEF SchedInv, TypeOK
    <3>2. CASE c # d
      <4>1. local'[c] = local[c] /\ curr'[c] = curr[c] /\ walk'[c] = walk[c] /\ resched' = resched
        BY <2>4, <3>2 DEF SwitchTo, NothingFound, SchedInv, TypeOK
      <4> QED BY <2>4, <4>1 DEF SharedInv
    <3> QED BY <3>1, <3>2
  <2>5. ASSUME NEW t \in Tasks, NEW a \in Affinities, SetAffinity(t, a)
        PROVE  local' = local /\ curr' = curr /\ walk' = walk /\ resched \subseteq resched'
    BY <2>5 DEF SetAffinity, SetAffinityAsleep, SetAffinityQueued, Kick
  <2>6. \/ local' = local /\ curr' = curr /\ walk' = walk /\ resched \subseteq resched'
        \/ \E t \in Tasks : Wake(t)
        \/ \E d \in Cpus : \/ Block(d) \/ Preempt(d) \/ SliceEnd(d) \/ Resched(d)
                           \/ Dispatch(d) \/ SwitchTo(d) \/ NothingFound(d)
    BY <2>5 DEF Next, KernelNext, vars, SelectCpu, WakeBound, WriteSchedInfo
  <2>7. CASE local' = local /\ curr' = curr /\ walk' = walk /\ resched \subseteq resched'
    BY <2>7 DEF SharedInv
  <2> QED BY <2>1, <2>2, <2>3, <2>4, <2>6, <2>7
<1> QED BY <1>3, <1>4 DEF SharedInv

(* With settings that name no kind, no task waits on an idle machine.       *)
THEOREM SharedNeverStalls == NoKindSettings => (Spec => []NoStallWithoutHog)
<1> SUFFICES ASSUME NoKindSettings PROVE Spec => []NoStallWithoutHog
  OBVIOUS
<1>1. Init => SharedInv
  BY DEF Init, SharedInv
<1>2. SchedInv /\ SharedInv => NoStallWithoutHog
  <2> SUFFICES ASSUME SchedInv, SharedInv, NEW t \in Tasks, where[t] = "dsq"
               PROVE  \E c \in Cpus : curr[c] # None \/ walk[c] # None \/ c \in resched
    BY DEF NoStallWithoutHog
  <2>1. home[t] \in Cpus /\ Attends(home[t], 2 * PrioOf(ctx[t]))
    BY DEF SchedInv, TypeOK, SharedInv, SharedTaskAttended, InSharedDsq
  <2> QED BY <2>1 DEF Attends, SharedInv
<1>3. SharedInv /\ SchedInv /\ [Next]_vars => SharedInv'
  BY SharedInvStep
<1> QED BY <1>1, <1>2, <1>3, SchedInvariant, PTL DEF Spec

-----------------------------------------------------------------------------
(* The order of the picks (PriorityOrder). *)

(* The step of the walk that finds a task the CPU serves, and the DSQ it    *)
(* looks at then.                                                           *)
LEMMA SlotFacts ==
  ASSUME NEW c \in Cpus, NEW x \in Ctxs \cup {None}
  PROVE  /\ SlotOf(x) \in 0 .. 2 * PriorityNum - 1
         /\ x = None \/ x.kind \in {0, KindOf[c]} => WalkDsq(c, SlotOf(x)) = QueueOf(x)
<1> DEFINE p == PrioOf(x)
           b == IF x = None \/ x.kind = 0 THEN 0 ELSE 1
<1>1. p \in Nat /\ p <= PriorityNum - 1 /\ b \in {0, 1} /\ SlotOf(x) = 2 * p + b
  BY PrioOfType, PrioAssumption DEF Prios, SlotOf
<1>2. /\ 2 * p + b \in 0 .. 2 * PriorityNum - 1
      /\ (2 * p + b) \div 2 = p /\ (2 * p + b) % 2 = b
  <2> HIDE DEF p, b
  <2> QED BY <1>1, PrioAssumption
<1>3. WalkDsq(c, SlotOf(x)) = DsqId(p, IF b = 0 THEN 0 ELSE KindOf[c])
  BY <1>1, <1>2 DEF WalkDsq
<1>4. ASSUME x = None \/ x.kind \in {0, KindOf[c]}
      PROVE  QueueOf(x) = DsqId(p, IF b = 0 THEN 0 ELSE KindOf[c])
  BY <1>4 DEF QueueOf, PrioOf
<1> QED BY <1>1, <1>2, <1>3, <1>4

(* While a task waits in a DSQ, its context only changes when its affinity  *)
(* does: stopping applies settings to running tasks alone.                  *)
LEMMA QueuedKeepsCtx ==
  ASSUME SchedInv, Next, NEW u \in Tasks, where[u] = "dsq"
  PROVE  ctx'[u] = ctx[u] \/ allowed'[u] # allowed[u]
<1> USE DEF SchedInv
<1>1. ASSUME NEW t \in Tasks, SelectCpu(t) \/ Wake(t)
      PROVE  ctx'[u] = ctx[u]
  <2>1. t # u
    BY <1>1 DEF SelectCpu, Wake
  <2>2. ctx' = ctx \/ \E x \in Storage(t) : ctx' = [ctx EXCEPT ![t] = x]
    BY <1>1 DEF SelectCpu, Wake, WakeLocal, WakeDsq, WakeEnqueue
  <2> QED BY <2>1, <2>2 DEF TypeOK
<1>2. ASSUME NEW c \in Cpus, Block(c) \/ Preempt(c) \/ SwitchTo(c)
      PROVE  ctx'[u] = ctx[u]
  <2>1. CASE curr[c] # None
    <3>1. curr[c] \in Tasks /\ curr[c] # u
      BY <2>1, RunningFacts
    <3>2. ctx' = ctx \/ \E x \in Storage(curr[c]) : Stopping(curr[c], x)
      BY <1>2 DEF Block, Preempt, SwitchTo
    <3> QED BY <3>1, <3>2, StoppingFacts
  <2>2. CASE curr[c] = None
    BY <1>2, <2>2 DEF Block, Preempt, SwitchTo
  <2> QED BY <2>1, <2>2
<1>3. ASSUME NEW t \in Tasks, NEW a \in Affinities, SetAffinity(t, a)
      PROVE  ctx'[u] = ctx[u] \/ allowed'[u] # allowed[u]
  <2>1. allowed' = [allowed EXCEPT ![t] = a] /\ a # allowed[t]
    BY <1>3 DEF SetAffinity, SetAffinityAsleep, SetAffinityQueued
  <2>2. ctx' = ctx \/ \E x \in Storage(t) : ctx' = [ctx EXCEPT ![t] = x]
    BY <1>3 DEF SetAffinity, SetAffinityAsleep, SetAffinityQueued
  <2> QED BY <2>1, <2>2 DEF TypeOK
<1>4. \/ ctx' = ctx
      \/ \E t \in Tasks : SelectCpu(t) \/ Wake(t)
      \/ \E c \in Cpus : Block(c) \/ Preempt(c) \/ SwitchTo(c)
      \/ \E t \in Tasks, a \in Affinities : SetAffinity(t, a)
  BY DEF Next, KernelNext, WakeBound, SliceEnd, Resched, Dispatch, NothingFound,
         WriteSchedInfo
<1> QED BY <1>1, <1>2, <1>3, <1>4

(* How a step moves the walk of one CPU: it enters schedule(), leaves it,   *)
(* or passes one DSQ that has nothing for it.                               *)
LEMMA WalkMoves ==
  ASSUME SchedInv, Next, NEW c \in Cpus
  PROVE  \/ walk'[c] = walk[c]
         \/ walk[c] = None /\ walk'[c] = 0
         \/ walk'[c] = None
         \/ /\ walk[c] \in 0 .. 2 * PriorityNum - 1
            /\ Takable(c, WalkDsq(c, walk[c])) = {}
            /\ walk'[c] = walk[c] + 1
<1> USE DEF SchedInv
<1>1. walk \in [Cpus -> (0 .. 2 * PriorityNum) \cup {None}]
  BY DEF TypeOK
<1>2. ASSUME NEW d \in Cpus, Block(d) \/ Preempt(d) \/ SliceEnd(d) \/ Resched(d)
      PROVE  walk[d] = None /\ walk' = [walk EXCEPT ![d] = 0]
  BY <1>2 DEF Block, Preempt, SliceEnd, Resched
<1>3. ASSUME NEW d \in Cpus, SwitchTo(d) \/ NothingFound(d)
      PROVE  walk' = [walk EXCEPT ![d] = None]
  BY <1>3 DEF SwitchTo, NothingFound
<1>4. ASSUME NEW d \in Cpus, Dispatch(d)
      PROVE  \/ walk' = walk
             \/ /\ walk[d] \in 0 .. 2 * PriorityNum - 1
                /\ Takable(d, WalkDsq(d, walk[d])) = {}
                /\ walk' = [walk EXCEPT ![d] = walk[d] + 1]
  <2>1. walk[d] \in 0 .. 2 * PriorityNum - 1
    BY <1>1, <1>4, PrioAssumption DEF Dispatch
  <2> QED BY <2>1, <1>4 DEF Dispatch
<1>5. \/ walk' = walk
      \/ \E d \in Cpus : \/ Block(d) \/ Preempt(d) \/ SliceEnd(d) \/ Resched(d)
                         \/ SwitchTo(d) \/ NothingFound(d) \/ Dispatch(d)
  BY DEF Next, KernelNext, SelectCpu, WakeBound, Wake, WriteSchedInfo, SetAffinity,
         SetAffinityAsleep, SetAffinityQueued
<1> QED BY <1>1, <1>2, <1>3, <1>4, <1>5

(* A walk finds a waiting task it serves when it looks at the task's slot. *)
LEMMA FoundAtSlot ==
  ASSUME SchedInv, NEW c \in Cpus, NEW u \in Tasks, where[u] = "dsq", Serves(c, u)
  PROVE  Takable(c, WalkDsq(c, SlotOf(ctx[u]))) # {}
<1> DEFINE q == WalkDsq(c, SlotOf(ctx[u]))
<1>1. ctx[u] \in Ctxs \cup {None} /\ c \in allowed[u]
  BY DEF SchedInv, TypeOK, Serves
<1>2. q = QueueOf(ctx[u]) /\ q \in DsqIds
  BY <1>1, SlotFacts, QueueOfType DEF Serves
<1>3. u \in ToSet(dsq[q])
  BY <1>2 DEF SchedInv, PlacedOnce
<1>4. PICK i \in DOMAIN dsq[q] : dsq[q][i] = u
  BY <1>3 DEF ToSet
<1>5. i \in Takable(c, q)
  BY <1>1, <1>4 DEF Takable
<1> QED BY <1>5

(* What a CPU pulls is in the slot its walk stands at. *)
LEMMA TakesAtSlot ==
  ASSUME SchedInv, Next, NEW c \in Cpus, NEW t \in Tasks, Takes(c, t)
  PROVE  walk[c] # None /\ SlotOf(ctx[t]) = walk[c]
<1> USE DEF SchedInv
<1>1. PICK d \in Cpus : Dispatch(d)
  <2>1. ASSUME NEW d \in Cpus, Preempt(d) \/ SwitchTo(d) \/ Block(d)
        PROVE  FALSE
    <3>1. curr[d] # None => where[curr[d]] = "running"
      BY RunningFacts
    <3> QED BY <2>1, <3>1 DEF Takes, Preempt, SwitchTo, Block, TypeOK
  <2>2. ASSUME NEW u \in Tasks, SelectCpu(u) \/ WakeBound(u) \/ Wake(u)
        PROVE  FALSE
    BY <2>2 DEF Takes, SelectCpu, WakeBound, Wake, WakeLocal, WakeDsq, WakeEnqueue, Enqueue,
            InsertDsq, TypeOK
  <2>3. where' # where
    BY DEF Takes
  <2> QED BY <2>1, <2>2, <2>3
          DEF Next, KernelNext, SliceEnd, Resched, NothingFound, WriteSchedInfo, SetAffinity,
              SetAffinityAsleep, SetAffinityQueued
<1> DEFINE w == walk[d]
           q == WalkDsq(d, w)
<1>2. w # None /\ w \in 0 .. 2 * PriorityNum - 1
  BY <1>1, PrioAssumption DEF Dispatch, TypeOK
<1>3. PICK i \in Takable(d, q) : /\ where' = [where EXCEPT ![dsq[q][i]] = "local"]
                                 /\ home' = [home EXCEPT ![dsq[q][i]] = d]
  BY <1>1 DEF Dispatch, Takes
<1>4. t = dsq[q][i] /\ d = c
  BY <1>3 DEF Takes, TypeOK
<1>5. t \in ToSet(dsq[q])
  BY <1>3, <1>4 DEF Takable, ToSet
<1>6. QueueOf(ctx[t]) = q
  BY <1>2, <1>5, WalkDsqType DEF PlacedOnce
<1> DEFINE x == ctx[t]
           p == PrioOf(x)
           k == IF x = None THEN 0 ELSE x.kind
           j == IF w % 2 = 0 THEN 0 ELSE KindOf[d]
<1>7. p \in Prios /\ k \in Kinds /\ QueueOf(x) = DsqId(p, k)
  <2>1. x \in Ctxs \cup {None}
    BY DEF TypeOK
  <2>2. x # None => x.kind \in Kinds
    BY <2>1 DEF Ctxs
  <2>3. p \in Prios
    BY <2>1, PrioOfType
  <2>4. k \in Kinds
    BY <2>2, TopologyAssumption DEF Kinds
  <2>5. QueueOf(x) = DsqId(p, k)
    BY DEF QueueOf, PrioOf
  <2> QED BY <2>3, <2>4, <2>5
<1>8. w \div 2 \in Prios /\ j \in Kinds /\ q = DsqId(w \div 2, j)
  <2>1. w \div 2 \in Prios
    BY <1>2, WalkDsqType
  <2>2. KindOf[d] \in Kinds /\ 0 \in Kinds
    BY TopologyAssumption DEF Kinds
  <2> QED BY <2>1, <2>2 DEF WalkDsq
<1>9. p = w \div 2 /\ k = j
  <2>1. DsqId(p, k) = DsqId(w \div 2, j)
    BY <1>6, <1>7, <1>8
  <2> HIDE DEF p, k, w, j
  <2> QED BY <1>7, <1>8, <2>1, DsqIdInjective
<1>10. KindOf[d] # 0
  BY TopologyAssumption
<1>11. SlotOf(x) = 2 * (w \div 2) + (IF w % 2 = 0 THEN 0 ELSE 1)
  BY <1>9, <1>10 DEF SlotOf
<1>12. 2 * (w \div 2) + (IF w % 2 = 0 THEN 0 ELSE 1) = w
  <2> HIDE DEF w
  <2> QED BY <1>2
<1> QED BY <1>2, <1>4, <1>11, <1>12

(* The walk has passed no task that has waited since it began. *)
OrderInv == SchedInv /\ waited \in [Cpus -> SUBSET Tasks] /\ WalkBehind

LEMMA OrderStep == OrderInv /\ [OrderNext]_orderVars => OrderInv'
<1> SUFFICES ASSUME OrderInv, [OrderNext]_orderVars PROVE OrderInv'
  OBVIOUS
<1>1. SchedInv'
  BY NextInv DEF OrderInv, OrderNext, orderVars, vars
<1>2. CASE OrderNext
  <2>1. Next /\ waited' = [c \in Cpus |-> StillWaiting(c)]
    BY <1>2 DEF OrderNext, Remember
  <2>2. waited' \in [Cpus -> SUBSET Tasks]
    BY <2>1 DEF StillWaiting
  <2> SUFFICES ASSUME NEW c \in Cpus, NEW u \in waited'[c]
               PROVE  /\ walk'[c] # None /\ where'[u] = "dsq"
                      /\ Serves(c, u)' => walk'[c] <= SlotOf(ctx'[u])
    BY <1>1, <2>2 DEF OrderInv, WalkBehind
  <2>3. /\ u \in Tasks /\ walk'[c] # None /\ where'[u] = "dsq"
        /\ walk[c] = None \/ (u \in waited[c] /\ allowed'[u] = allowed[u])
    BY <2>1 DEF StillWaiting
  <2>4. SlotOf(ctx'[u]) \in 0 .. 2 * PriorityNum - 1
    <3>1. ctx'[u] \in Ctxs \cup {None}
      BY <1>1, <2>3 DEF SchedInv, TypeOK
    <3> QED BY <3>1, SlotFacts
  <2>5. walk[c] \in (0 .. 2 * PriorityNum) \cup {None}
    BY DEF OrderInv, SchedInv, TypeOK
  <2> SUFFICES ASSUME Serves(c, u)' PROVE walk'[c] <= SlotOf(ctx'[u])
    BY <2>3
  <2>6. CASE walk[c] = None
    <3>1. walk'[c] = 0
      BY <2>1, <2>3, <2>6, WalkMoves, NoneAssumption, PrioAssumption DEF OrderInv
    <3> QED BY <2>4, <3>1, PrioAssumption
  <2>7. CASE walk[c] # None
    <3>1. u \in waited[c] /\ allowed'[u] = allowed[u] /\ where[u] = "dsq"
      BY <2>3, <2>7 DEF OrderInv, WalkBehind
    <3>2. ctx'[u] = ctx[u]
      BY <2>1, <2>3, <3>1, QueuedKeepsCtx DEF OrderInv
    <3>3. Serves(c, u)
      BY <3>1, <3>2 DEF Serves
    <3>4. walk[c] <= SlotOf(ctx[u])
      BY <3>1, <3>3 DEF OrderInv, WalkBehind
    <3>5. walk[c] # SlotOf(ctx[u]) \/ Takable(c, WalkDsq(c, walk[c])) # {}
      BY <2>3, <3>1, <3>3, FoundAtSlot DEF OrderInv
    <3>6. CASE walk'[c] = walk[c]
      BY <3>2, <3>4, <3>6
    <3>7. CASE /\ walk[c] \in 0 .. 2 * PriorityNum - 1
               /\ Takable(c, WalkDsq(c, walk[c])) = {}
               /\ walk'[c] = walk[c] + 1
      <4>1. SlotOf(ctx[u]) \in Nat /\ walk[c] \in Nat
        BY <2>4, <3>2, <3>7, PrioAssumption
      <4> QED BY <3>2, <3>4, <3>5, <3>7, <4>1
    <3> QED BY <2>1, <2>3, <2>7, <3>6, <3>7, WalkMoves DEF OrderInv
  <2> QED BY <2>6, <2>7
<1>3. CASE UNCHANGED orderVars
  BY <1>1, <1>3 DEF orderVars, OrderInv, WalkBehind, Serves
<1> QED BY <1>2, <1>3

(* No walk ever stands behind a task that has waited since it began. *)
THEOREM WalksStayBehind == OrderSpec => []OrderInv
<1>1. OrderInit => OrderInv
  <2>1. OrderInit => waited \in [Cpus -> SUBSET Tasks] /\ WalkBehind
    BY DEF OrderInit, WalkBehind
  <2> QED BY <2>1, InitInv DEF OrderInit, OrderInv
<1> QED BY <1>1, OrderStep, PTL DEF OrderSpec

(* teddy_dispatch keeps the strict order of the priorities: no CPU pulls a  *)
(* task while a more urgent one it serves has waited since it entered       *)
(* schedule(), and none gives up while such a task is left.                 *)
THEOREM OrderKept == OrderSpec => PrioritiesRespected
<1> DEFINE Respected ==
      \A c \in Cpus : \A u \in waited[c] :
        Serves(c, u)
          => /\ \A t \in Tasks : Takes(c, t) => SlotOf(ctx[t]) <= SlotOf(ctx[u])
             /\ ~NothingFound(c)
<1>1. OrderInv /\ [OrderNext]_orderVars => [Respected]_orderVars
  <2> SUFFICES ASSUME OrderInv, OrderNext, NEW c \in Cpus, NEW u \in waited[c],
                      Serves(c, u)
               PROVE  /\ \A t \in Tasks : Takes(c, t) => SlotOf(ctx[t]) <= SlotOf(ctx[u])
                      /\ ~NothingFound(c)
    OBVIOUS
  <2>1. SchedInv /\ Next
    BY DEF OrderInv, OrderNext
  <2>2. walk[c] <= SlotOf(ctx[u])
    BY DEF OrderInv, WalkBehind
  <2>3. \A t \in Tasks : Takes(c, t) => SlotOf(ctx[t]) <= SlotOf(ctx[u])
    BY <2>1, <2>2, TakesAtSlot
  <2>4. ~NothingFound(c)
    <3>1. ctx[u] \in Ctxs \cup {None}
      BY <2>1 DEF OrderInv, SchedInv, TypeOK
    <3>2. SlotOf(ctx[u]) \in 0 .. 2 * PriorityNum - 1
      BY <3>1, SlotFacts
    <3>3. walk[c] # 2 * PriorityNum
      BY <2>2, <3>2, PrioAssumption
    <3> QED BY <3>3 DEF NothingFound
  <2> QED BY <2>3, <2>4
<1> QED BY <1>1, WalksStayBehind, PTL DEF OrderSpec, PrioritiesRespected
=============================================================================
