-------------------------- MODULE Accounting_proofs --------------------------
(* Proofs about Accounting: the sums along the ring, the inductive invariant  *)
(* of the context of a thread, and the conservation of its times.             *)
EXTENDS Accounting, SequenceTheorems, WellFoundedInduction, TLAPS

-------------------------------------------------------------------------------
(* Sums.                                                                      *)

(* Induction over the numbers: a set of counterexamples has a least one.      *)
LEMMA Least ==
  ASSUME NEW T \in SUBSET Nat, T # {}
  PROVE  \E n \in T : \A m \in T : n <= m
<1>1. PICK R : IsWellFoundedOn(R, Nat) /\ \A x, y \in Nat : <<y, x>> \in R <=> y < x
  <2>1. \A x, y \in Nat : <<y, x>> \in OpToRel(<, Nat) <=> y < x
    BY DEF OpToRel
  <2> QED
    BY <2>1, NatLessThanWellFounded
<1>2. PICK n \in T : \A m \in T : <<m, n>> \notin R
  BY <1>1, WFMin
<1>3. ASSUME NEW m \in T PROVE n <= m
  <2>1. m \in Nat /\ n \in Nat /\ (<<m, n>> \in R <=> m < n)
    BY <1>1
  <2>2. ~(m < n)
    BY <1>2, <2>1
  <2> QED
    BY <2>1, <2>2
<1> QED
  BY <1>3

(* b has the sums of the first events                                         *)
IsSum(b, f, s, n) == b = [i \in 0 .. n |-> IF i = 0 THEN 0 ELSE b[i - 1] + s[i][f]]

LEMMA SumExists ==
  ASSUME NEW f, NEW s, NEW n \in Nat
  PROVE  \E b : IsSum(b, f, s, n)
<1> DEFINE T == {m \in Nat : ~\E b : IsSum(b, f, s, m)}
<1>1. SUFFICES ASSUME T # {} PROVE FALSE
  OBVIOUS
<1>2. PICK m \in T : \A k \in T : m <= k
  <2> HIDE DEF T
  <2>1. T \in SUBSET Nat
    BY DEF T
  <2> QED
    BY <1>1, <2>1, Least
<1>3. m # 0
  <2> DEFINE b == [i \in 0 .. 0 |-> 0]
  <2>1. IsSum(b, f, s, 0)
    BY DEF IsSum
  <2> QED
    BY <2>1
<1>4. PICK b : IsSum(b, f, s, m - 1)
  <2>1. m - 1 \in Nat /\ ~(m <= m - 1)
    BY <1>3
  <2> QED
    BY <1>2, <2>1
<1> DEFINE c == [i \in 0 .. m |-> IF i = m THEN b[m - 1] + s[m][f] ELSE b[i]]
<1>5. \A i \in 0 .. m : c[i] = IF i = 0 THEN 0 ELSE c[i - 1] + s[i][f]
  <2>1. \A i \in 0 .. m - 1 : b[i] = IF i = 0 THEN 0 ELSE b[i - 1] + s[i][f]
    BY <1>4 DEF IsSum
  <2>2. c[m] = b[m - 1] + s[m][f] /\ \A i \in 0 .. m - 1 : c[i] = b[i]
    OBVIOUS
  <2> HIDE DEF c
  <2>3. ASSUME NEW i \in 0 .. m
        PROVE  c[i] = IF i = 0 THEN 0 ELSE c[i - 1] + s[i][f]
    <3>1. CASE i = m
      <4>1. m - 1 \in 0 .. m - 1
        BY <1>3
      <4> QED
        BY <1>3, <2>2, <3>1, <4>1
    <3>2. CASE i # m
      <4>1. i \in 0 .. m - 1 /\ (i # 0 => i - 1 \in 0 .. m - 1)
        BY <3>2
      <4> QED
        BY <2>1, <2>2, <4>1
    <3> QED
      BY <3>1, <3>2
  <2> QED
    BY <2>3
<1>6. IsSum(c, f, s, m)
  <2>1. c = [i \in 0 .. m |-> c[i]]
    OBVIOUS
  <2> HIDE DEF c
  <2> QED
    BY <1>5, <2>1 DEF IsSum
<1> QED
  BY <1>6

(* Two lists of sums of events that agree, agree.                             *)
LEMMA SumUnique ==
  ASSUME NEW f, NEW s, NEW n \in Nat, NEW b, IsSum(b, f, s, n), NEW c, IsSum(c, f, s, n)
  PROVE  b[n] = c[n]
<1> DEFINE T == {m \in 0 .. n : b[m] # c[m]}
<1>1. SUFFICES ASSUME T # {} PROVE FALSE
  OBVIOUS
<1>2. PICK m \in T : \A k \in T : m <= k
  <2>1. T \in SUBSET Nat
    OBVIOUS
  <2> HIDE DEF T
  <2> QED
    BY <1>1, <2>1, Least
<1>3. \A i \in 0 .. n : /\ b[i] = IF i = 0 THEN 0 ELSE b[i - 1] + s[i][f]
                        /\ c[i] = IF i = 0 THEN 0 ELSE c[i - 1] + s[i][f]
  BY DEF IsSum
<1>4. m # 0
  BY <1>2, <1>3
<1>5. m - 1 \in 0 .. n /\ m - 1 \notin T
  BY <1>2, <1>4
<1> QED
  BY <1>2, <1>3, <1>4, <1>5

LEMMA SumValue ==
  ASSUME NEW f, NEW s, Len(s) \in Nat
  PROVE  /\ \E b : IsSum(b, f, s, Len(s))
         /\ \A b : IsSum(b, f, s, Len(s)) => SumOf(f, s) = b[Len(s)]
<1> DEFINE u == CHOOSE u : IsSum(u, f, s, Len(s))
<1>1. IsSum(u, f, s, Len(s))
  BY SumExists
<1>2. SumOf(f, s) = u[Len(s)]
  BY DEF SumOf, IsSum
<1> HIDE DEF u
<1> QED
  BY <1>1, <1>2, SumUnique

LEMMA SumEmpty == ASSUME NEW f PROVE SumOf(f, << >>) = 0
<1>1. Len(<< >>) = 0 /\ 0 \in Nat
  OBVIOUS
<1>2. PICK b : IsSum(b, f, << >>, Len(<< >>))
  BY <1>1, SumValue
<1>3. SumOf(f, << >>) = b[0]
  BY <1>1, <1>2, SumValue
<1>4. 0 \in 0 .. 0
  OBVIOUS
<1> QED
  BY <1>1, <1>2, <1>3, <1>4 DEF IsSum

LEMMA SumAppend ==
  ASSUME NEW S, NEW f, NEW s \in Seq(S), NEW e \in S
  PROVE  SumOf(f, Append(s, e)) = SumOf(f, s) + e[f]
<1> DEFINE n == Len(s)
           t == Append(s, e)
<1>1. n \in Nat /\ Len(t) = n + 1 /\ t[n + 1] = e /\ \A i \in 1 .. n : t[i] = s[i]
  BY AppendProperties, LenProperties
<1> HIDE DEF n, t
<1>2. PICK b : IsSum(b, f, s, n)
  BY <1>1, SumValue DEF n
<1>3. SumOf(f, s) = b[n]
  BY <1>1, <1>2, SumValue DEF n
<1> DEFINE c == [i \in 0 .. n + 1 |-> IF i = n + 1 THEN b[n] + e[f] ELSE b[i]]
<1>4. \A i \in 0 .. n + 1 : c[i] = IF i = 0 THEN 0 ELSE c[i - 1] + t[i][f]
  <2>1. \A i \in 0 .. n : b[i] = IF i = 0 THEN 0 ELSE b[i - 1] + s[i][f]
    BY <1>2 DEF IsSum
  <2>2. c[n + 1] = b[n] + e[f] /\ \A i \in 0 .. n : c[i] = b[i]
    BY <1>1
  <2> HIDE DEF c
  <2>3. ASSUME NEW i \in 0 .. n + 1
        PROVE  c[i] = IF i = 0 THEN 0 ELSE c[i - 1] + t[i][f]
    <3>1. CASE i = n + 1
      <4>1. i # 0 /\ i - 1 = n /\ n \in 0 .. n
        BY <1>1, <3>1
      <4> QED
        BY <1>1, <2>2, <3>1, <4>1
    <3>2. CASE i # n + 1
      <4>1. i \in 0 .. n /\ (i # 0 => i - 1 \in 0 .. n /\ t[i] = s[i])
        BY <1>1, <3>2
      <4> QED
        BY <2>1, <2>2, <4>1
    <3> QED
      BY <3>1, <3>2
  <2> QED
    BY <2>3
<1>5. c[n + 1] = b[n] + e[f] /\ c = [i \in 0 .. n + 1 |-> c[i]]
  BY <1>1
<1> HIDE DEF c
<1>6. IsSum(c, f, t, n + 1)
  BY <1>4, <1>5 DEF IsSum
<1>7. SumOf(f, t) = c[n + 1]
  BY <1>1, <1>6, SumValue
<1> QED
  BY <1>3, <1>5, <1>7 DEF t

(* sums of numbers are numbers                                                *)
LEMMA SumsTyped ==
  ASSUME NEW f, NEW s, NEW n \in Nat, \A i \in 1 .. n : s[i][f] \in Nat,
         NEW b, IsSum(b, f, s, n)
  PROVE  \A i \in 0 .. n : b[i] \in Nat
<1> DEFINE T == {m \in 0 .. n : b[m] \notin Nat}
<1>1. SUFFICES ASSUME T # {} PROVE FALSE
  OBVIOUS
<1>2. PICK m \in T : \A k \in T : m <= k
  <2>1. T \in SUBSET Nat
    OBVIOUS
  <2> HIDE DEF T
  <2> QED
    BY <1>1, <2>1, Least
<1>3. b[m] = IF m = 0 THEN 0 ELSE b[m - 1] + s[m][f]
  BY DEF IsSum
<1>4. m # 0
  BY <1>2, <1>3
<1>5. m - 1 \in 0 .. n /\ m \in 1 .. n /\ m - 1 \notin T
  BY <1>2, <1>4
<1> QED
  BY <1>2, <1>3, <1>4, <1>5

LEMMA SumType ==
  ASSUME NEW S, NEW f, NEW s \in Seq(S), \A e \in S : e[f] \in Nat
  PROVE  SumOf(f, s) \in Nat
<1>1. Len(s) \in Nat /\ \A i \in 1 .. Len(s) : s[i] \in S
  BY LenProperties, ElementOfSeq
<1>2. PICK b : IsSum(b, f, s, Len(s))
  BY <1>1, SumValue
<1>3. \A i \in 0 .. Len(s) : b[i] \in Nat
  BY <1>1, <1>2, SumsTyped
<1> QED
  BY <1>1, <1>2, <1>3, SumValue

LEMMA SumTail ==
  ASSUME NEW S, NEW f, NEW s \in Seq(S), s # << >>, \A e \in S : e[f] \in Nat
  PROVE  SumOf(f, s) = Head(s)[f] + SumOf(f, Tail(s))
<1> DEFINE n == Len(s)
           t == Tail(s)
<1>1. /\ n \in Nat \ {0} /\ Len(t) = n - 1 /\ Head(s) = s[1]
      /\ \A i \in 1 .. n - 1 : t[i] = s[i + 1]
      /\ \A i \in 1 .. n : s[i] \in S
  BY HeadTailProperties, EmptySeq, LenProperties, ElementOfSeq
<1> HIDE DEF n, t
<1>2. PICK b : IsSum(b, f, s, n)
  BY <1>1, SumValue DEF n
<1>3. SumOf(f, s) = b[n]
  BY <1>1, <1>2, SumValue DEF n
<1>4. \A i \in 1 .. n : s[i][f] \in Nat
  BY <1>1
<1>5. \A i \in 0 .. n : b[i] \in Nat
  BY <1>1, <1>2, <1>4, SumsTyped
<1>6. b[0] = 0 /\ \A i \in 1 .. n : b[i] = b[i - 1] + s[i][f]
  BY <1>1, <1>2 DEF IsSum
<1>7. b[1] = s[1][f]
  BY <1>1, <1>4, <1>6
<1> DEFINE c == [i \in 0 .. n - 1 |-> b[i + 1] - b[1]]
<1>8. \A i \in 0 .. n - 1 : c[i] = b[i + 1] - b[1]
  OBVIOUS
<1>9. c = [i \in 0 .. n - 1 |-> c[i]]
  OBVIOUS
<1> HIDE DEF c
<1>10. ASSUME NEW i \in 0 .. n - 1
       PROVE  c[i] = IF i = 0 THEN 0 ELSE c[i - 1] + t[i][f]
  <2>1. CASE i = 0
    <3>1. c[0] = b[1] - b[1] /\ b[1] \in Nat
      BY <1>1, <1>5, <1>8
    <3> QED
      BY <2>1, <3>1
  <2>2. CASE i # 0
    <3>1. /\ i - 1 \in 0 .. n - 1 /\ (i - 1) + 1 = i /\ i + 1 \in 1 .. n /\ (i + 1) - 1 = i
          /\ t[i] = s[i + 1] /\ i \in 0 .. n /\ 1 \in 0 .. n
      BY <1>1, <2>2
    <3>2. c[i] = b[i + 1] - b[1] /\ c[i - 1] = b[i] - b[1] /\ b[i + 1] = b[i] + t[i][f]
      BY <1>6, <1>8, <3>1
    <3>3. b[i] \in Nat /\ b[1] \in Nat /\ t[i][f] \in Nat
      BY <1>4, <1>5, <3>1
    <3> QED
      BY <2>2, <3>2, <3>3
  <2> QED
    BY <2>1, <2>2
<1>11. IsSum(c, f, t, n - 1)
  BY <1>9, <1>10 DEF IsSum
<1>12. SumOf(f, t) = c[n - 1]
  <2>1. n - 1 \in Nat /\ Len(t) = n - 1
    BY <1>1
  <2> QED
    BY <1>11, <2>1, SumValue
<1>13. c[n - 1] = b[n] - b[1] /\ b[n] \in Nat /\ b[1] \in Nat
  BY <1>1, <1>5, <1>8
<1> QED
  BY <1>1, <1>3, <1>7, <1>12, <1>13 DEF t
-------------------------------------------------------------------------------
(* The inductive invariant.                                                   *)

Sums == [event_cnt : Nat, sleep_sum : Nat, runtime_sum : Nat,
         sleep_cnt : Nat, futex_wait_cnt : Nat]
Context == [made : BOOLEAN, start_running : Nat, sleep_start : Nat, sleep_end : Nat,
            runtime_ns : Nat, last_send_time : Nat, sums : Sums]
History == [began : Nat, woke : Nat, blocked : Nat, ran : Nat, slept : Nat,
            blocks : Nat, futexes : Nat, unseenRun : Int, unseenSleep : Nat]

Typed ==
  /\ now \in Nat /\ now >= Boot /\ place \in {"asleep", "ready"} \cup Cores
  /\ ctx \in Context /\ ring \in Seq(Sums) /\ pause \in BOOLEAN
  /\ stats \in Sums /\ seen \in History

(* a context that is not there is the empty one                               *)
Absent(c) == c = NoCtx \/ c.made

(* the stamps of the context are the times of what happened last, and no      *)
(* stamp is ahead of the clock; the start of the run is missing when the      *)
(* context was made on the CPU                                                *)
Stamped ==
  /\ ctx.sleep_start = seen.blocked /\ ctx.sleep_end = seen.woke
  /\ seen.blocked <= now /\ seen.woke <= now /\ seen.began <= now
  /\ place \in Cores => ctx.start_running \in {0, seen.began}

(* a thread that sleeps has not woken since it blocked: no sleep is pending   *)
Sleeping == place = "asleep" /\ seen.blocked # 0 => ctx.sleep_end <= ctx.sleep_start

IInv == Typed /\ Absent(ctx) /\ Stamped /\ Sleeping /\ TimesConserved

-------------------------------------------------------------------------------
(* Arithmetic.                                                                *)

LEMMA DivType == ASSUME NEW t \in Nat, NEW d \in Nat \ {0} PROVE t \div d \in Nat /\ 0 \div d = 0
OBVIOUS

LEMMA UnitsType == Units(0) = 0 /\ \A t \in Nat : Units(t) \in Nat
<1>1. Units(0) = 0
  <2>1. 0 \div Grain = 0 /\ MaxSleep \in Nat
    BY DivType, ClockAssumption
  <2> QED
    BY <2>1 DEF Units, AtMost
<1>2. ASSUME NEW t \in Nat PROVE Units(t) \in Nat
  <2>1. t \div Grain \in Nat /\ MaxSleep \in Nat
    BY DivType, ClockAssumption
  <2> QED
    BY <2>1 DEF Units, AtMost
<1> QED
  BY <1>1, <1>2

LEMMA NormalizedType == ASSUME NEW t \in Nat, NEW c \in Cores PROVE Normalized(t, c) \in Nat
<1>1. Freq[c].n \in Nat /\ Freq[c].d \in Nat \ {0}
  BY CoreAssumption
<1>2. t * Freq[c].n \in Nat
  BY <1>1
<1>3. (t * Freq[c].n) \div Freq[c].d \in Nat
  BY <1>1, <1>2, DivType
<1> QED
  BY <1>3 DEF Normalized

LEMMA SleepType == ASSUME NEW c \in Context PROVE SleepOf(c) \in Nat
<1>1. ASSUME c.sleep_end > c.sleep_start PROVE Units(c.sleep_end - c.sleep_start) \in Nat
  <2>1. c.sleep_end - c.sleep_start \in Nat
    BY <1>1 DEF Context
  <2> QED
    BY <2>1, UnitsType
<1> QED
  BY <1>1 DEF SleepOf

(* the sums that carry times and counts                                       *)
Carried == {"sleep_sum", "runtime_sum", "sleep_cnt", "futex_wait_cnt"}

LEMMA SumsAreNumbers == ASSUME NEW f \in Carried PROVE \A e \in Sums : e[f] \in Nat
BY DEF Carried, Sums

LEMMA ZeroSums == Zero \in Sums /\ \A f \in Carried : Zero[f] = 0
BY DEF Zero, Sums, Carried

LEMMA HeldType ==
  ASSUME Typed, NEW f \in Carried PROVE SumOf(f, ring) \in Nat /\ stats[f] \in Nat /\ ctx.sums[f] \in Nat
<1>1. ring \in Seq(Sums) /\ stats \in Sums /\ ctx.sums \in Sums
  BY DEF Typed, Context
<1> QED
  BY <1>1, SumsAreNumbers, SumType

-------------------------------------------------------------------------------
(* What a context goes through.                                               *)

LEMMA NewCtxFacts == ASSUME NEW t \in Nat PROVE NewCtx(t) \in Context /\ NewCtx(t).made
BY ZeroSums DEF NewCtx, Context

LEMMA NoCtxFacts ==
  /\ NoCtx \in Context /\ ~NoCtx.made /\ NoCtx.start_running = 0 /\ NoCtx.sleep_start = 0
  /\ NoCtx.sleep_end = 0 /\ NoCtx.runtime_ns = 0 /\ NoCtx.sums = Zero
BY ZeroSums DEF NoCtx, NewCtx, Context

(* Two contexts that count the same.                                          *)
Same(c, d) ==
  /\ c.start_running = d.start_running /\ c.sleep_start = d.sleep_start
  /\ c.sleep_end = d.sleep_end /\ c.runtime_ns = d.runtime_ns /\ c.sums = d.sums

(* Making the context counts nothing.                                         *)
LEMMA StorageFacts ==
  ASSUME Typed, Absent(ctx), NEW c \in Storage
  PROVE  /\ c \in Context /\ Same(c, ctx) /\ Absent(c)
         /\ c = NoCtx => ctx = NoCtx
         /\ c # NoCtx => c.made
<1>1. CASE ctx = NoCtx
  <2>1. CASE c = NoCtx
    BY <1>1, <2>1, NoCtxFacts DEF Same, Absent
  <2>2. CASE c = NewCtx(now)
    <3>1. now \in Nat
      BY DEF Typed
    <3>2. Same(c, ctx)
      BY <1>1, <2>2 DEF Same, NoCtx, NewCtx
    <3> QED
      BY <1>1, <2>2, <3>1, <3>2, NewCtxFacts, NoCtxFacts DEF Absent
  <2> QED
    BY <1>1, <2>1, <2>2 DEF Storage
<1>2. CASE ctx # NoCtx
  <2>1. c = ctx /\ ctx.made
    BY <1>2 DEF Storage, Absent
  <2> QED
    BY <1>2, <2>1, NoCtxFacts DEF Same, Absent, Typed
<1> QED
  BY <1>1, <1>2

(* Sending loses nothing: what the context gives up, the ring has gained.     *)
LEMMA SendKeeps ==
  ASSUME Typed, NEW c \in Context, c.made, TryDataToUser(c)
  PROVE  /\ ctx' \in Context /\ ctx'.made /\ ring' \in Seq(Sums)
         /\ ctx'.start_running = c.start_running /\ ctx'.sleep_start = c.sleep_start
         /\ ctx'.sleep_end = c.sleep_end /\ ctx'.runtime_ns = c.runtime_ns
         /\ \A f \in Carried : SumOf(f, ring') + ctx'.sums[f] = SumOf(f, ring) + c.sums[f]
<1>1. now \in Nat /\ ring \in Seq(Sums) /\ c.sums \in Sums
  BY DEF Typed, Context
<1>2. CASE ctx' = c /\ ring' = ring
  BY <1>1, <1>2
<1>3. CASE ring' = Append(ring, c.sums) /\ ctx' = [c EXCEPT !.last_send_time = now, !.sums = Zero]
  <2>1. ctx' \in Context /\ ring' \in Seq(Sums)
    <3>1. ctx' \in Context
      BY <1>1, <1>3, ZeroSums DEF Context
    <3>2. Append(ring, c.sums) \in Seq(Sums)
      BY <1>1, AppendProperties
    <3> QED
      BY <1>3, <3>1, <3>2
  <2>2. /\ ctx'.made = c.made /\ ctx'.start_running = c.start_running
        /\ ctx'.sleep_start = c.sleep_start /\ ctx'.sleep_end = c.sleep_end
        /\ ctx'.runtime_ns = c.runtime_ns /\ ctx'.sums = Zero
    BY <1>3 DEF Context
  <2>3. ASSUME NEW f \in Carried
        PROVE  SumOf(f, ring') + ctx'.sums[f] = SumOf(f, ring) + c.sums[f]
    <3>1. SumOf(f, ring') = SumOf(f, ring) + c.sums[f]
      BY <1>1, <1>3, SumAppend
    <3>2. SumOf(f, ring) \in Nat /\ c.sums[f] \in Nat /\ ctx'.sums[f] = 0
      BY <1>1, <2>2, SumsAreNumbers, SumType, ZeroSums
    <3> QED
      BY <3>1, <3>2
  <2> QED
    BY <2>1, <2>2, <2>3
<1>4. CASE ring' = ring /\ ctx' = [c EXCEPT !.last_send_time = now]
  <2>1. ctx' \in Context
    BY <1>1, <1>4 DEF Context
  <2>2. /\ ctx'.made = c.made /\ ctx'.start_running = c.start_running
        /\ ctx'.sleep_start = c.sleep_start /\ ctx'.sleep_end = c.sleep_end
        /\ ctx'.runtime_ns = c.runtime_ns /\ ctx'.sums = c.sums
    BY <1>4 DEF Context
  <2> QED
    BY <1>1, <1>4, <2>1, <2>2
<1> QED
  BY <1>2, <1>3, <1>4 DEF TryDataToUser

-------------------------------------------------------------------------------
(* The steps preserve the invariant.                                          *)

LEMMA InitSound == Init => IInv
<1> SUFFICES ASSUME Init PROVE IInv
  OBVIOUS
<1>1. Boot \in Nat \ {0} /\ << >> \in Seq(Sums)
  BY ClockAssumption
<1>2. Typed
  <2>1. ctx \in Context /\ stats \in Sums
    BY NoCtxFacts, ZeroSums DEF Init
  <2>2. seen \in History
    BY DEF Init, History
  <2>3. now \in Nat /\ now >= Boot /\ place \in {"asleep", "ready"} /\ ring = << >> /\ pause = FALSE
    BY <1>1 DEF Init
  <2> QED
    BY <1>1, <2>1, <2>2, <2>3 DEF Typed
<1>3. Absent(ctx) /\ Stamped /\ Sleeping
  <2>1. /\ ctx.sleep_start = 0 /\ ctx.sleep_end = 0 /\ ctx.start_running = 0
        /\ seen.blocked = 0 /\ seen.woke = 0 /\ seen.began = 0 /\ 0 <= now
    BY <1>1, NoCtxFacts DEF Init
  <2> QED
    BY <2>1 DEF Absent, Stamped, Sleeping, Init
<1>4. TimesConserved
  <2>1. \A f \in Carried : Total(f) = 0
    BY NoCtxFacts, ZeroSums, SumEmpty DEF Init, Total
  <2>2. /\ Total("runtime_sum") = 0 /\ Total("sleep_sum") = 0
        /\ Total("sleep_cnt") = 0 /\ Total("futex_wait_cnt") = 0
    BY <2>1 DEF Carried
  <2>3. ctx.runtime_ns = 0 /\ LastSleep = 0
    BY NoCtxFacts DEF Init, LastSleep
  <2> QED
    BY <2>2, <2>3 DEF Init, TimesConserved
<1> QED
  BY <1>2, <1>3, <1>4 DEF IInv

(* What happened, as far as the balance goes, and what the context counts.    *)
Counted == <<seen.ran, seen.unseenRun, seen.slept, seen.unseenSleep, seen.blocks,
             seen.futexes, seen.blocked>>
Counts(c) == <<c.sleep_start, c.sleep_end, c.runtime_ns, c.sums>>

(* A step that moves sums from the ring to the statistics, or none, keeps     *)
(* the balance.                                                               *)
LEMMA Unmoved ==
  ASSUME TimesConserved, Counted' = Counted, Counts(ctx)' = Counts(ctx),
         \A f \in Carried : stats'[f] + SumOf(f, ring') = stats[f] + SumOf(f, ring)
  PROVE  TimesConserved'
<1>1. ASSUME NEW f \in Carried PROVE Total(f)' = Total(f)
  BY DEF Total, Counts
<1>2. /\ Total("runtime_sum")' = Total("runtime_sum") /\ Total("sleep_sum")' = Total("sleep_sum")
      /\ Total("sleep_cnt")' = Total("sleep_cnt")
      /\ Total("futex_wait_cnt")' = Total("futex_wait_cnt")
  BY <1>1 DEF Carried
<1>3. LastSleep' = LastSleep
  BY DEF LastSleep, SleepOf, Counted, Counts
<1> QED
  BY <1>2, <1>3 DEF TimesConserved, Counted, Counts

LEMMA PollSound == IInv /\ Poll => IInv'
<1> SUFFICES ASSUME IInv, Poll PROVE IInv'
  OBVIOUS
<1>1. Typed /\ Absent(ctx) /\ Stamped /\ Sleeping /\ TimesConserved
  BY DEF IInv
<1>2. ring \in Seq(Sums) /\ ring # << >> /\ stats \in Sums
  BY <1>1 DEF Typed, Poll
<1>3. Head(ring) \in Sums /\ Tail(ring) \in Seq(Sums)
  BY <1>2, HeadTailProperties
<1>4. stats' \in Sums
  <2> DEFINE h == Head(ring)
             F == {"event_cnt", "sleep_sum", "runtime_sum", "sleep_cnt", "futex_wait_cnt"}
  <2>1. DOMAIN stats = F /\ stats' = [f \in F |-> stats[f] + h[f]]
    BY <1>2 DEF Poll, Sums
  <2>2. h \in Sums
    BY <1>3
  <2> HIDE DEF h
  <2>3. ASSUME NEW f \in F PROVE stats[f] + h[f] \in Nat
    <3>1. \A e \in Sums : e[f] \in Nat
      BY DEF Sums
    <3> QED
      BY <1>2, <2>2, <3>1
  <2> QED
    BY <2>1, <2>3 DEF Sums
<1>5. Typed'
  BY <1>1, <1>3, <1>4 DEF Typed, Poll
<1>6. Absent(ctx)' /\ Stamped' /\ Sleeping'
  BY <1>1 DEF Absent, Stamped, Sleeping, Poll
<1>7. ASSUME NEW f \in Carried
      PROVE  stats'[f] + SumOf(f, ring') = stats[f] + SumOf(f, ring)
  <2>1. stats'[f] = stats[f] + Head(ring)[f]
    BY <1>2 DEF Poll, Sums, Carried
  <2>2. SumOf(f, ring) = Head(ring)[f] + SumOf(f, Tail(ring)) /\ ring' = Tail(ring)
    BY <1>2, SumsAreNumbers, SumTail DEF Poll
  <2>3. stats[f] \in Nat /\ Head(ring)[f] \in Nat /\ SumOf(f, Tail(ring)) \in Nat
    BY <1>2, <1>3, SumsAreNumbers, SumType
  <2> QED
    BY <2>1, <2>2, <2>3
<1>8. Counted' = Counted /\ Counts(ctx)' = Counts(ctx)
  BY DEF Poll, Counted, Counts
<1>9. TimesConserved'
  BY <1>1, <1>7, <1>8, Unmoved
<1> QED
  BY <1>5, <1>6, <1>9 DEF IInv

LEMMA QuietSound == IInv /\ (Pause \/ Tick \/ UNCHANGED vars) => IInv'
<1> SUFFICES ASSUME IInv, Pause \/ Tick \/ UNCHANGED vars PROVE IInv'
  OBVIOUS
<1>1. Typed /\ Absent(ctx) /\ Stamped /\ Sleeping /\ TimesConserved
  BY DEF IInv
<1>2. /\ UNCHANGED <<place, ctx, ring, stats, seen>> /\ now' \in Nat /\ now' >= now
      /\ pause' \in BOOLEAN
  <2>1. now \in Nat /\ pause \in BOOLEAN
    BY <1>1 DEF Typed
  <2>2. CASE Pause
    BY <2>1, <2>2 DEF Pause
  <2>3. CASE Tick
    <3>1. PICK d \in Steps : now' = now + d
      BY <2>3 DEF Tick
    <3>2. d \in Nat
      BY ClockAssumption
    <3> QED
      BY <2>1, <2>3, <3>1, <3>2 DEF Tick
  <2>4. CASE UNCHANGED vars
    BY <2>1, <2>4 DEF vars
  <2> QED
    BY <2>2, <2>3, <2>4
<1>3. Typed'
  BY <1>1, <1>2, ClockAssumption DEF Typed
<1>4. Absent(ctx)' /\ Stamped' /\ Sleeping'
  BY <1>1, <1>2 DEF Absent, Stamped, Sleeping, Typed, History
<1>5. TimesConserved'
  BY <1>1, <1>2, Unmoved DEF Counted, Counts
<1> QED
  BY <1>3, <1>4, <1>5 DEF IInv

LEMMA TouchSound == IInv /\ Touch => IInv'
<1> SUFFICES ASSUME IInv, Touch PROVE IInv'
  OBVIOUS
<1>1. Typed /\ Absent(ctx) /\ Stamped /\ Sleeping /\ TimesConserved
  BY DEF IInv
<1>2. ctx' \in Context /\ Same(ctx', ctx) /\ Absent(ctx')
  BY <1>1, StorageFacts DEF Touch
<1>3. Typed'
  BY <1>1, <1>2 DEF Typed, Touch
<1>4. Absent(ctx)' /\ Stamped' /\ Sleeping'
  BY <1>1, <1>2 DEF Stamped, Sleeping, Same, Touch, Absent
<1>5. TimesConserved'
  BY <1>1, <1>2, Unmoved DEF Counted, Counts, Same, Touch
<1> QED
  BY <1>3, <1>4, <1>5 DEF IInv

LEMMA RunningSound == IInv /\ Running => IInv'
<1> SUFFICES ASSUME IInv, Running PROVE IInv'
  OBVIOUS
<1>1. Typed /\ Absent(ctx) /\ Stamped /\ Sleeping /\ TimesConserved
  BY DEF IInv
<1>2. PICK c \in Storage : ctx' = IF c = NoCtx THEN c ELSE [c EXCEPT !.start_running = now]
  BY DEF Running
<1>3. /\ c \in Context /\ Same(c, ctx) /\ Absent(c) /\ now \in Nat /\ seen \in History
      /\ (c # NoCtx => c.made)
  BY <1>1, StorageFacts DEF Typed
<1>4. /\ ctx' \in Context /\ Absent(ctx') /\ Counts(ctx)' = Counts(ctx)
      /\ ctx'.start_running \in {0, now}
  <2>1. CASE c = NoCtx
    BY <1>2, <1>3, <2>1, NoCtxFacts DEF Counts, Same
  <2>2. CASE c # NoCtx
    BY <1>2, <1>3, <2>2 DEF Counts, Same, Context, Absent
  <2> QED
    BY <2>1, <2>2
<1>5. /\ seen' \in History /\ seen'.began = now /\ seen'.woke = seen.woke /\ Counted' = Counted
      /\ seen'.blocked = seen.blocked
  BY <1>3 DEF Running, History, Counted
<1>6. UNCHANGED <<now, ring, pause, stats>> /\ place' \in Cores
  BY DEF Running
<1>7. Typed'
  BY <1>1, <1>4, <1>5, <1>6 DEF Typed
<1>8. Absent(ctx)' /\ Stamped' /\ Sleeping'
  <2>1. place' # "asleep"
    BY <1>6, CoreAssumption
  <2>2. Stamped'
    BY <1>1, <1>3, <1>4, <1>5, <1>6 DEF Stamped, Counts
  <2> QED
    BY <1>4, <2>1, <2>2 DEF Sleeping, Absent
<1>9. TimesConserved'
  BY <1>1, <1>4, <1>5, <1>6, Unmoved
<1> QED
  BY <1>7, <1>8, <1>9 DEF IInv

LEMMA WakeSound == IInv /\ Wake => IInv'
<1> SUFFICES ASSUME IInv, Wake PROVE IInv'
  OBVIOUS
<1>1. Typed /\ Absent(ctx) /\ Stamped /\ Sleeping /\ TimesConserved
  BY DEF IInv
<1>2. PICK c \in Storage :
        \/ c = NoCtx /\ UNCHANGED <<ctx, seen>>
        \/ /\ c # NoCtx /\ ctx' = [c EXCEPT !.sleep_end = now]
           /\ seen' = [seen EXCEPT !.woke = now,
                         !.slept = @ + IF seen.blocked = 0 THEN 0 ELSE Units(now - seen.blocked)]
  BY DEF Wake
<1>3. /\ c \in Context /\ Same(c, ctx) /\ (c # NoCtx => c.made) /\ now \in Nat
      /\ seen \in History
  BY <1>1, StorageFacts DEF Typed
<1>4. UNCHANGED <<now, ring, pause, stats>> /\ place = "asleep" /\ place' = "ready"
  BY DEF Wake
<1>5. CASE c = NoCtx /\ UNCHANGED <<ctx, seen>>
  <2>1. Typed'
    BY <1>1, <1>4, <1>5 DEF Typed
  <2>2. place' \notin Cores
    BY <1>4, CoreAssumption
  <2>3. Absent(ctx)' /\ Stamped' /\ Sleeping'
    BY <1>1, <1>4, <1>5, <2>2 DEF Absent, Stamped, Sleeping
  <2>4. TimesConserved'
    BY <1>1, <1>4, <1>5, Unmoved DEF Counted, Counts
  <2> QED
    BY <2>1, <2>3, <2>4 DEF IInv
<1>6. CASE /\ c # NoCtx /\ ctx' = [c EXCEPT !.sleep_end = now]
           /\ seen' = [seen EXCEPT !.woke = now,
                         !.slept = @ + IF seen.blocked = 0 THEN 0 ELSE Units(now - seen.blocked)]
  <2> DEFINE more == IF seen.blocked = 0 THEN 0 ELSE Units(now - seen.blocked)
  <2>1. more \in Nat
    <3>1. now - seen.blocked \in Nat
      BY <1>1, <1>3 DEF Stamped, History
    <3> QED
      BY <3>1, UnitsType
  <2>2. /\ ctx' \in Context /\ ctx'.made /\ ctx'.sleep_end = now
        /\ ctx'.sleep_start = seen.blocked /\ ctx'.runtime_ns = ctx.runtime_ns
        /\ ctx'.sums = ctx.sums
    BY <1>1, <1>3, <1>6 DEF Context, Same, Stamped
  <2>3. seen' = [seen EXCEPT !.woke = now, !.slept = @ + more]
    BY <1>6
  <2> HIDE DEF more
  <2>4. seen' \in History
    <3>1. seen.slept + more \in Nat
      BY <1>3, <2>1 DEF History
    <3>2. seen' = [seen EXCEPT !.woke = now, !.slept = seen.slept + more]
      BY <2>3
    <3> QED
      BY <1>3, <3>1, <3>2 DEF History
  <2>5. /\ seen'.woke = now /\ seen'.slept = seen.slept + more /\ seen'.blocked = seen.blocked
        /\ seen'.began = seen.began /\ seen'.ran = seen.ran /\ seen'.blocks = seen.blocks
        /\ seen'.futexes = seen.futexes /\ seen'.unseenRun = seen.unseenRun
        /\ seen'.unseenSleep = seen.unseenSleep
    BY <1>3, <2>3 DEF History
  <2>6. Typed'
    BY <1>1, <1>4, <2>2, <2>4 DEF Typed
  <2>7. Absent(ctx)' /\ Stamped' /\ Sleeping'
    <3>1. place' \notin Cores /\ place' # "asleep"
      BY <1>4, CoreAssumption
    <3> QED
      BY <1>1, <1>3, <1>4, <2>2, <2>5, <3>1 DEF Absent, Stamped, Sleeping
  <2>8. LastSleep = 0
    <3>1. CASE seen.blocked = 0
      BY <3>1 DEF LastSleep
    <3>2. CASE seen.blocked # 0
      <4>1. ctx.sleep_end <= ctx.sleep_start /\ ctx.sleep_end \in Nat /\ ctx.sleep_start \in Nat
        BY <1>1, <1>4, <3>2 DEF Sleeping, Typed, Context
      <4>2. ~(ctx.sleep_end > ctx.sleep_start)
        BY <4>1
      <4> QED
        BY <4>2 DEF LastSleep, SleepOf
    <3> QED
      BY <3>1, <3>2
  <2>9. LastSleep' = more
    <3>1. CASE seen.blocked = 0
      BY <2>5, <3>1 DEF LastSleep, more
    <3>2. CASE seen.blocked # 0
      <4>1. LastSleep' = IF now > seen.blocked THEN Units(now - seen.blocked) ELSE 0
        BY <2>2, <2>5, <3>2 DEF LastSleep, SleepOf
      <4>2. ~(now > seen.blocked) => now - seen.blocked = 0
        BY <1>1, <1>3 DEF Stamped, History
      <4>3. Units(0) = 0
        BY UnitsType
      <4> QED
        BY <3>2, <4>1, <4>2, <4>3 DEF more
    <3> QED
      BY <3>1, <3>2
  <2>10. \A f \in Carried : Total(f)' = Total(f)
    BY <1>4, <2>2 DEF Total
  <2>11. \A f \in Carried : Total(f) \in Nat
    BY <1>1, HeldType DEF Total
  <2>12. TimesConserved'
    <3>1. /\ Total("runtime_sum")' = Total("runtime_sum") /\ Total("sleep_sum")' = Total("sleep_sum")
          /\ Total("sleep_cnt")' = Total("sleep_cnt")
          /\ Total("futex_wait_cnt")' = Total("futex_wait_cnt") /\ Total("sleep_sum") \in Nat
      BY <2>10, <2>11 DEF Carried
    <3>2. seen.slept \in Nat /\ seen.unseenSleep \in Nat
      BY <1>3 DEF History
    <3> QED
      BY <1>1, <2>1, <2>2, <2>5, <2>8, <2>9, <3>1, <3>2 DEF TimesConserved
  <2> QED
    BY <2>6, <2>7, <2>12 DEF IInv
<1> QED
  BY <1>2, <1>5, <1>6

LEMMA FutexWaitSound == IInv /\ FutexWait => IInv'
<1> SUFFICES ASSUME IInv, FutexWait PROVE IInv'
  OBVIOUS
<1>1. Typed /\ Absent(ctx) /\ Stamped /\ Sleeping /\ TimesConserved
  BY DEF IInv
<1>2. PICK c \in Storage :
        /\ ctx' = IF c = NoCtx THEN c ELSE [c EXCEPT !.sums.futex_wait_cnt = @ + 1]
        /\ seen' = IF c = NoCtx THEN seen ELSE [seen EXCEPT !.futexes = @ + 1]
  BY DEF FutexWait
<1>3. /\ c \in Context /\ Same(c, ctx) /\ (c = NoCtx => ctx = NoCtx) /\ (c # NoCtx => c.made)
      /\ seen \in History
  BY <1>1, StorageFacts DEF Typed
<1>4. UNCHANGED <<now, place, ring, pause, stats>>
  BY DEF FutexWait
<1>5. CASE c = NoCtx
  <2>1. UNCHANGED vars
    BY <1>2, <1>3, <1>4, <1>5 DEF vars
  <2> QED
    BY <2>1, QuietSound
<1>6. CASE c # NoCtx
  <2>1. c.sums \in Sums
    BY <1>3 DEF Context
  <2> DEFINE u == [c.sums EXCEPT !.futex_wait_cnt = @ + 1]
  <2>2. /\ u \in Sums /\ u.futex_wait_cnt = c.sums.futex_wait_cnt + 1
        /\ u.sleep_sum = c.sums.sleep_sum /\ u.runtime_sum = c.sums.runtime_sum
        /\ u.sleep_cnt = c.sums.sleep_cnt
    BY <2>1 DEF Sums
  <2>3. ctx' = [c EXCEPT !.sums = u]
    BY <1>2, <1>6
  <2> HIDE DEF u
  <2>4. /\ ctx' \in Context /\ ctx'.made /\ ctx'.sums = u /\ ctx'.runtime_ns = ctx.runtime_ns
        /\ ctx'.start_running = ctx.start_running /\ ctx'.sleep_start = ctx.sleep_start
        /\ ctx'.sleep_end = ctx.sleep_end
    BY <1>3, <1>6, <2>2, <2>3 DEF Context, Same
  <2>5. /\ seen' \in History /\ seen'.futexes = seen.futexes + 1
        /\ seen'.woke = seen.woke /\ seen'.slept = seen.slept /\ seen'.blocked = seen.blocked
        /\ seen'.began = seen.began /\ seen'.ran = seen.ran /\ seen'.blocks = seen.blocks
        /\ seen'.unseenRun = seen.unseenRun /\ seen'.unseenSleep = seen.unseenSleep
    BY <1>2, <1>3, <1>6 DEF History
  <2>6. Typed'
    BY <1>1, <1>4, <2>4, <2>5 DEF Typed
  <2>7. Absent(ctx)' /\ Stamped' /\ Sleeping'
    BY <1>1, <1>4, <2>4, <2>5 DEF Absent, Stamped, Sleeping
  <2>8. LastSleep' = LastSleep
    BY <2>4, <2>5 DEF LastSleep, SleepOf
  <2>9. /\ Total("runtime_sum")' = Total("runtime_sum") /\ Total("sleep_sum")' = Total("sleep_sum")
        /\ Total("sleep_cnt")' = Total("sleep_cnt")
    BY <1>3, <1>4, <2>2, <2>4 DEF Total, Same
  <2>10. Total("futex_wait_cnt")' = Total("futex_wait_cnt") + 1
    <3>1. "futex_wait_cnt" \in Carried
      BY DEF Carried
    <3>2. /\ SumOf("futex_wait_cnt", ring) \in Nat /\ stats["futex_wait_cnt"] \in Nat
          /\ ctx.sums["futex_wait_cnt"] \in Nat
      BY <1>1, <3>1, HeldType
    <3> QED
      BY <1>3, <1>4, <2>2, <2>4, <3>2 DEF Total, Same
  <2>11. TimesConserved'
    BY <1>1, <2>4, <2>5, <2>8, <2>9, <2>10 DEF TimesConserved
  <2> QED
    BY <2>6, <2>7, <2>11 DEF IInv
<1> QED
  BY <1>5, <1>6

(* The contexts of a stop: after the run is added, after the block is         *)
(* counted, and what is sent or kept.                                         *)
Run(c) == Normalized(now - c.start_running, place)
AfterRun(c) == [c EXCEPT !.runtime_ns = @ + Run(c)]
AfterBlock(c, r) == IF r THEN AfterRun(c) ELSE [AfterRun(c) EXCEPT !.sums.sleep_cnt = @ + 1]
IsEvent(c, r) == IF r THEN AfterBlock(c, r).runtime_ns >= RUNTIME_MAX_TIME
                 ELSE AfterBlock(c, r).sleep_start # 0
Slept(c, r) == IF r THEN c ELSE [c EXCEPT !.sleep_start = now]
Final(c, r) == IF IsEvent(c, r) THEN Slept(UpdateEventData(AfterBlock(c, r)), r)
               ELSE Slept(AfterBlock(c, r), r)

LEMMA StoppingCases ==
  ASSUME NEW r \in BOOLEAN, Stopping(r)
  PROVE  \E c \in Storage :
           \/ c = NoCtx /\ UNCHANGED <<ctx, ring, seen>>
           \/ /\ c # NoCtx /\ seen' = Saw(c, ~r, IsEvent(c, r))
              /\ \/ IsEvent(c, r) /\ TryDataToUser(Final(c, r))
                 \/ ~IsEvent(c, r) /\ ctx' = Final(c, r) /\ ring' = ring
<1>1. PICK c \in Storage :
        IF c = NoCtx THEN UNCHANGED <<ctx, ring, seen>>
        ELSE /\ seen' = Saw(c, ~r, IsEvent(c, r))
             /\ IF IsEvent(c, r) THEN TryDataToUser(Slept(UpdateEventData(AfterBlock(c, r)), r))
                ELSE ctx' = Slept(AfterBlock(c, r), r) /\ ring' = ring
  BY DEF Stopping, IsEvent, Slept, AfterBlock, AfterRun, Run
<1>2. CASE c = NoCtx
  BY <1>1, <1>2
<1>3. CASE c # NoCtx /\ IsEvent(c, r)
  <2>1. TryDataToUser(Final(c, r)) /\ seen' = Saw(c, ~r, IsEvent(c, r))
    BY <1>1, <1>3 DEF Final
  <2> QED
    BY <1>3, <2>1
<1>4. CASE c # NoCtx /\ ~IsEvent(c, r)
  <2>1. ctx' = Final(c, r) /\ ring' = ring /\ seen' = Saw(c, ~r, IsEvent(c, r))
    BY <1>1, <1>4 DEF Final
  <2> QED
    BY <1>4, <2>1
<1> QED
  BY <1>2, <1>3, <1>4

LEMMA AfterBlockFacts ==
  ASSUME NEW c \in Context, NEW r \in BOOLEAN, Run(c) \in Nat
  PROVE  LET d == AfterBlock(c, r) IN
         /\ d \in Context /\ d.made = c.made /\ d.runtime_ns = c.runtime_ns + Run(c)
         /\ d.sleep_start = c.sleep_start /\ d.sleep_end = c.sleep_end
         /\ d.sums.sleep_cnt = c.sums.sleep_cnt + IF r THEN 0 ELSE 1
         /\ d.sums.runtime_sum = c.sums.runtime_sum /\ d.sums.sleep_sum = c.sums.sleep_sum
         /\ d.sums.futex_wait_cnt = c.sums.futex_wait_cnt
<1> DEFINE a == AfterRun(c)
           d == AfterBlock(c, r)
           u == [c.sums EXCEPT !.sleep_cnt = @ + 1]
<1>1. /\ a \in Context /\ a.made = c.made /\ a.runtime_ns = c.runtime_ns + Run(c)
      /\ a.sleep_start = c.sleep_start /\ a.sleep_end = c.sleep_end /\ a.sums = c.sums
  <2> DEFINE m == Run(c)
  <2> HIDE DEF m
  <2>1. m \in Nat /\ c.runtime_ns \in Nat
    BY DEF m, Context
  <2>2. a = [c EXCEPT !.runtime_ns = c.runtime_ns + m]
    BY DEF AfterRun, m
  <2>3. c.runtime_ns + m \in Nat
    BY <2>1
  <2> HIDE DEF a
  <2>4. /\ a \in Context /\ a.made = c.made /\ a.runtime_ns = c.runtime_ns + m
        /\ a.sleep_start = c.sleep_start /\ a.sleep_end = c.sleep_end /\ a.sums = c.sums
    BY <2>2, <2>3 DEF Context
  <2> QED
    BY <2>4 DEF m
<1>2. c.sums \in Sums
  BY DEF Context
<1>3. /\ u \in Sums /\ u.sleep_cnt = c.sums.sleep_cnt + 1
      /\ u.runtime_sum = c.sums.runtime_sum /\ u.sleep_sum = c.sums.sleep_sum
      /\ u.futex_wait_cnt = c.sums.futex_wait_cnt
  BY <1>2 DEF Sums
<1>4. d = IF r THEN a ELSE [a EXCEPT !.sums = u]
  BY <1>1 DEF AfterBlock
<1>5. c.sums.sleep_cnt \in Nat
  BY <1>2 DEF Sums
<1> HIDE DEF a, d, u
<1>6. CASE r
  BY <1>1, <1>4, <1>5, <1>6 DEF d
<1>7. CASE ~r
  <2>1. d = [a EXCEPT !.sums = u]
    BY <1>4, <1>7
  <2>2. /\ d \in Context /\ d.made = a.made /\ d.runtime_ns = a.runtime_ns
        /\ d.sleep_start = a.sleep_start /\ d.sleep_end = a.sleep_end /\ d.sums = u
    BY <1>1, <1>3, <2>1 DEF Context
  <2> QED
    BY <1>1, <1>3, <1>7, <2>2 DEF d
<1> QED
  BY <1>6, <1>7

(* An event moves the run and the sleep from the context to its sums.         *)
LEMMA UpdateFacts ==
  ASSUME NEW c \in Context
  PROVE  LET d == UpdateEventData(c) IN
         /\ d \in Context /\ d.made = c.made /\ d.runtime_ns = 0
         /\ d.sleep_start = c.sleep_start /\ d.sleep_end = 0
         /\ d.sums.sleep_cnt = c.sums.sleep_cnt
         /\ d.sums.futex_wait_cnt = c.sums.futex_wait_cnt
         /\ d.sums.runtime_sum = c.sums.runtime_sum + c.runtime_ns
         /\ d.sums.sleep_sum = c.sums.sleep_sum + SleepOf(c)
<1> DEFINE d == UpdateEventData(c)
           m == SleepOf(c)
           u == [c.sums EXCEPT !.event_cnt = @ + 1, !.sleep_sum = @ + m,
                               !.runtime_sum = @ + c.runtime_ns]
<1>1. m \in Nat
  BY SleepType
<1> HIDE DEF m
<1>2. c.sums \in Sums /\ c.runtime_ns \in Nat
  BY DEF Context
<1>3. /\ u \in Sums /\ u.sleep_cnt = c.sums.sleep_cnt
      /\ u.futex_wait_cnt = c.sums.futex_wait_cnt
      /\ u.runtime_sum = c.sums.runtime_sum + c.runtime_ns /\ u.sleep_sum = c.sums.sleep_sum + m
  <2> DEFINE e == c.sums.event_cnt + 1
             l == c.sums.sleep_sum + m
             n == c.sums.runtime_sum + c.runtime_ns
  <2>1. e \in Nat /\ l \in Nat /\ n \in Nat
    BY <1>1, <1>2 DEF Sums
  <2>2. u = [c.sums EXCEPT !.event_cnt = e, !.sleep_sum = l, !.runtime_sum = n]
    OBVIOUS
  <2> HIDE DEF e, l, n, u
  <2>3. /\ u \in Sums /\ u.sleep_cnt = c.sums.sleep_cnt
        /\ u.futex_wait_cnt = c.sums.futex_wait_cnt /\ u.runtime_sum = n /\ u.sleep_sum = l
    BY <1>2, <2>1, <2>2 DEF Sums
  <2> QED
    BY <2>3 DEF l, n
<1>4. d = [c EXCEPT !.sums = u, !.runtime_ns = 0, !.sleep_end = 0]
  BY DEF UpdateEventData, m, Context
<1> HIDE DEF d, u
<1>5. /\ d \in Context /\ d.made = c.made /\ d.runtime_ns = 0 /\ d.sums = u
      /\ d.sleep_start = c.sleep_start /\ d.sleep_end = 0
  BY <1>3, <1>4 DEF Context
<1> QED
  BY <1>3, <1>5 DEF d, m

LEMMA FinalFacts ==
  ASSUME NEW c \in Context, NEW r \in BOOLEAN, Run(c) \in Nat, now \in Nat
  PROVE  LET d == Final(c, r)
             e == IsEvent(c, r) IN
         /\ d \in Context /\ d.made = c.made
         /\ d.sleep_start = (IF r THEN c.sleep_start ELSE now)
         /\ d.sleep_end = (IF e THEN 0 ELSE c.sleep_end)
         /\ d.runtime_ns = (IF e THEN 0 ELSE c.runtime_ns + Run(c))
         /\ d.sums.sleep_cnt = c.sums.sleep_cnt + IF r THEN 0 ELSE 1
         /\ d.sums.futex_wait_cnt = c.sums.futex_wait_cnt
         /\ d.sums.runtime_sum = c.sums.runtime_sum + IF e THEN c.runtime_ns + Run(c) ELSE 0
         /\ d.sums.sleep_sum = c.sums.sleep_sum + IF e THEN SleepOf(c) ELSE 0
         /\ ~r => (e <=> c.sleep_start # 0)
<1> DEFINE e == IsEvent(c, r)
           b == AfterBlock(c, r)
           u == IF e THEN UpdateEventData(b) ELSE b
           d == Final(c, r)
<1>1. /\ b \in Context /\ b.made = c.made /\ b.runtime_ns = c.runtime_ns + Run(c)
      /\ b.sleep_start = c.sleep_start /\ b.sleep_end = c.sleep_end
      /\ b.sums.sleep_cnt = c.sums.sleep_cnt + IF r THEN 0 ELSE 1
      /\ b.sums.runtime_sum = c.sums.runtime_sum /\ b.sums.sleep_sum = c.sums.sleep_sum
      /\ b.sums.futex_wait_cnt = c.sums.futex_wait_cnt
  BY AfterBlockFacts
<1>2. SleepOf(b) = SleepOf(c)
  BY <1>1 DEF SleepOf
<1>3. ~r => (e <=> c.sleep_start # 0)
  BY <1>1 DEF IsEvent
<1>4. d = Slept(u, r)
  BY DEF Final
<1>5. c.sums \in Sums /\ c.runtime_ns \in Nat
  BY DEF Context
<1>6. c.sums.runtime_sum \in Nat /\ c.sums.sleep_sum \in Nat
  BY <1>5 DEF Sums
<1> HIDE DEF b, e, d
<1>7. /\ u \in Context /\ u.made = c.made /\ u.sleep_start = c.sleep_start
      /\ u.sleep_end = (IF e THEN 0 ELSE c.sleep_end)
      /\ u.runtime_ns = (IF e THEN 0 ELSE c.runtime_ns + Run(c))
      /\ u.sums.sleep_cnt = b.sums.sleep_cnt
      /\ u.sums.futex_wait_cnt = c.sums.futex_wait_cnt
      /\ u.sums.runtime_sum = c.sums.runtime_sum + (IF e THEN c.runtime_ns + Run(c) ELSE 0)
      /\ u.sums.sleep_sum = c.sums.sleep_sum + (IF e THEN SleepOf(c) ELSE 0)
  <2>1. CASE e
    <3> DEFINE v == UpdateEventData(b)
    <3>1. /\ v \in Context /\ v.made = b.made /\ v.runtime_ns = 0
          /\ v.sleep_start = b.sleep_start /\ v.sleep_end = 0
          /\ v.sums.sleep_cnt = b.sums.sleep_cnt
          /\ v.sums.futex_wait_cnt = b.sums.futex_wait_cnt
          /\ v.sums.runtime_sum = b.sums.runtime_sum + b.runtime_ns
          /\ v.sums.sleep_sum = b.sums.sleep_sum + SleepOf(b)
      BY <1>1, UpdateFacts
    <3>2. u = v
      BY <2>1
    <3> HIDE DEF u, v
    <3> QED
      BY <1>1, <1>2, <2>1, <3>1, <3>2
  <2>2. CASE ~e
    BY <1>1, <1>6, <2>2
  <2> QED
    BY <2>1, <2>2
<1> HIDE DEF u
<1>8. /\ d \in Context /\ d.made = u.made /\ d.sleep_start = (IF r THEN u.sleep_start ELSE now)
      /\ d.sleep_end = u.sleep_end /\ d.runtime_ns = u.runtime_ns /\ d.sums = u.sums
  <2>1. d = IF r THEN u ELSE [u EXCEPT !.sleep_start = now]
    BY <1>4 DEF Slept
  <2> QED
    BY <1>7, <2>1 DEF Context
<1>9. /\ d \in Context /\ d.made = c.made
      /\ d.sleep_start = (IF r THEN c.sleep_start ELSE now)
      /\ d.sleep_end = (IF e THEN 0 ELSE c.sleep_end)
      /\ d.runtime_ns = (IF e THEN 0 ELSE c.runtime_ns + Run(c))
      /\ d.sums.sleep_cnt = c.sums.sleep_cnt + IF r THEN 0 ELSE 1
      /\ d.sums.futex_wait_cnt = c.sums.futex_wait_cnt
      /\ d.sums.runtime_sum = c.sums.runtime_sum + (IF e THEN c.runtime_ns + Run(c) ELSE 0)
      /\ d.sums.sleep_sum = c.sums.sleep_sum + (IF e THEN SleepOf(c) ELSE 0)
  BY <1>1, <1>7, <1>8
<1> QED
  BY <1>3, <1>9 DEF d, e

(* The time a stop adds to the context: since the start of the run, or since  *)
(* the boot if the context does not know it.                                  *)
LEMMA RunFacts ==
  ASSUME Typed, Absent(ctx), Stamped, place \in Cores, NEW c \in Storage
  PROVE  LET run == Normalized(now - seen.began, place) IN
         /\ run \in Nat /\ Normalized(now, place) \in Nat /\ Run(c) \in Nat
         /\ Run(c) = run + IF c.start_running = 0 THEN Normalized(now, place) - run ELSE 0
<1>1. /\ now \in Nat /\ seen.began \in Nat /\ seen.began <= now
      /\ c.start_running \in {0, seen.began}
  BY StorageFacts DEF Typed, History, Stamped, Same
<1>2. now - seen.began \in Nat /\ now - 0 = now
  BY <1>1
<1>3. Normalized(now - seen.began, place) \in Nat /\ Normalized(now, place) \in Nat
  BY <1>1, <1>2, NormalizedType
<1>4. CASE c.start_running = 0
  <2>1. Run(c) = Normalized(now, place)
    BY <1>2, <1>4 DEF Run
  <2> QED
    BY <1>3, <1>4, <2>1
<1>5. CASE c.start_running # 0
  <2>1. Run(c) = Normalized(now - seen.began, place)
    BY <1>1, <1>5 DEF Run
  <2> QED
    BY <1>3, <1>5, <2>1
<1> QED
  BY <1>4, <1>5

(* What a stop adds to the history.                                           *)
LEMMA SawFacts ==
  ASSUME Typed, NEW c \in Context, NEW blocks \in BOOLEAN, NEW e \in BOOLEAN, place \in Cores,
         Normalized(now - seen.began, place) \in Nat, Normalized(now, place) \in Nat
  PROVE  LET s == Saw(c, blocks, e)
             run == Normalized(now - seen.began, place) IN
         /\ s \in History /\ s.began = seen.began /\ s.futexes = seen.futexes
         /\ s.slept = seen.slept /\ s.ran = seen.ran + run
         /\ s.unseenRun = seen.unseenRun + IF c.start_running = 0 THEN Normalized(now, place) - run ELSE 0
         /\ s.blocks = seen.blocks + IF blocks THEN 1 ELSE 0
         /\ s.blocked = (IF blocks THEN now ELSE seen.blocked)
         /\ s.unseenSleep = seen.unseenSleep + IF e /\ seen.blocked = 0 THEN Units(seen.woke) ELSE 0
         /\ s.woke = (IF e THEN 0 ELSE seen.woke)
<1> DEFINE run == Normalized(now - seen.began, place)
           all == Normalized(now, place)
           s == Saw(c, blocks, e)
           sr == seen.ran + run
           su == seen.unseenRun + IF c.start_running = 0 THEN all - run ELSE 0
           sb == seen.blocks + IF blocks THEN 1 ELSE 0
           sl == IF blocks THEN now ELSE seen.blocked
           ss == seen.unseenSleep + IF e /\ seen.blocked = 0 THEN Units(seen.woke) ELSE 0
           sw == IF e THEN 0 ELSE seen.woke
<1>1. seen \in History /\ now \in Nat
  BY DEF Typed
<1>2. s = [seen EXCEPT !.ran = sr, !.unseenRun = su, !.blocks = sb, !.blocked = sl,
                       !.unseenSleep = ss, !.woke = sw]
  BY DEF Saw
<1>3. run \in Nat /\ all \in Nat /\ Units(seen.woke) \in Nat
  BY <1>1, UnitsType DEF History
<1> HIDE DEF run, all
<1>4. sr \in Nat /\ su \in Int /\ sb \in Nat /\ sl \in Nat /\ ss \in Nat /\ sw \in Nat
  BY <1>1, <1>3 DEF History
<1> HIDE DEF s, sr, su, sb, sl, ss, sw
<1>5. /\ s \in History /\ s.began = seen.began /\ s.futexes = seen.futexes
      /\ s.slept = seen.slept /\ s.ran = sr /\ s.unseenRun = su /\ s.blocks = sb
      /\ s.blocked = sl /\ s.unseenSleep = ss /\ s.woke = sw
  BY <1>1, <1>2, <1>4 DEF History
<1> QED
  BY <1>5 DEF s, sr, su, sb, sl, ss, sw, run, all

LEMMA StoppingSound == ASSUME NEW r \in BOOLEAN PROVE IInv /\ Stopping(r) => IInv'
<1> SUFFICES ASSUME IInv, Stopping(r) PROVE IInv'
  OBVIOUS
<1>1. Typed /\ Absent(ctx) /\ Stamped /\ Sleeping /\ TimesConserved
  BY DEF IInv
<1>2. /\ place \in Cores /\ place' = (IF r THEN "ready" ELSE "asleep")
      /\ UNCHANGED <<now, pause, stats>>
  BY DEF Stopping
<1>3. place' \notin Cores /\ (place' = "asleep" => ~r)
  BY <1>2, CoreAssumption
<1>4. PICK c \in Storage :
        \/ c = NoCtx /\ UNCHANGED <<ctx, ring, seen>>
        \/ /\ c # NoCtx /\ seen' = Saw(c, ~r, IsEvent(c, r))
           /\ \/ IsEvent(c, r) /\ TryDataToUser(Final(c, r))
              \/ ~IsEvent(c, r) /\ ctx' = Final(c, r) /\ ring' = ring
  BY StoppingCases
<1>5. /\ c \in Context /\ Same(c, ctx) /\ (c = NoCtx => ctx = NoCtx) /\ (c # NoCtx => c.made)
  BY <1>1, StorageFacts
<1>6. now \in Nat /\ seen \in History /\ ctx \in Context
  BY <1>1 DEF Typed
<1>7. CASE c = NoCtx /\ UNCHANGED <<ctx, ring, seen>>
  <2>1. Typed'
    BY <1>1, <1>2, <1>7 DEF Typed
  <2>2. Sleeping'
    BY <1>1, <1>5, <1>7, NoCtxFacts DEF Stamped, Sleeping
  <2>3. Absent(ctx)' /\ Stamped'
    BY <1>1, <1>2, <1>3, <1>7 DEF Absent, Stamped
  <2>4. TimesConserved'
    BY <1>1, <1>2, <1>7, Unmoved DEF Counted, Counts
  <2> QED
    BY <2>1, <2>2, <2>3, <2>4 DEF IInv
<1>8. CASE /\ c # NoCtx /\ seen' = Saw(c, ~r, IsEvent(c, r))
           /\ \/ IsEvent(c, r) /\ TryDataToUser(Final(c, r))
              \/ ~IsEvent(c, r) /\ ctx' = Final(c, r) /\ ring' = ring
  <2> DEFINE d == Final(c, r)
             e == IsEvent(c, r)
             run == Normalized(now - seen.began, place)
             extra == IF c.start_running = 0 THEN Normalized(now, place) - run ELSE 0
             m == SleepOf(c)
  <2>1. e \in BOOLEAN
    <3>1. CASE r
      <4> DEFINE x == AfterBlock(c, r).runtime_ns
      <4>1. e = (x >= RUNTIME_MAX_TIME)
        BY <3>1 DEF IsEvent
      <4>2. x \in Nat /\ RUNTIME_MAX_TIME \in Nat
        <5>1. Run(c) \in Nat
          BY <1>1, <1>2, RunFacts
        <5> QED
          BY <1>5, <5>1, AfterBlockFacts, IntervalAssumption DEF Context
      <4> HIDE DEF e, x
      <4>3. (x >= RUNTIME_MAX_TIME) \in BOOLEAN
        BY <4>2
      <4> QED
        BY <4>1, <4>3
    <3>2. CASE ~r
      <4>1. e <=> AfterBlock(c, r).sleep_start # 0
        BY <3>2 DEF IsEvent
      <4> HIDE DEF e
      <4> QED
        BY <4>1
    <3> QED
      BY <3>1, <3>2
  <2>2. run \in Nat /\ Normalized(now, place) \in Nat /\ Run(c) \in Nat /\ Run(c) = run + extra
    BY <1>1, <1>2, RunFacts
  <2>3. extra \in Int /\ m \in Nat
    BY <1>5, <2>2, SleepType
  <2>4. /\ d \in Context /\ d.made = c.made
        /\ d.sleep_start = (IF r THEN c.sleep_start ELSE now)
        /\ d.sleep_end = (IF e THEN 0 ELSE c.sleep_end)
        /\ d.runtime_ns = (IF e THEN 0 ELSE c.runtime_ns + Run(c))
        /\ d.sums.sleep_cnt = c.sums.sleep_cnt + (IF r THEN 0 ELSE 1)
        /\ d.sums.futex_wait_cnt = c.sums.futex_wait_cnt
        /\ d.sums.runtime_sum = c.sums.runtime_sum + (IF e THEN c.runtime_ns + Run(c) ELSE 0)
        /\ d.sums.sleep_sum = c.sums.sleep_sum + (IF e THEN m ELSE 0)
        /\ (~r => (e <=> c.sleep_start # 0))
    BY <1>5, <1>6, <2>2, FinalFacts
  <2>5. /\ seen' \in History /\ seen'.began = seen.began /\ seen'.futexes = seen.futexes
        /\ seen'.slept = seen.slept /\ seen'.ran = seen.ran + run
        /\ seen'.unseenRun = seen.unseenRun + extra
        /\ seen'.blocks = seen.blocks + (IF ~r THEN 1 ELSE 0)
        /\ seen'.blocked = (IF ~r THEN now ELSE seen.blocked)
        /\ seen'.unseenSleep = seen.unseenSleep + (IF e /\ seen.blocked = 0 THEN Units(seen.woke) ELSE 0)
        /\ seen'.woke = (IF e THEN 0 ELSE seen.woke)
    <3> DEFINE b == ~r
    <3>1. seen' = Saw(c, b, e)
      BY <1>8
    <3>2. /\ Typed /\ c \in Context /\ b \in BOOLEAN /\ e \in BOOLEAN /\ place \in Cores
          /\ Normalized(now - seen.began, place) \in Nat /\ Normalized(now, place) \in Nat
      BY <1>1, <1>2, <1>5, <2>1, <2>2
    <3> HIDE DEF b, e
    <3>3. /\ seen' \in History /\ seen'.began = seen.began /\ seen'.futexes = seen.futexes
          /\ seen'.slept = seen.slept /\ seen'.ran = seen.ran + run
          /\ seen'.unseenRun = seen.unseenRun + extra
          /\ seen'.blocks = seen.blocks + (IF b THEN 1 ELSE 0)
          /\ seen'.blocked = (IF b THEN now ELSE seen.blocked)
          /\ seen'.unseenSleep = seen.unseenSleep + (IF e /\ seen.blocked = 0 THEN Units(seen.woke) ELSE 0)
          /\ seen'.woke = (IF e THEN 0 ELSE seen.woke)
      BY <3>1, <3>2, SawFacts
    <3> QED
      BY <3>3 DEF b
  <2> HIDE DEF d, run, extra, m
  <2>6. /\ ctx' \in Context /\ ctx'.made /\ ring' \in Seq(Sums)
        /\ ctx'.sleep_start = d.sleep_start /\ ctx'.sleep_end = d.sleep_end
        /\ ctx'.runtime_ns = d.runtime_ns
        /\ \A f \in Carried : SumOf(f, ring') + ctx'.sums[f] = SumOf(f, ring) + d.sums[f]
    <3>1. CASE e /\ TryDataToUser(d)
      BY <1>1, <1>5, <1>8, <2>4, <3>1, SendKeeps
    <3>2. CASE ctx' = d /\ ring' = ring
      BY <1>1, <1>5, <1>8, <2>4, <3>2 DEF Typed
    <3> QED
      BY <1>8, <3>1, <3>2 DEF d
  <2> HIDE DEF e
  <2>7. /\ c.sleep_start = seen.blocked /\ c.sleep_end = seen.woke
        /\ c.runtime_ns = ctx.runtime_ns /\ c.sums = ctx.sums
    BY <1>1, <1>5 DEF Same, Stamped
  <2>8. Typed'
    BY <1>1, <1>2, <2>5, <2>6 DEF Typed
  <2>9. Absent(ctx)' /\ Stamped'
    BY <1>1, <1>2, <1>3, <1>6, <2>4, <2>5, <2>6, <2>7 DEF Absent, Stamped
  <2>10. Sleeping'
    <3>1. CASE r
      BY <1>3, <3>1 DEF Sleeping
    <3>2. CASE ~r
      <4>1. ctx'.sleep_start = now /\ (ctx'.sleep_end = 0 \/ ctx'.sleep_end = seen.woke)
        BY <2>4, <2>6, <2>7, <3>2
      <4>2. seen.woke <= now /\ 0 <= now
        BY <1>1, <1>6 DEF Stamped
      <4> QED
        BY <4>1, <4>2 DEF Sleeping
    <3> QED
      BY <3>1, <3>2
  <2>11. m = IF seen.woke > seen.blocked THEN Units(seen.woke - seen.blocked) ELSE 0
    BY <2>7 DEF SleepOf, m
  <2>12. LastSleep = IF seen.blocked = 0 THEN 0 ELSE m
    BY <1>1, <2>11 DEF LastSleep, SleepOf, Stamped
  <2>13. seen.blocked = 0 => m = Units(seen.woke)
    <3>1. seen.woke \in Nat /\ seen.woke - 0 = seen.woke /\ Units(0) = 0
      BY <1>6, UnitsType DEF History
    <3> QED
      BY <2>11, <3>1
  <2>14. LastSleep' = IF e THEN 0 ELSE LastSleep
    <3>1. LastSleep' = IF seen'.blocked = 0 THEN 0
                       ELSE IF ctx'.sleep_end > ctx'.sleep_start
                            THEN Units(ctx'.sleep_end - ctx'.sleep_start) ELSE 0
      BY DEF LastSleep, SleepOf
    <3>2. CASE e
      <4>1. ctx'.sleep_end = 0 /\ ctx'.sleep_start \in Nat
        BY <2>4, <2>6, <3>2 DEF Context
      <4>2. ~(ctx'.sleep_end > ctx'.sleep_start)
        BY <4>1
      <4> QED
        BY <3>1, <3>2, <4>2
    <3>3. CASE ~e /\ r
      <4>1. /\ ctx'.sleep_end = seen.woke /\ ctx'.sleep_start = seen.blocked
            /\ seen'.blocked = seen.blocked
        BY <2>4, <2>5, <2>6, <2>7, <3>3
      <4> QED
        BY <2>11, <2>12, <3>1, <3>3, <4>1
    <3>4. CASE ~e /\ ~r
      <4>1. ctx'.sleep_end = seen.woke /\ ctx'.sleep_start = now /\ seen.blocked = 0
        BY <2>4, <2>6, <2>7, <3>4
      <4>2. ~(seen.woke > now)
        BY <1>1, <1>6 DEF Stamped, History
      <4> QED
        BY <2>12, <3>1, <3>4, <4>1, <4>2
    <3> QED
      BY <3>2, <3>3, <3>4
  <2>15. ASSUME NEW f \in Carried
         PROVE  /\ Total(f)' = stats[f] + (SumOf(f, ring) + d.sums[f])
                /\ Total(f) = stats[f] + (SumOf(f, ring) + ctx.sums[f])
                /\ stats[f] \in Nat /\ SumOf(f, ring) \in Nat /\ ctx.sums[f] \in Nat
                /\ d.sums[f] \in Nat
    <3>1. stats[f] \in Nat /\ SumOf(f, ring) \in Nat /\ ctx.sums[f] \in Nat
      BY <1>1, HeldType
    <3>2. /\ SumOf(f, ring') \in Nat /\ ctx'.sums[f] \in Nat /\ d.sums[f] \in Nat
      BY <2>4, <2>6, SumsAreNumbers, SumType DEF Context
    <3>3. SumOf(f, ring') + ctx'.sums[f] = SumOf(f, ring) + d.sums[f]
      BY <2>6
    <3>4. Total(f)' = stats[f] + SumOf(f, ring') + ctx'.sums[f]
      BY <1>2 DEF Total
    <3>5. Total(f) = stats[f] + SumOf(f, ring) + ctx.sums[f]
      BY DEF Total
    <3> QED
      BY <3>1, <3>2, <3>3, <3>4, <3>5
  <2>16. Total("runtime_sum")' + ctx'.runtime_ns = seen'.ran + seen'.unseenRun
    <3>1. "runtime_sum" \in Carried
      BY DEF Carried
    <3>2. /\ Total("runtime_sum")' = stats["runtime_sum"] + (SumOf("runtime_sum", ring) + d.sums["runtime_sum"])
          /\ Total("runtime_sum") = stats["runtime_sum"] + (SumOf("runtime_sum", ring) + ctx.sums["runtime_sum"])
          /\ stats["runtime_sum"] \in Nat /\ SumOf("runtime_sum", ring) \in Nat
          /\ ctx.sums["runtime_sum"] \in Nat
      BY <2>15, <3>1
    <3>3. Total("runtime_sum") + ctx.runtime_ns = seen.ran + seen.unseenRun
      BY <1>1 DEF TimesConserved
    <3>4. /\ d.sums.runtime_sum = ctx.sums.runtime_sum + (IF e THEN ctx.runtime_ns + (run + extra) ELSE 0)
          /\ ctx'.runtime_ns = (IF e THEN 0 ELSE ctx.runtime_ns + (run + extra))
      BY <2>2, <2>4, <2>6, <2>7
    <3>5. ctx.runtime_ns \in Nat /\ seen.ran \in Nat /\ seen.unseenRun \in Int
      BY <1>6 DEF Context, History
    <3> QED
      BY <2>2, <2>3, <2>5, <3>2, <3>3, <3>4, <3>5
  <2>17. Total("sleep_sum")' + LastSleep' = seen'.slept + seen'.unseenSleep
    <3>1. "sleep_sum" \in Carried
      BY DEF Carried
    <3>2. /\ Total("sleep_sum")' = stats["sleep_sum"] + (SumOf("sleep_sum", ring) + d.sums["sleep_sum"])
          /\ Total("sleep_sum") = stats["sleep_sum"] + (SumOf("sleep_sum", ring) + ctx.sums["sleep_sum"])
          /\ stats["sleep_sum"] \in Nat /\ SumOf("sleep_sum", ring) \in Nat
          /\ ctx.sums["sleep_sum"] \in Nat
      BY <2>15, <3>1
    <3>3. Total("sleep_sum") + LastSleep = seen.slept + seen.unseenSleep
      BY <1>1 DEF TimesConserved
    <3>4. d.sums.sleep_sum = ctx.sums.sleep_sum + (IF e THEN m ELSE 0)
      BY <2>4, <2>7
    <3>5. seen.slept \in Nat /\ seen.unseenSleep \in Nat
      BY <1>6 DEF History
    <3> QED
      BY <2>3, <2>5, <2>12, <2>13, <2>14, <3>2, <3>3, <3>4, <3>5
  <2>18. Total("sleep_cnt")' = seen'.blocks
    <3>1. "sleep_cnt" \in Carried
      BY DEF Carried
    <3>2. /\ Total("sleep_cnt")' = stats["sleep_cnt"] + (SumOf("sleep_cnt", ring) + d.sums["sleep_cnt"])
          /\ Total("sleep_cnt") = stats["sleep_cnt"] + (SumOf("sleep_cnt", ring) + ctx.sums["sleep_cnt"])
          /\ stats["sleep_cnt"] \in Nat /\ SumOf("sleep_cnt", ring) \in Nat
          /\ ctx.sums["sleep_cnt"] \in Nat
      BY <2>15, <3>1
    <3>3. Total("sleep_cnt") = seen.blocks
      BY <1>1 DEF TimesConserved
    <3>4. d.sums.sleep_cnt = ctx.sums.sleep_cnt + (IF r THEN 0 ELSE 1)
      BY <2>4, <2>7
    <3> QED
      BY <2>5, <3>2, <3>3, <3>4
  <2>19. Total("futex_wait_cnt")' = seen'.futexes
    <3>1. "futex_wait_cnt" \in Carried
      BY DEF Carried
    <3>2. Total("futex_wait_cnt")' = Total("futex_wait_cnt")
      BY <2>4, <2>7, <2>15, <3>1
    <3> QED
      BY <1>1, <2>5, <3>2 DEF TimesConserved
  <2>20. TimesConserved'
    BY <2>16, <2>17, <2>18, <2>19 DEF TimesConserved
  <2> QED
    BY <2>8, <2>9, <2>10, <2>20 DEF IInv
<1> QED
  BY <1>4, <1>7, <1>8

-------------------------------------------------------------------------------
(* For all clocks, CPUs, frequencies, intervals and ring sizes: every time    *)
(* the callbacks of a thread see is in exactly one of its context, the ring   *)
(* buffer and its TaskStats, but for the two the code counts from the boot.   *)
THEOREM TimesCounted == Spec => []TimesConserved
<1>1. Init => IInv
  BY InitSound
<1>2. IInv /\ [Next]_vars => IInv'
  <2>1. TRUE \in BOOLEAN /\ FALSE \in BOOLEAN
    OBVIOUS
  <2> QED
    BY <2>1, WakeSound, TouchSound, RunningSound, FutexWaitSound, StoppingSound, PollSound,
       QuietSound DEF Next
<1>3. IInv => TimesConserved
  BY DEF IInv
<1> QED
  BY <1>1, <1>2, <1>3, PTL DEF Spec
=============================================================================
