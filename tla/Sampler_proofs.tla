--------------------------- MODULE Sampler_proofs ---------------------------
(***************************************************************************)
(* Proofs about Sampler, for any number of CPUs, tids, threads that share  *)
(* a tid one after the other, hotplugs and samples that fail.              *)
(***************************************************************************)
EXTENDS Sampler, FiniteSetTheorems, WellFoundedInduction, TLAPS

-----------------------------------------------------------------------------
(* Sums over the CPUs. *)

(* Induction over the numbers: a set of counterexamples has a least one. *)
LEMMA Least ==
  ASSUME NEW T \in SUBSET Nat, T # {}
  PROVE  \E n \in T : \A m \in T : n <= m
<1>1. PICK R : IsWellFoundedOn(R, Nat) /\ \A x, y \in Nat : <<y, x>> \in R <=> y < x
  <2>1. \A x, y \in Nat : <<y, x>> \in OpToRel(<, Nat) <=> y < x
    BY DEF OpToRel
  <2> QED
    BY <2>1, NatLessThanWellFounded
<1>2. PICK n \in T : \A m \in T : <<m, n>> \notin R
  BY <1>1, WFMin
<1>3. ASSUME NEW m \in T PROVE n <= m
  <2>1. m \in Nat /\ n \in Nat /\ (<<m, n>> \in R <=> m < n)
    BY <1>1
  <2>2. ~(m < n)
    BY <1>2, <2>1
  <2> QED
    BY <2>1, <2>2
<1> QED
  BY <1>3

(* b has the sums over the first CPUs *)
IsSum(b, f, n) == b = [c \in 0 .. n |-> IF c = 0 THEN 0 ELSE b[c - 1] + f[c]]

LEMMA SumExists ==
  ASSUME NEW f, NEW n \in Nat
  PROVE  \E b : IsSum(b, f, n)
<1> DEFINE T == {m \in Nat : ~\E b : IsSum(b, f, m)}
<1>1. SUFFICES ASSUME T # {} PROVE FALSE
  OBVIOUS
<1>2. PICK m \in T : \A k \in T : m <= k
  <2> HIDE DEF T
  <2>1. T \in SUBSET Nat
    BY DEF T
  <2> QED
    BY <1>1, <2>1, Least
<1>3. m # 0
  <2> DEFINE b == [c \in 0 .. 0 |-> 0]
  <2>1. IsSum(b, f, 0)
    BY DEF IsSum
  <2> QED
    BY <2>1
<1>4. PICK b : IsSum(b, f, m - 1)
  <2>1. m - 1 \in Nat /\ ~(m <= m - 1)
    BY <1>3
  <2> QED
    BY <1>2, <2>1
<1> DEFINE d == [c \in 0 .. m |-> IF c = m THEN b[m - 1] + f[m] ELSE b[c]]
<1>5. \A c \in 0 .. m : d[c] = IF c = 0 THEN 0 ELSE d[c - 1] + f[c]
  <2>1. \A c \in 0 .. m - 1 : b[c] = IF c = 0 THEN 0 ELSE b[c - 1] + f[c]
    BY <1>4 DEF IsSum
  <2>2. d[m] = b[m - 1] + f[m] /\ \A c \in 0 .. m - 1 : d[c] = b[c]
    OBVIOUS
  <2> HIDE DEF d
  <2>3. ASSUME NEW c \in 0 .. m
        PROVE  d[c] = IF c = 0 THEN 0 ELSE d[c - 1] + f[c]
    <3>1. CASE c = m
      <4>1. m - 1 \in 0 .. m - 1
        BY <1>3
      <4> QED
        BY <1>3, <2>2, <3>1, <4>1
    <3>2. CASE c # m
      <4>1. c \in 0 .. m - 1 /\ (c # 0 => c - 1 \in 0 .. m - 1)
        BY <3>2
      <4> QED
        BY <2>1, <2>2, <4>1
    <3> QED
      BY <3>1, <3>2
  <2> QED
    BY <2>3
<1>6. IsSum(d, f, m)
  <2>1. d = [c \in 0 .. m |-> d[c]]
    OBVIOUS
  <2> HIDE DEF d
  <2> QED
    BY <1>5, <2>1 DEF IsSum
<1> QED
  BY <1>6

(* Total is the last of such a list. *)
LEMMA SumValue ==
  ASSUME NEW f
  PROVE  \E b : IsSum(b, f, CpuCount) /\ Total(f) = b[CpuCount]
<1> DEFINE u == CHOOSE u : IsSum(u, f, CpuCount)
<1>1. IsSum(u, f, CpuCount)
  BY SumExists, SamplerAssumption
<1>2. Total(f) = u[CpuCount]
  BY DEF Total, IsSum
<1> HIDE DEF u
<1> QED
  BY <1>1, <1>2

(* The sum of numbers is a number, and sums add up. *)
LEMMA SumAdds ==
  ASSUME NEW f, NEW g, NEW h,
         \A c \in CpuIds : f[c] \in Nat /\ g[c] \in Nat /\ h[c] = f[c] + g[c]
  PROVE  Total(f) \in Nat /\ Total(g) \in Nat /\ Total(h) = Total(f) + Total(g)
<1>1. PICK x : IsSum(x, f, CpuCount) /\ Total(f) = x[CpuCount]
  BY SumValue
<1>2. PICK y : IsSum(y, g, CpuCount) /\ Total(g) = y[CpuCount]
  BY SumValue
<1>3. PICK z : IsSum(z, h, CpuCount) /\ Total(h) = z[CpuCount]
  BY SumValue
<1>4. CpuCount \in Nat /\ CpuIds = 1 .. CpuCount
  BY SamplerAssumption DEF CpuIds
<1> DEFINE Right(c) == x[c] \in Nat /\ y[c] \in Nat /\ z[c] = x[c] + y[c]
           T == {c \in 0 .. CpuCount : ~Right(c)}
<1>5. T = {}
  <2>1. SUFFICES ASSUME T # {} PROVE FALSE
    OBVIOUS
  <2>2. PICK m \in T : \A k \in T : m <= k
    <3>1. T \in SUBSET Nat
      BY <1>4
    <3> HIDE DEF T
    <3> QED
      BY <2>1, <3>1, Least
  <2>3. /\ x[m] = IF m = 0 THEN 0 ELSE x[m - 1] + f[m]
        /\ y[m] = IF m = 0 THEN 0 ELSE y[m - 1] + g[m]
        /\ z[m] = IF m = 0 THEN 0 ELSE z[m - 1] + h[m]
    BY <1>1, <1>2, <1>3 DEF IsSum
  <2>4. m # 0
    BY <2>2, <2>3
  <2>5. m - 1 \in 0 .. CpuCount /\ m \in CpuIds /\ Right(m - 1)
    BY <1>4, <2>2, <2>4
  <2>6. ~Right(m)
    BY <2>2
  <2> HIDE DEF T
  <2> QED
    BY <2>3, <2>4, <2>5, <2>6
<1>6. Right(CpuCount)
  BY <1>4, <1>5
<1> QED
  BY <1>1, <1>2, <1>3, <1>6

-----------------------------------------------------------------------------
(* The lines of /proc/stat. *)

(* Some CPUs can be put in order: the place of one is how many are below.   *)
LEMMA InOrderType ==
  ASSUME NEW S \in SUBSET CpuIds
  PROVE  /\ Cardinality(S) \in Nat
         /\ InOrder(S) \in [1 .. Cardinality(S) -> S]
<1>1. /\ IsFiniteSet(S) /\ S \subseteq Nat
  <2>1. IsFiniteSet(1 .. CpuCount) /\ CpuIds = 1 .. CpuCount
    BY FS_Interval, SamplerAssumption DEF CpuIds
  <2>2. IsFiniteSet(S)
    BY <2>1, FS_Subset
  <2>3. 1 .. CpuCount \subseteq Nat
    BY SamplerAssumption
  <2> QED
    BY <2>1, <2>2, <2>3
<1> DEFINE n == Cardinality(S)
           Below(x) == {y \in S : y < x}
           place == [x \in S |-> Cardinality(Below(x)) + 1]
<1>2. n \in Nat
  BY <1>1, FS_CardinalityType
<1>3. ASSUME NEW x \in S
      PROVE  /\ IsFiniteSet(Below(x)) /\ Cardinality(Below(x)) \in Nat
             /\ Cardinality(Below(x)) < n
  <2>1. Below(x) \subseteq S /\ x \notin Below(x)
    BY <1>1
  <2>2. IsFiniteSet(Below(x)) /\ Cardinality(Below(x)) <= n /\ Cardinality(Below(x)) # n
    BY <1>1, <2>1, FS_Subset
  <2>3. Cardinality(Below(x)) \in Nat
    BY <2>2, FS_CardinalityType
  <2> QED
    BY <1>2, <2>2, <2>3
<1>4. ASSUME NEW x \in S, NEW y \in S, x < y
      PROVE  place[x] < place[y]
  <2>0. x \in Nat /\ y \in Nat /\ \A z \in S : z \in Nat
    BY <1>1
  <2>1. Below(x) \subseteq Below(y) /\ x \in Below(y) /\ x \notin Below(x)
    <3>1. \A z \in S : z < x => z < y
      BY <1>4, <2>0
    <3>2. x \in Below(y)
      BY <1>4
    <3>3. ~(x < x)
      BY <2>0
    <3> QED
      BY <3>1, <3>2, <3>3
  <2>2. Cardinality(Below(x)) <= Cardinality(Below(y)) /\ Cardinality(Below(x)) # Cardinality(Below(y))
    BY <1>3, <2>1, FS_Subset
  <2>3. Cardinality(Below(x)) < Cardinality(Below(y))
    <3>1. Cardinality(Below(x)) \in Nat /\ Cardinality(Below(y)) \in Nat
      BY <1>3
    <3> HIDE DEF Below, place
    <3> QED
      BY <2>2, <3>1
  <2>4. place[x] = Cardinality(Below(x)) + 1 /\ place[y] = Cardinality(Below(y)) + 1
    OBVIOUS
  <2> HIDE DEF Below, place
  <2> QED
    BY <1>3, <2>3, <2>4
<1>5. place \in [S -> 1 .. n]
  <2>1. \A x \in S : Cardinality(Below(x)) + 1 \in 1 .. n
    BY <1>2, <1>3
  <2> QED
    BY <2>1
<1> HIDE DEF place, Below
<1>6. \A x, y \in S : place[x] = place[y] => x = y
  <2>1. \A x \in S : place[x] \in Int
    BY <1>2, <1>5
  <2>2. \A x, y \in S : x < y => place[x] # place[y]
    BY <1>4, <2>1
  <2> QED
    BY <1>1, <2>2
<1>7. \A i \in 1 .. n : \E x \in S : place[x] = i
  <2>1. place \in Injection(S, 1 .. n)
    BY <1>5, <1>6 DEF Injection, IsInjective
  <2>2. IsFiniteSet(1 .. n) /\ Cardinality(1 .. n) = n
    BY <1>2, FS_Interval
  <2>3. place \in Surjection(S, 1 .. n)
    BY <1>1, <2>1, <2>2, FS_Injection
  <2> QED
    BY <2>3 DEF Surjection
<1> DEFINE f == [i \in 1 .. n |-> CHOOSE x \in S : place[x] = i]
<1>8. \A i \in 1 .. n : f[i] \in S /\ place[f[i]] = i
  BY <1>7
<1>9. f \in [1 .. n -> S]
  BY <1>8
<1>10. ASSUME NEW i \in 1 .. n, NEW j \in 1 .. n, i < j
       PROVE  f[i] < f[j]
  <2>1. f[i] # f[j] /\ ~(place[f[j]] < place[f[i]])
    BY <1>2, <1>8, <1>10
  <2>2. f[i] \in S /\ f[j] \in S /\ ~(f[j] < f[i])
    BY <1>4, <1>8, <2>1
  <2>3. f[i] \in Nat /\ f[j] \in Nat
    BY <1>1, <2>2
  <2> HIDE DEF f
  <2> QED
    BY <2>1, <2>2, <2>3
<1> HIDE DEF f
<1>11. \E g \in [1 .. n -> S] : \A i, j \in DOMAIN g : i < j => g[i] < g[j]
  <2>1. DOMAIN f = 1 .. n
    BY <1>9
  <2> QED
    BY <1>9, <1>10, <2>1
<1>12. InOrder(S) \in [1 .. n -> S]
  BY <1>11 DEF InOrder
<1> QED
  BY <1>2, <1>12

-----------------------------------------------------------------------------
(* The inductive invariant. *)

(* a thread that runs is one of those that have used its tid *)
Lived == \A t \in alive : life[t] >= 1

(* What a scan has noted of the ticks of a tid, against the thread it met:   *)
(* if that one still has the tid it has used the rest since, and if another *)
(* has it, that one has used nothing before.                                *)
Noted(met, entries, t) ==
  IF t \notin DOMAIN entries THEN met[t].life = 0
  ELSE /\ entries[t] \in Nat /\ met[t].life \in 1 .. life[t]
       /\ IF met[t].life = life[t] THEN used[t] = entries[t] + met[t].used
          ELSE used[t] = met[t].used
VisitsSound ==
  \A t \in Tids : Noted(visits.now, newTask, t) /\ Noted(visits.before, prevTask, t)

(* no thread uses more than a jiffy of each jiffy that passes *)
Timed ==
  /\ prevWall = 0 => ~scanning /\ DOMAIN prevTask = {}
  /\ ~scanning => wallDt = 0 /\ DOMAIN newTask = {}
  /\ \A t \in Tids : visits.now[t].used <= time - prevWall
  /\ visits.ended =>
       \A t \in DOMAIN prevTask : visits.before[t].used <= wallDt + (time - prevWall)

(* the lines that were read are of p, and since then since has passed *)
LinesOf(stat, cpus) ==
  [i \in 1 .. Cardinality(cpus) + 1 |->
     CpuTicks(IF i = 1 THEN Sums(stat) ELSE stat[InOrder(cpus)[i - 1]])]
Ticks == [total : Nat, idle : Nat]
SinceOf(p, c) ==
  /\ since.cpu[c].busy <= since.cpu[c].all
  /\ cpu[c].busy = p[c].busy + since.cpu[c].busy
  /\ cpu[c].idle = p[c].idle + (since.cpu[c].all - since.cpu[c].busy)
  /\ cpu[c].guest = p[c].guest + since.cpu[c].guest
ReadSound ==
  prevCpu # << >> =>
    \E p \in [CpuIds -> StatLine] : /\ prevCpu = LinesOf(p, since.online)
                                 /\ \A c \in CpuIds : SinceOf(p, c)

SampleInv == OverallTypeOK /\ Lived /\ VisitsSound /\ Timed /\ ReadSound

-----------------------------------------------------------------------------
(* Types. *)

LEMMA WorldType ==
  ASSUME OverallTypeOK
  PROVE  world.jiffies \in Nat /\ world.plugs \in Nat /\ world.lives \in Nat /\ world.tids \subseteq Tids
BY SamplerAssumption DEF OverallTypeOK, World

(* what the sampler keeps of a line of counters is counters *)
LEMMA CpuTicksType ==
  ASSUME NEW f \in StatLine
  PROVE  CpuTicks(f) \in Ticks
<1>1. PICK b \in Nat, i \in Nat, g \in Nat : b = f.busy /\ i = f.idle /\ g = f.guest
  BY DEF StatLine
<1> QED
  BY <1>1 DEF CpuTicks, Ticks

LEMMA SumsType ==
  ASSUME NEW p \in [CpuIds -> StatLine]
  PROVE  Sums(p) \in StatLine
<1> DEFINE busy == [c \in CpuIds |-> p[c].busy]
           idle == [c \in CpuIds |-> p[c].idle]
           guest == [c \in CpuIds |-> p[c].guest]
           none == [c \in CpuIds |-> 0]
<1>1. \A c \in CpuIds : busy[c] \in Nat /\ none[c] \in Nat /\ busy[c] = busy[c] + none[c]
  BY DEF StatLine
<1>2. \A c \in CpuIds : idle[c] \in Nat /\ none[c] \in Nat /\ idle[c] = idle[c] + none[c]
  BY DEF StatLine
<1>3. \A c \in CpuIds : guest[c] \in Nat /\ none[c] \in Nat /\ guest[c] = guest[c] + none[c]
  BY DEF StatLine
<1>4. Sums(p) = [busy |-> Total(busy), idle |-> Total(idle), guest |-> Total(guest)]
  BY DEF Sums
<1> HIDE DEF busy, idle, guest, none
<1>5. Total(busy) \in Nat
  BY <1>1, SumAdds
<1>6. Total(idle) \in Nat
  BY <1>2, SumAdds
<1>7. Total(guest) \in Nat
  BY <1>3, SumAdds
<1> QED
  BY <1>4, <1>5, <1>6, <1>7 DEF StatLine

(* the first line is the sum, the others are of the CPUs in their order *)
LEMMA LinesFacts ==
  ASSUME NEW p \in [CpuIds -> StatLine], NEW S \in SUBSET CpuIds
  PROVE  /\ Cardinality(S) \in Nat
         /\ LinesOf(p, S) \in [1 .. Cardinality(S) + 1 -> Ticks]
         /\ LinesOf(p, S)[1] = CpuTicks(Sums(p))
         /\ \A i \in 1 .. Cardinality(S) :
              InOrder(S)[i] \in S /\ LinesOf(p, S)[i + 1] = CpuTicks(p[InOrder(S)[i]])
<1> DEFINE n == Cardinality(S)
           order == InOrder(S)
           line(i) == IF i = 1 THEN Sums(p) ELSE p[order[i - 1]]
<1>1. n \in Nat /\ order \in [1 .. n -> S]
  BY InOrderType
<1>2. Sums(p) \in StatLine
  BY SumsType
<1>3. LinesOf(p, S) = [i \in 1 .. n + 1 |-> CpuTicks(line(i))]
  BY DEF LinesOf
<1> HIDE DEF n, order
<1>4. ASSUME NEW i \in 1 .. n + 1
      PROVE  line(i) \in StatLine
  <2>1. CASE i = 1
    BY <1>2, <2>1
  <2>2. CASE i # 1
    <3>1. i - 1 \in 1 .. n
      BY <1>1, <2>2
    <3> QED
      BY <1>1, <2>2, <3>1
  <2> QED
    BY <2>1, <2>2
<1>5. line(1) = Sums(p) /\ \A i \in 1 .. n : line(i + 1) = p[order[i]]
  BY <1>1
<1> HIDE DEF line
<1>6. LinesOf(p, S) \in [1 .. n + 1 -> Ticks]
  BY <1>3, <1>4, CpuTicksType
<1>7. LinesOf(p, S)[1] = CpuTicks(Sums(p))
  BY <1>1, <1>3, <1>5
<1>8. ASSUME NEW i \in 1 .. n
      PROVE  order[i] \in S /\ LinesOf(p, S)[i + 1] = CpuTicks(p[order[i]])
  <2>1. i + 1 \in 1 .. n + 1
    BY <1>1
  <2> QED
    BY <1>1, <1>3, <1>5, <2>1
<1> QED
  BY <1>1, <1>6, <1>7, <1>8 DEF n, order

LEMMA LinesType ==
  ASSUME OverallTypeOK
  PROVE  /\ Lines = LinesOf(cpu, online) /\ cpu \in [CpuIds -> StatLine] /\ online \in SUBSET CpuIds
         /\ Cardinality(online) \in Nat
         /\ Lines \in Seq(Ticks) /\ Len(Lines) = Cardinality(online) + 1
<1>1. Lines = LinesOf(cpu, online) /\ cpu \in [CpuIds -> StatLine] /\ online \in SUBSET CpuIds
  BY DEF Lines, LinesOf, OverallTypeOK
<1>2. PICK n \in Nat : n = Cardinality(online)
  BY <1>1, LinesFacts
<1>3. Lines \in [1 .. n + 1 -> Ticks]
  BY <1>1, <1>2, LinesFacts
<1>4. Lines \in Seq(Ticks) /\ Len(Lines) = n + 1
  BY <1>3
<1> QED
  BY <1>1, <1>2, <1>4

Meetings == [Tids -> [life : 0 .. world.lives, used : Nat]]

LEMMA VisitsType ==
  ASSUME OverallTypeOK
  PROVE  /\ visits.now \in Meetings /\ visits.before \in Meetings /\ visits.ended \in BOOLEAN
         /\ \A a, b \in Meetings : \A e \in BOOLEAN :
              [now |-> a, before |-> b, ended |-> e] \in Visits(world.lives)
         /\ visits = [now |-> visits.now, before |-> visits.before, ended |-> visits.ended]
BY DEF OverallTypeOK, Visits, Meetings

(* What Tick does to the history of the visits. *)
LEMMA TickVisits ==
  ASSUME OverallTypeOK, NEW ran \in SUBSET alive, Tick(ran)
  PROVE  /\ visits' \in Visits(world.lives)
         /\ visits'.ended = visits.ended
         /\ \A t \in Tids :
              /\ visits'.now[t].life = visits.now[t].life
              /\ visits'.now[t].used = visits.now[t].used + Plus(t \in ran)
              /\ visits'.before[t].life = visits.before[t].life
              /\ visits'.before[t].used = visits.before[t].used + Plus(t \in ran)
<1> DEFINE Ran(met) == [t \in Tids |-> [met[t] EXCEPT !.used = met[t].used + Plus(t \in ran)]]
<1>1. /\ visits.now \in Meetings /\ visits.before \in Meetings /\ visits.ended \in BOOLEAN
      /\ visits = [now |-> visits.now, before |-> visits.before, ended |-> visits.ended]
  BY VisitsType
<1>2. visits' = [now |-> Ran(visits.now), before |-> Ran(visits.before), ended |-> visits.ended]
  <2>1. visits' = [visits EXCEPT !.now = Ran(visits.now), !.before = Ran(visits.before)]
    BY DEF Tick
  <2> HIDE DEF Ran
  <2> QED
    BY <1>1, <2>1
<1>3. ASSUME NEW met \in Meetings
      PROVE  /\ Ran(met) \in Meetings
             /\ \A t \in Tids : Ran(met)[t].life = met[t].life
                                /\ Ran(met)[t].used = met[t].used + Plus(t \in ran)
  <2>1. ASSUME NEW t \in Tids
        PROVE  /\ [met[t] EXCEPT !.used = met[t].used + Plus(t \in ran)]
                    \in [life : 0 .. world.lives, used : Nat]
               /\ [met[t] EXCEPT !.used = met[t].used + Plus(t \in ran)].life = met[t].life
               /\ [met[t] EXCEPT !.used = met[t].used + Plus(t \in ran)].used
                    = met[t].used + Plus(t \in ran)
    <3>1. PICK m \in [life : 0 .. world.lives, used : Nat] : m = met[t]
      BY DEF Meetings
    <3>2. PICK k \in Nat : k = m.used + Plus(t \in ran)
      BY DEF Plus
    <3>3. [m EXCEPT !.used = k] \in [life : 0 .. world.lives, used : Nat]
          /\ [m EXCEPT !.used = k].life = m.life /\ [m EXCEPT !.used = k].used = k
      OBVIOUS
    <3> QED
      BY <3>1, <3>2, <3>3
  <2>2. Ran(met) \in Meetings
    BY <2>1 DEF Meetings
  <2> QED
    BY <2>1, <2>2
<1> HIDE DEF Ran
<1>4. [now |-> Ran(visits.now), before |-> Ran(visits.before), ended |-> visits.ended]
        \in Visits(world.lives)
  BY <1>1, <1>3, VisitsType
<1> QED
  BY <1>1, <1>2, <1>3, <1>4

(* A new thread has used nothing. *)
LEMMA ForkVisits ==
  ASSUME OverallTypeOK, NEW t \in Tids, Fork(t)
  PROVE  /\ visits' \in Visits(world.lives)
         /\ visits'.ended = visits.ended
         /\ \A u \in Tids :
              /\ visits'.now[u].life = visits.now[u].life
              /\ visits'.now[u].used = IF u = t THEN 0 ELSE visits.now[u].used
              /\ visits'.before[u].life = visits.before[u].life
              /\ visits'.before[u].used = IF u = t THEN 0 ELSE visits.before[u].used
<1> DEFINE New(met) == [met EXCEPT ![t] = [met[t] EXCEPT !.used = 0]]
<1>1. /\ visits.now \in Meetings /\ visits.before \in Meetings /\ visits.ended \in BOOLEAN
      /\ visits = [now |-> visits.now, before |-> visits.before, ended |-> visits.ended]
  BY VisitsType
<1>2. visits' = [now |-> New(visits.now), before |-> New(visits.before), ended |-> visits.ended]
  <2>1. visits' = [visits EXCEPT !.now[t].used = 0, !.before[t].used = 0]
    BY DEF Fork
  <2> QED
    BY <1>1, <2>1
<1>3. ASSUME NEW met \in Meetings
      PROVE  /\ New(met) \in Meetings
             /\ \A u \in Tids : New(met)[u].life = met[u].life
                                /\ New(met)[u].used = IF u = t THEN 0 ELSE met[u].used
  <2>1. PICK m \in [life : 0 .. world.lives, used : Nat] : m = met[t]
    BY DEF Meetings
  <2>2. [m EXCEPT !.used = 0] \in [life : 0 .. world.lives, used : Nat]
        /\ [m EXCEPT !.used = 0].life = m.life /\ [m EXCEPT !.used = 0].used = 0
    OBVIOUS
  <2>3. New(met) = [met EXCEPT ![t] = [m EXCEPT !.used = 0]]
    BY <2>1
  <2> HIDE DEF New
  <2> QED
    BY <2>1, <2>2, <2>3 DEF Meetings
<1> HIDE DEF New
<1>4. [now |-> New(visits.now), before |-> New(visits.before), ended |-> visits.ended]
        \in Visits(world.lives)
  BY <1>1, <1>3, VisitsType
<1> QED
  BY <1>1, <1>2, <1>3, <1>4

LEMMA Empties ==
  DOMAIN << >> = {}
OBVIOUS

LEMMA NoVisitType ==
  ASSUME OverallTypeOK
  PROVE  NoVisit \in Meetings /\ \A t \in Tids : NoVisit[t].life = 0 /\ NoVisit[t].used = 0
<1>1. world.lives \in Nat
  BY WorldType
<1>2. [life |-> 0, used |-> 0] \in [life : 0 .. world.lives, used : Nat]
  BY <1>1
<1> QED
  BY <1>2 DEF NoVisit, Meetings

(* the types of the machine, of the sampler and of the two histories *)
MachineType ==
  /\ world \in Worlds /\ time \in 1 .. 1 + world.jiffies /\ online \in (SUBSET CpuIds) \ {{}}
  /\ cpu \in [CpuIds -> StatLine]
  /\ life \in [Tids -> 0 .. world.lives] /\ alive \in SUBSET Tids
  /\ used \in [Tids -> Nat] /\ plugs \in 0 .. world.plugs
ScanType ==
  /\ prevCpu \in Seq([total : Nat, idle : Nat])
  /\ DOMAIN prevTask \subseteq Tids /\ DOMAIN newTask \subseteq Tids
  /\ DOMAIN rows = DOMAIN newTask /\ todo \subseteq Tids \ DOMAIN rows
  /\ scanning \in BOOLEAN /\ (~scanning => todo = {})
ClockType == prevWall \in 0 .. time /\ wallDt \in 0 .. time
HistoryType == since \in Since /\ visits \in Visits(world.lives)

LEMMA TypeParts ==
  OverallTypeOK <=> MachineType /\ ScanType /\ ClockType /\ HistoryType
BY DEF OverallTypeOK, MachineType, ScanType, ClockType, HistoryType

LEMMA TypeTick ==
  ASSUME OverallTypeOK, NEW ran \in SUBSET alive, Tick(ran)
  PROVE  OverallTypeOK'
<1>1. world.jiffies \in Nat
  BY WorldType
<1>2. time' = time + 1 /\ time' \in 1 .. 1 + world.jiffies
  BY <1>1 DEF OverallTypeOK, Tick
<1>3. used' \in [Tids -> Nat]
  BY DEF OverallTypeOK, Tick, Plus
<1>4. PICK busy \in SUBSET online, guests \in SUBSET online :
        /\ cpu' = [c \in CpuIds |->
                    [busy |-> cpu[c].busy + Plus(c \in busy),
                     idle |-> cpu[c].idle + Plus(c \in online \ busy),
                     guest |-> cpu[c].guest + Plus(c \in guests)]]
        /\ since' = [since EXCEPT
            !.cpu = [c \in CpuIds |-> [busy |-> since.cpu[c].busy + Plus(c \in busy),
                                       all |-> since.cpu[c].all + Plus(c \in online),
                                       guest |-> since.cpu[c].guest + Plus(c \in guests)]]]
  BY DEF Tick
<1>5. cpu' \in [CpuIds -> StatLine]
  <2>1. ASSUME NEW c \in CpuIds
        PROVE  /\ cpu[c].busy + Plus(c \in busy) \in Nat
               /\ cpu[c].idle + Plus(c \in online \ busy) \in Nat
               /\ cpu[c].guest + Plus(c \in guests) \in Nat
    <3>1. /\ Plus(c \in busy) \in Nat /\ Plus(c \in online \ busy) \in Nat
          /\ Plus(c \in guests) \in Nat
      BY DEF Plus
    <3>2. cpu[c].busy \in Nat /\ cpu[c].idle \in Nat /\ cpu[c].guest \in Nat
      BY DEF OverallTypeOK, StatLine
    <3> QED
      BY <3>1, <3>2
  <2> QED
    BY <1>4, <2>1 DEF StatLine
<1>6. since' \in Since
  <2> DEFINE new == [c \in CpuIds |-> [busy |-> since.cpu[c].busy + Plus(c \in busy),
                                       all |-> since.cpu[c].all + Plus(c \in online),
                                       guest |-> since.cpu[c].guest + Plus(c \in guests)]]
  <2>1. ASSUME NEW c \in CpuIds
        PROVE  /\ since.cpu[c].busy + Plus(c \in busy) \in Nat
               /\ since.cpu[c].all + Plus(c \in online) \in Nat
               /\ since.cpu[c].guest + Plus(c \in guests) \in Nat
    <3>1. Plus(c \in online) \in Nat /\ Plus(c \in busy) \in Nat /\ Plus(c \in guests) \in Nat
      BY DEF Plus
    <3>2. since.cpu[c].busy \in Nat /\ since.cpu[c].all \in Nat /\ since.cpu[c].guest \in Nat
      BY DEF OverallTypeOK, Since, Jiffies
    <3> QED
      BY <3>1, <3>2
  <2>2. new \in [CpuIds -> Jiffies]
    BY <2>1 DEF Jiffies
  <2>3. since' = [since EXCEPT !.cpu = new]
    BY <1>4
  <2> HIDE DEF new
  <2> QED
    BY <2>2, <2>3 DEF OverallTypeOK, Since
<1>7. visits' \in Visits(world.lives)
  BY TickVisits
<1>8. MachineType'
  BY <1>2, <1>3, <1>5 DEF MachineType, OverallTypeOK, Tick
<1>9. ScanType'
  BY DEF ScanType, OverallTypeOK, Tick, samplerVars
<1>10. ClockType'
  <2>1. time \in Int /\ prevWall \in 0 .. time /\ wallDt \in 0 .. time
    BY DEF OverallTypeOK
  <2>2. prevWall' = prevWall /\ wallDt' = wallDt
    BY DEF Tick, samplerVars
  <2> QED
    BY <1>2, <2>1, <2>2 DEF ClockType
<1>11. HistoryType'
  BY <1>6, <1>7 DEF HistoryType, Tick
<1> QED
  BY <1>8, <1>9, <1>10, <1>11, TypeParts, PTL

LEMMA TypePlug ==
  ASSUME OverallTypeOK, NEW c \in CpuIds, Plug(c)
  PROVE  OverallTypeOK'
<1>1. world.plugs \in Nat
  BY WorldType
<1>2. plugs' \in 0 .. world.plugs /\ online' \in (SUBSET CpuIds) \ {{}}
  BY <1>1 DEF OverallTypeOK, Plug
<1> QED
  BY <1>2 DEF OverallTypeOK, Plug, samplerVars

LEMMA TypeMachine ==
  ASSUME OverallTypeOK, NEW t \in Tids, Exit(t) \/ Fork(t)
  PROVE  OverallTypeOK'
<1>1. CASE Exit(t)
  BY <1>1 DEF OverallTypeOK, Exit, samplerVars
<1>2. CASE Fork(t)
  <2>1. world.lives \in Nat /\ world.tids \subseteq Tids
    BY WorldType
  <2>2. life' \in [Tids -> 0 .. world.lives]
    BY <1>2, <2>1 DEF OverallTypeOK, Fork
  <2>3. used' \in [Tids -> Nat] /\ alive' \in SUBSET Tids
    BY <1>2, <2>1 DEF OverallTypeOK, Fork
  <2>4. visits' \in Visits(world.lives)
    BY <1>2, ForkVisits
  <2>5. UNCHANGED <<world, time, online, cpu, plugs, prevCpu, prevTask, prevWall, wallDt, todo,
                    newTask, rows, bars, scanning, since>>
    BY <1>2 DEF Fork, samplerVars
  <2> QED
    BY <2>2, <2>3, <2>4, <2>5 DEF OverallTypeOK
<1> QED
  BY <1>1, <1>2

LEMMA TypeVisit ==
  ASSUME OverallTypeOK, NEW t \in Tids, Visit(t)
  PROVE  OverallTypeOK'
<1>1. /\ todo' = todo \ {t} /\ UNCHANGED <<machineVars, prevCpu, prevTask, prevWall, wallDt,
                                          bars, scanning, since>>
      /\ t \in todo
  BY DEF Visit
<1>2. CASE t \in alive
  <2>1. DOMAIN newTask' = DOMAIN newTask \cup {t} /\ DOMAIN rows' = DOMAIN rows \cup {t}
    <3>1. newTask' = With(newTask, t, used[t]) /\ rows' = With(rows, t, Used(t))
      BY <1>2 DEF Visit
    <3>2. \A e, x : DOMAIN With(e, t, x) = DOMAIN e \cup {t}
      BY DEF With
    <3> QED
      BY <3>1, <3>2
  <2>2. visits' \in Visits(world.lives)
    <3>1. PICK m \in [life : 0 .. world.lives, used : Nat] : m = [life |-> life[t], used |-> 0]
      BY DEF OverallTypeOK
    <3>2. visits' = [visits EXCEPT !.now[t] = m]
      BY <1>2, <3>1 DEF Visit
    <3>3. PICK a \in Meetings : a = [visits.now EXCEPT ![t] = m]
      BY <3>1, VisitsType DEF Meetings
    <3>4. visits' = [now |-> a, before |-> visits.before, ended |-> visits.ended]
      BY <3>2, <3>3, VisitsType
    <3> QED
      BY <3>4, VisitsType
  <2>3. DOMAIN newTask' \subseteq Tids /\ DOMAIN rows' = DOMAIN newTask'
        /\ todo' \subseteq Tids \ DOMAIN rows'
    BY <1>1, <2>1 DEF OverallTypeOK
  <2> QED
    BY <1>1, <2>2, <2>3 DEF OverallTypeOK, machineVars
<1>3. CASE t \notin alive
  <2>1. UNCHANGED <<newTask, rows, visits>>
    BY <1>3 DEF Visit
  <2> QED
    BY <1>1, <2>1 DEF OverallTypeOK, machineVars
<1> QED
  BY <1>2, <1>3

LEMMA TypeNoSnapshot ==
  ASSUME OverallTypeOK, EndSample \/ \E t \in Tids : VisitRaises(t)
  PROVE  OverallTypeOK'
<1>1. /\ UNCHANGED <<machineVars, prevCpu, prevWall, since>>
      /\ scanning' = FALSE /\ todo' = {} /\ wallDt' = 0
      /\ DOMAIN newTask' = {} /\ DOMAIN rows' = {}
  BY Empties DEF VisitRaises, EndSample, NoSnapshot
<1>2. DOMAIN prevTask' \subseteq Tids
  BY DEF VisitRaises, EndSample, OverallTypeOK
<1>3. visits' \in Visits(world.lives)
  <2>1. NoVisit \in Meetings /\ visits.now \in Meetings /\ visits.before \in Meetings
    BY NoVisitType, VisitsType
  <2>2. CASE \E t \in Tids : VisitRaises(t)
    <3>1. visits' = [visits EXCEPT !.now = NoVisit, !.ended = FALSE]
      BY <2>2 DEF VisitRaises
    <3>2. visits' = [now |-> NoVisit, before |-> visits.before, ended |-> FALSE]
      BY <3>1, VisitsType
    <3> QED
      BY <2>1, <3>2, VisitsType
  <2>3. CASE EndSample
    <3>1. visits' = [now |-> NoVisit, before |-> visits.now, ended |-> TRUE]
      BY <2>3 DEF EndSample
    <3> QED
      BY <2>1, <3>1, VisitsType
  <2> QED
    BY <2>2, <2>3
<1>4. wallDt' \in 0 .. time
  BY <1>1 DEF OverallTypeOK
<1> QED
  BY <1>1, <1>2, <1>3, <1>4 DEF OverallTypeOK, machineVars

LEMMA TypeBegin ==
  ASSUME OverallTypeOK, BeginSample
  PROVE  OverallTypeOK'
<1>1. /\ UNCHANGED <<machineVars, prevTask>> /\ scanning' = TRUE /\ todo' = world.tids
      /\ DOMAIN newTask' = {} /\ DOMAIN rows' = {}
  BY Empties DEF BeginSample
<1>2. prevCpu' \in Seq([total : Nat, idle : Nat])
  BY LinesType DEF BeginSample, Ticks
<1>3. prevWall' \in 0 .. time /\ wallDt' \in 0 .. time
  <2>1. time \in Nat /\ prevWall \in 0 .. time
    BY WorldType DEF OverallTypeOK
  <2> QED
    BY <2>1 DEF BeginSample
<1>4. since' \in Since
  BY DEF BeginSample, Since, Jiffies, NoJiffies, OverallTypeOK
<1>5. visits' \in Visits(world.lives)
  <2>1. visits' = [now |-> NoVisit, before |-> visits.before, ended |-> visits.ended]
    BY VisitsType DEF BeginSample
  <2> QED
    BY <2>1, NoVisitType, VisitsType
<1>6. world.tids \subseteq Tids
  BY WorldType
<1>7. UNCHANGED <<world, time, online, cpu, life, alive, used, plugs>>
  BY <1>1 DEF machineVars
<1> QED
  BY <1>1, <1>2, <1>3, <1>4, <1>5, <1>6, <1>7 DEF OverallTypeOK

LEMMA TypeStep ==
  ASSUME OverallTypeOK, [OverallNext]_overallVars
  PROVE  OverallTypeOK'
<1>1. ASSUME NEW ran \in SUBSET alive, Tick(ran) PROVE OverallTypeOK'
  BY <1>1, TypeTick
<1>2. ASSUME NEW c \in CpuIds, Plug(c) PROVE OverallTypeOK'
  BY <1>2, TypePlug
<1>3. ASSUME NEW t \in Tids, Exit(t) \/ Fork(t) \/ Visit(t) \/ VisitRaises(t) PROVE OverallTypeOK'
  BY <1>3, TypeMachine, TypeVisit, TypeNoSnapshot
<1>4. CASE BeginSample
  BY <1>4, TypeBegin
<1>5. CASE EndSample
  BY <1>5, TypeNoSnapshot
<1>6. CASE UNCHANGED overallVars
  BY <1>6 DEF OverallTypeOK, overallVars, machineVars, samplerVars
<1> QED
  BY <1>1, <1>2, <1>3, <1>4, <1>5, <1>6 DEF OverallNext

-----------------------------------------------------------------------------
(* What the scans have noted. *)

LEMMA LivedStep ==
  ASSUME OverallTypeOK, Lived, [OverallNext]_overallVars
  PROVE  Lived'
<1>1. ASSUME NEW t \in Tids, Fork(t) PROVE Lived'
  <2>1. /\ life \in [Tids -> 0 .. world.lives] /\ alive' = alive \cup {t}
        /\ life' = [life EXCEPT ![t] = life[t] + 1]
    BY <1>1 DEF Fork, OverallTypeOK
  <2>2. world.lives \in Nat /\ alive \subseteq Tids
    BY WorldType DEF OverallTypeOK
  <2>3. ASSUME NEW u \in alive' PROVE life'[u] >= 1
    BY <2>1, <2>2, <2>3 DEF Lived
  <2> QED
    BY <2>3 DEF Lived
<1>2. ASSUME NEW t \in Tids, Exit(t) PROVE Lived'
  BY <1>2 DEF Exit, Lived
<1>3. CASE UNCHANGED <<life, alive>>
  BY <1>3 DEF Lived
<1> QED
  BY <1>1, <1>2, <1>3
  DEF OverallNext, Tick, Plug, Visit, VisitRaises, BeginSample, EndSample, machineVars, overallVars

(* what is needed of the types to reason about one tid *)
LEMMA TidType ==
  ASSUME OverallTypeOK, NEW t \in Tids
  PROVE  /\ used[t] \in Nat /\ life[t] \in Nat
         /\ visits.now[t].life \in Nat /\ visits.now[t].used \in Nat
         /\ visits.before[t].life \in Nat /\ visits.before[t].used \in Nat
         /\ time \in Nat /\ time >= 1 /\ prevWall \in Nat /\ prevWall <= time /\ wallDt \in Nat
<1>1. world.lives \in Nat /\ world.jiffies \in Nat
  BY WorldType
<1>2. /\ visits.now[t] \in [life : 0 .. world.lives, used : Nat]
      /\ visits.before[t] \in [life : 0 .. world.lives, used : Nat]
  BY VisitsType DEF Meetings
<1>3. used[t] \in Nat /\ life[t] \in 0 .. world.lives
  BY DEF OverallTypeOK
<1>4. time \in 1 .. 1 + world.jiffies /\ prevWall \in 0 .. time /\ wallDt \in 0 .. time
  BY DEF OverallTypeOK
<1> QED
  BY <1>1, <1>2, <1>3, <1>4

BothNoted(t) == Noted(visits.now, newTask, t) /\ Noted(visits.before, prevTask, t)

LEMMA NotedTick ==
  ASSUME OverallTypeOK, NEW u \in Tids, BothNoted(u),
         NEW ran \in SUBSET alive, Tick(ran)
  PROVE  BothNoted(u)'
<1>1. /\ visits'.now[u].life = visits.now[u].life
      /\ visits'.now[u].used = visits.now[u].used + Plus(u \in ran)
      /\ visits'.before[u].life = visits.before[u].life
      /\ visits'.before[u].used = visits.before[u].used + Plus(u \in ran)
  BY TickVisits
<1>2. PICK k \in Nat : k = Plus(u \in ran)
  BY DEF Plus
<1>3. used'[u] = used[u] + k /\ UNCHANGED <<life, newTask, prevTask>>
  BY <1>2 DEF Tick, samplerVars
<1>4. /\ used[u] \in Nat /\ life[u] \in Nat
      /\ visits.now[u].life \in Nat /\ visits.now[u].used \in Nat
      /\ visits.before[u].life \in Nat /\ visits.before[u].used \in Nat
  BY TidType
<1>5. Noted(visits.now, newTask, u)'
  BY <1>1, <1>2, <1>3, <1>4 DEF BothNoted, Noted
<1>6. Noted(visits.before, prevTask, u)'
  BY <1>1, <1>2, <1>3, <1>4 DEF BothNoted, Noted
<1> QED
  BY <1>5, <1>6 DEF BothNoted

LEMMA NotedFork ==
  ASSUME OverallTypeOK, NEW u \in Tids, BothNoted(u), NEW t \in Tids, Fork(t)
  PROVE  BothNoted(u)'
<1>1. /\ visits'.now[u].life = visits.now[u].life
      /\ visits'.now[u].used = IF u = t THEN 0 ELSE visits.now[u].used
      /\ visits'.before[u].life = visits.before[u].life
      /\ visits'.before[u].used = IF u = t THEN 0 ELSE visits.before[u].used
  BY ForkVisits
<1>2. /\ used'[u] = (IF u = t THEN 0 ELSE used[u])
      /\ life'[u] = (IF u = t THEN life[u] + 1 ELSE life[u])
      /\ UNCHANGED <<newTask, prevTask>>
  BY DEF Fork, samplerVars, OverallTypeOK
<1>3. /\ used[u] \in Nat /\ life[u] \in Nat
      /\ visits.now[u].life \in Nat /\ visits.now[u].used \in Nat
      /\ visits.before[u].life \in Nat /\ visits.before[u].used \in Nat
  BY TidType
<1>4. Noted(visits.now, newTask, u)'
  BY <1>1, <1>2, <1>3 DEF BothNoted, Noted
<1>5. Noted(visits.before, prevTask, u)'
  BY <1>1, <1>2, <1>3 DEF BothNoted, Noted
<1> QED
  BY <1>4, <1>5 DEF BothNoted

LEMMA NotedVisit ==
  ASSUME OverallTypeOK, Lived, NEW u \in Tids, BothNoted(u), NEW t \in Tids, Visit(t)
  PROVE  BothNoted(u)'
<1>1. UNCHANGED <<life, used, prevTask>>
  BY DEF Visit, machineVars
<1>2. CASE t \notin alive
  BY <1>1, <1>2 DEF Visit, BothNoted, Noted
<1>3. CASE t \in alive
  <2>1. newTask' = With(newTask, t, used[t])
        /\ visits' = [visits EXCEPT !.now[t] = [life |-> life[t], used |-> 0]]
    BY <1>3 DEF Visit
  <2> DEFINE m == [life |-> life[t], used |-> 0]
  <2>2. m.life = life[t] /\ m.used = 0
    OBVIOUS
  <2> HIDE DEF m
  <2>3. visits' = [now |-> [visits.now EXCEPT ![t] = m], before |-> visits.before, ended |-> visits.ended]
    BY <2>1, VisitsType DEF m
  <2>4. /\ visits'.before = visits.before
        /\ visits'.now[u] = IF u = t THEN m ELSE visits.now[u]
    BY <2>3, VisitsType DEF Meetings
  <2>5. Noted(visits.before, prevTask, u)'
    BY <1>1, <2>4 DEF BothNoted, Noted
  <2>6. CASE u = t
    <3>1. life[t] \in Nat /\ used[t] \in Nat /\ life[t] >= 1
      BY <1>3, TidType DEF Lived
    <3>2. t \in DOMAIN newTask' /\ newTask'[t] = used[t]
      BY <2>1 DEF With
    <3>3. visits'.now[t].life = life[t] /\ visits'.now[t].used = 0
      BY <2>2, <2>4, <2>6
    <3>4. Noted(visits.now, newTask, t)'
      BY <1>1, <3>1, <3>2, <3>3 DEF Noted
    <3> QED
      BY <2>5, <2>6, <3>4 DEF BothNoted
  <2>7. CASE u # t
    <3>1. (u \in DOMAIN newTask' <=> u \in DOMAIN newTask)
          /\ (u \in DOMAIN newTask => newTask'[u] = newTask[u])
      BY <2>1, <2>7 DEF With
    <3>2. Noted(visits.now, newTask, u)'
      BY <1>1, <2>4, <2>7, <3>1 DEF BothNoted, Noted
    <3> QED
      BY <2>5, <3>2 DEF BothNoted
  <2> QED
    BY <2>6, <2>7
<1> QED
  BY <1>2, <1>3

LEMMA NotedStep ==
  ASSUME OverallTypeOK, Lived, NEW u \in Tids, BothNoted(u), [OverallNext]_overallVars
  PROVE  BothNoted(u)'
<1>1. ASSUME NEW ran \in SUBSET alive, Tick(ran) PROVE BothNoted(u)'
  BY <1>1, NotedTick
<1>2. ASSUME NEW t \in Tids, Fork(t) PROVE BothNoted(u)'
  BY <1>2, NotedFork
<1>3. ASSUME NEW t \in Tids, Visit(t) PROVE BothNoted(u)'
  BY <1>3, NotedVisit
<1>4. NoVisit[u].life = 0
  BY NoVisitType
<1>5. ASSUME NEW t \in Tids, VisitRaises(t) PROVE BothNoted(u)'
  <2>1. UNCHANGED <<life, used, prevTask>> /\ newTask' = << >>
        /\ visits' = [visits EXCEPT !.now = NoVisit, !.ended = FALSE]
    BY <1>5 DEF VisitRaises, NoSnapshot, machineVars
  <2>2. visits'.now = NoVisit /\ visits'.before = visits.before
    BY <2>1, VisitsType
  <2> QED
    BY <1>4, <2>1, <2>2, Empties DEF BothNoted, Noted
<1>6. CASE BeginSample
  <2>1. UNCHANGED <<life, used, prevTask>> /\ newTask' = << >>
        /\ visits' = [visits EXCEPT !.now = NoVisit]
    BY <1>6 DEF BeginSample, machineVars
  <2>2. visits'.now = NoVisit /\ visits'.before = visits.before
    BY <2>1, VisitsType
  <2> QED
    BY <1>4, <2>1, <2>2, Empties DEF BothNoted, Noted
<1>7. CASE EndSample
  <2>1. UNCHANGED <<life, used>> /\ newTask' = << >> /\ prevTask' = newTask
        /\ visits' = [now |-> NoVisit, before |-> visits.now, ended |-> TRUE]
    BY <1>7 DEF EndSample, NoSnapshot, machineVars
  <2>2. visits'.now = NoVisit /\ visits'.before = visits.now
    BY <2>1
  <2> QED
    BY <1>4, <2>1, <2>2, Empties DEF BothNoted, Noted
<1>8. CASE UNCHANGED <<life, used, newTask, prevTask, visits>>
  BY <1>8 DEF BothNoted, Noted
<1> QED
  BY <1>1, <1>2, <1>3, <1>5, <1>6, <1>7, <1>8
  DEF OverallNext, Plug, Exit, overallVars, machineVars, samplerVars

LEMMA VisitsStep ==
  ASSUME OverallTypeOK, Lived, VisitsSound, [OverallNext]_overallVars
  PROVE  VisitsSound'
<1>1. ASSUME NEW u \in Tids PROVE BothNoted(u)'
  <2>1. BothNoted(u)
    BY DEF VisitsSound, BothNoted
  <2> QED
    BY <2>1, NotedStep
<1> QED
  BY <1>1 DEF VisitsSound, BothNoted

-----------------------------------------------------------------------------
(* The time between two samples. *)

Started == prevWall = 0 => ~scanning /\ DOMAIN prevTask = {}
Idle == ~scanning => wallDt = 0 /\ DOMAIN newTask = {}
NowBound(t) == visits.now[t].used <= time - prevWall
BeforeBound(t) ==
  visits.ended /\ t \in DOMAIN prevTask => visits.before[t].used <= wallDt + (time - prevWall)

LEMMA TimedParts ==
  ASSUME OverallTypeOK
  PROVE  Timed <=> /\ Started /\ Idle
                   /\ \A t \in Tids : NowBound(t) /\ BeforeBound(t)
<1>1. DOMAIN prevTask \subseteq Tids
  BY DEF OverallTypeOK
<1>2. Timed => Started /\ Idle /\ \A t \in Tids : NowBound(t) /\ BeforeBound(t)
  BY DEF Timed, Started, Idle, NowBound, BeforeBound
<1>3. Started /\ Idle /\ (\A t \in Tids : NowBound(t) /\ BeforeBound(t)) => Timed
  <2>1. ASSUME \A t \in Tids : BeforeBound(t), visits.ended, NEW t \in DOMAIN prevTask
        PROVE  visits.before[t].used <= wallDt + (time - prevWall)
    BY <1>1, <2>1 DEF BeforeBound
  <2> QED
    BY <2>1 DEF Timed, Started, Idle, NowBound
<1> QED
  BY <1>2, <1>3

LEMMA StartedStep ==
  ASSUME OverallTypeOK, Started, Idle, [OverallNext]_overallVars
  PROVE  Started' /\ Idle'
<1>1. ASSUME NEW t \in Tids, Visit(t) PROVE Started' /\ Idle'
  <2>1. scanning
    BY <1>1 DEF Visit, OverallTypeOK
  <2>2. UNCHANGED <<prevWall, prevTask, scanning>>
    BY <1>1 DEF Visit
  <2> QED
    BY <2>1, <2>2 DEF Started, Idle
<1>2. ASSUME EndSample \/ \E t \in Tids : VisitRaises(t) PROVE Started' /\ Idle'
  <2>1. /\ scanning' = FALSE /\ wallDt' = 0 /\ newTask' = << >> /\ prevWall' = prevWall
        /\ prevTask' = prevTask \/ scanning
    BY <1>2 DEF VisitRaises, EndSample, NoSnapshot
  <2>2. prevWall = 0 => DOMAIN prevTask' = {}
    BY <2>1 DEF Started
  <2> QED
    BY <2>1, <2>2, Empties DEF Started, Idle
<1>3. CASE BeginSample
  <2>1. scanning' = TRUE /\ prevWall' = time
    BY <1>3 DEF BeginSample
  <2>2. time # 0
    BY DEF OverallTypeOK
  <2> QED
    BY <2>1, <2>2 DEF Started, Idle
<1>4. CASE UNCHANGED <<prevWall, scanning, prevTask, wallDt, newTask>>
  BY <1>4 DEF Started, Idle
<1> QED
  BY <1>1, <1>2, <1>3, <1>4
  DEF OverallNext, Tick, Plug, Exit, Fork, samplerVars, overallVars

LEMMA BoundStep ==
  ASSUME OverallTypeOK, Started, Idle, NEW u \in Tids, NowBound(u), BeforeBound(u),
         [OverallNext]_overallVars
  PROVE  NowBound(u)' /\ BeforeBound(u)'
<1>0. /\ visits.now[u].used \in Nat /\ visits.before[u].used \in Nat
      /\ time \in Nat /\ time >= 1 /\ prevWall \in Nat /\ prevWall <= time /\ wallDt \in Nat
  BY TidType
<1>1. ASSUME NEW ran \in SUBSET alive, Tick(ran) PROVE NowBound(u)' /\ BeforeBound(u)'
  <2>1. /\ visits'.now[u].used = visits.now[u].used + Plus(u \in ran)
        /\ visits'.before[u].used = visits.before[u].used + Plus(u \in ran)
        /\ visits'.ended = visits.ended
    BY <1>1, TickVisits
  <2>2. PICK k \in 0 .. 1 : k = Plus(u \in ran)
    BY DEF Plus
  <2>3. time' = time + 1 /\ UNCHANGED <<prevWall, wallDt, prevTask>>
    BY <1>1 DEF Tick, samplerVars
  <2> QED
    BY <1>0, <2>1, <2>2, <2>3 DEF NowBound, BeforeBound
<1>2. ASSUME NEW t \in Tids, Fork(t) PROVE NowBound(u)' /\ BeforeBound(u)'
  <2>1. /\ visits'.now[u].used = IF u = t THEN 0 ELSE visits.now[u].used
        /\ visits'.before[u].used = IF u = t THEN 0 ELSE visits.before[u].used
        /\ visits'.ended = visits.ended
    BY <1>2, ForkVisits
  <2>2. UNCHANGED <<time, prevWall, wallDt, prevTask>>
    BY <1>2 DEF Fork, samplerVars
  <2> QED
    BY <1>0, <2>1, <2>2 DEF NowBound, BeforeBound
<1>3. ASSUME NEW t \in Tids, Visit(t) PROVE NowBound(u)' /\ BeforeBound(u)'
  <2>1. UNCHANGED <<time, prevWall, wallDt, prevTask>>
    BY <1>3 DEF Visit, machineVars
  <2>2. CASE visits' = visits
    BY <2>1, <2>2 DEF NowBound, BeforeBound
  <2>3. CASE visits' = [visits EXCEPT !.now[t] = [life |-> life[t], used |-> 0]]
    <3> DEFINE m == [life |-> life[t], used |-> 0]
    <3>1. m.used = 0
      OBVIOUS
    <3> HIDE DEF m
    <3>2. visits' = [now |-> [visits.now EXCEPT ![t] = m], before |-> visits.before, ended |-> visits.ended]
      BY <2>3, VisitsType DEF m
    <3>3. /\ visits'.before = visits.before /\ visits'.ended = visits.ended
          /\ visits'.now[u] = IF u = t THEN m ELSE visits.now[u]
      BY <3>2, VisitsType DEF Meetings
    <3> QED
      BY <1>0, <2>1, <3>1, <3>3 DEF NowBound, BeforeBound
  <2> QED
    BY <1>3, <2>2, <2>3 DEF Visit
<1>4. NoVisit[u].used = 0
  BY NoVisitType
<1>5. ASSUME NEW t \in Tids, VisitRaises(t) PROVE NowBound(u)' /\ BeforeBound(u)'
  <2>1. UNCHANGED <<time, prevWall>>
        /\ visits' = [visits EXCEPT !.now = NoVisit, !.ended = FALSE]
    BY <1>5 DEF VisitRaises, machineVars
  <2>2. visits'.now = NoVisit /\ visits'.ended = FALSE
    BY <2>1, VisitsType
  <2> QED
    BY <1>0, <1>4, <2>1, <2>2 DEF NowBound, BeforeBound
<1>6. CASE BeginSample
  <2>1. /\ UNCHANGED <<time, prevTask>> /\ ~scanning
        /\ wallDt' = (IF prevWall = 0 THEN 0 ELSE time - prevWall) /\ prevWall' = time
        /\ visits' = [visits EXCEPT !.now = NoVisit]
    BY <1>6 DEF BeginSample, machineVars
  <2>2. visits'.now = NoVisit /\ visits'.before = visits.before /\ visits'.ended = visits.ended
    BY <2>1, VisitsType
  <2>3. wallDt = 0 /\ (prevWall = 0 => u \notin DOMAIN prevTask)
    BY <2>1 DEF Started, Idle
  <2> QED
    BY <1>0, <1>4, <2>1, <2>2, <2>3 DEF NowBound, BeforeBound
<1>7. CASE EndSample
  <2>1. /\ UNCHANGED <<time, prevWall>> /\ wallDt' = 0
        /\ visits' = [now |-> NoVisit, before |-> visits.now, ended |-> TRUE]
    BY <1>7 DEF EndSample, NoSnapshot, machineVars
  <2>2. visits'.now = NoVisit /\ visits'.before = visits.now
    BY <2>1
  <2> QED
    BY <1>0, <1>4, <2>1, <2>2 DEF NowBound, BeforeBound
<1>8. CASE UNCHANGED <<time, prevWall, wallDt, prevTask, visits>>
  BY <1>8 DEF NowBound, BeforeBound
<1> QED
  BY <1>1, <1>2, <1>3, <1>5, <1>6, <1>7, <1>8
  DEF OverallNext, Plug, Exit, overallVars, machineVars, samplerVars

LEMMA TimedStep ==
  ASSUME OverallTypeOK, Timed, [OverallNext]_overallVars
  PROVE  Timed'
<1>1. Started /\ Idle /\ \A u \in Tids : NowBound(u) /\ BeforeBound(u)
  BY TimedParts
<1>2. Started' /\ Idle'
  BY <1>1, StartedStep
<1>3. ASSUME NEW u \in Tids PROVE NowBound(u)' /\ BeforeBound(u)'
  BY <1>1, BoundStep
<1>4. OverallTypeOK'
  BY TypeStep
<1>5. DOMAIN prevTask' \subseteq Tids
  BY <1>4 DEF OverallTypeOK
<1>6. ASSUME visits'.ended, NEW t \in DOMAIN prevTask'
      PROVE  visits'.before[t].used <= wallDt' + (time' - prevWall')
  BY <1>3, <1>5, <1>6 DEF BeforeBound
<1> QED
  BY <1>2, <1>3, <1>6 DEF Timed, Started, Idle, NowBound

(* A step that adds a row. *)
RowTrue(t) ==
  LET met == visits.before[t]
  IN  /\ rows'[t] \in 0 .. met.used
      /\ met.life = life[t] => rows'[t] = met.used
      /\ visits.ended => rows'[t] <= wallDt + (time - prevWall)

LEMMA RowAdded ==
  ASSUME OverallTypeOK, Lived, VisitsSound, Timed, NEW u \in Tids, Visit(u),
         NEW t \in DOMAIN rows' \ DOMAIN rows
  PROVE  RowTrue(t)
<1>1. u \in alive /\ rows' = With(rows, u, Used(u))
  BY DEF Visit
<1>2. t = u /\ rows'[t] = Used(t)
  <2>1. DOMAIN rows' = DOMAIN rows \cup {u} /\ rows'[u] = Used(u)
    BY <1>1 DEF With
  <2> QED
    BY <2>1
<1>3. PICK m, k, w, l, b \in Nat :
        /\ m = used[t] /\ l = life[t] /\ k = visits.before[t].life /\ b = visits.before[t].used
        /\ w = wallDt + (time - prevWall)
  <2>1. /\ used[t] \in Nat /\ life[t] \in Nat
        /\ visits.before[t].life \in Nat /\ visits.before[t].used \in Nat
        /\ time \in Nat /\ prevWall \in Nat /\ prevWall <= time /\ wallDt \in Nat
    BY <1>2, TidType
  <2>2. wallDt + (time - prevWall) \in Nat
    BY <2>1
  <2> QED
    BY <2>1, <2>2
<1>4. Noted(visits.before, prevTask, t) /\ BeforeBound(t) /\ l >= 1
  BY <1>1, <1>2, <1>3, TimedParts DEF VisitsSound, Lived
<1>5. CASE t \notin DOMAIN prevTask
  <2>1. rows'[t] = 0 /\ k = 0
    BY <1>2, <1>3, <1>4, <1>5 DEF Used, Noted
  <2> QED
    BY <1>3, <1>4, <2>1 DEF RowTrue
<1>6. CASE t \in DOMAIN prevTask
  <2>1. PICK e \in Nat : e = prevTask[t]
    BY <1>4, <1>6 DEF Noted
  <2>2. rows'[t] = IF m - e < 0 THEN 0 ELSE m - e
    BY <1>2, <1>3, <1>6, <2>1 DEF Used, AtLeast
  <2>3. m = (IF k = l THEN e + b ELSE b)
    BY <1>3, <1>4, <1>6, <2>1 DEF Noted
  <2>4. rows'[t] \in 0 .. b /\ (k = l => rows'[t] = b)
    BY <2>2, <2>3
  <2>5. visits.ended => b <= w
    BY <1>3, <1>4, <1>6 DEF BeforeBound
  <2>6. visits.ended => rows'[t] <= w
    BY <1>3, <2>4, <2>5
  <2> QED
    BY <1>3, <2>4, <2>6 DEF RowTrue
<1> QED
  BY <1>5, <1>6

-----------------------------------------------------------------------------
(* What /proc/stat has been, and what has passed since. *)

LEMMA SinceType ==
  ASSUME OverallTypeOK, NEW c \in CpuIds
  PROVE  /\ since.cpu[c] \in Jiffies /\ cpu[c] \in StatLine
         /\ since.cpu[c].busy \in Nat /\ since.cpu[c].all \in Nat /\ since.cpu[c].guest \in Nat
         /\ cpu[c].busy \in Nat /\ cpu[c].idle \in Nat /\ cpu[c].guest \in Nat
         /\ since.online \in SUBSET CpuIds
BY DEF OverallTypeOK, Since, Jiffies, StatLine

LEMMA ReadTick ==
  ASSUME OverallTypeOK, NEW ran \in SUBSET alive, Tick(ran),
         NEW p \in [CpuIds -> StatLine], \A c \in CpuIds : SinceOf(p, c)
  PROVE  since'.online = since.online /\ \A c \in CpuIds : SinceOf(p, c)'
<1>1. PICK busy \in SUBSET online, guests \in SUBSET online :
        /\ cpu' = [c \in CpuIds |->
                    [busy |-> cpu[c].busy + Plus(c \in busy),
                     idle |-> cpu[c].idle + Plus(c \in online \ busy),
                     guest |-> cpu[c].guest + Plus(c \in guests)]]
        /\ since' = [since EXCEPT
            !.cpu = [c \in CpuIds |-> [busy |-> since.cpu[c].busy + Plus(c \in busy),
                                       all |-> since.cpu[c].all + Plus(c \in online),
                                       guest |-> since.cpu[c].guest + Plus(c \in guests)]]]
  BY DEF Tick
<1>2. /\ since'.online = since.online
      /\ since'.cpu = [c \in CpuIds |-> [busy |-> since.cpu[c].busy + Plus(c \in busy),
                                         all |-> since.cpu[c].all + Plus(c \in online),
                                         guest |-> since.cpu[c].guest + Plus(c \in guests)]]
  <2> DEFINE new == [c \in CpuIds |-> [busy |-> since.cpu[c].busy + Plus(c \in busy),
                                       all |-> since.cpu[c].all + Plus(c \in online),
                                       guest |-> since.cpu[c].guest + Plus(c \in guests)]]
  <2>1. since' = [since EXCEPT !.cpu = new]
    BY <1>1
  <2> HIDE DEF new
  <2>2. since'.online = since.online /\ since'.cpu = new
    BY <2>1 DEF OverallTypeOK, Since
  <2> QED
    BY <2>2 DEF new
<1>3. ASSUME NEW c \in CpuIds PROVE SinceOf(p, c)'
  <2>1. PICK b, a, i, g \in 0 .. 1 : /\ b = Plus(c \in busy) /\ a = Plus(c \in online)
                                     /\ i = Plus(c \in online \ busy) /\ g = Plus(c \in guests)
    BY DEF Plus
  <2>2. b + i = a /\ (b = 1 => a = 1)
    BY <2>1 DEF Plus
  <2>3. /\ since'.cpu[c].busy = since.cpu[c].busy + b /\ since'.cpu[c].all = since.cpu[c].all + a
        /\ since'.cpu[c].guest = since.cpu[c].guest + g
        /\ cpu'[c].busy = cpu[c].busy + b /\ cpu'[c].idle = cpu[c].idle + i
        /\ cpu'[c].guest = cpu[c].guest + g
    BY <1>1, <1>2, <2>1
  <2>4. /\ since.cpu[c].busy \in Nat /\ since.cpu[c].all \in Nat /\ since.cpu[c].guest \in Nat
        /\ cpu[c].busy \in Nat /\ cpu[c].idle \in Nat /\ cpu[c].guest \in Nat
        /\ p[c].busy \in Nat /\ p[c].idle \in Nat /\ p[c].guest \in Nat
    BY SinceType DEF StatLine
  <2>5. /\ since.cpu[c].busy <= since.cpu[c].all
        /\ cpu[c].busy = p[c].busy + since.cpu[c].busy
        /\ cpu[c].idle = p[c].idle + (since.cpu[c].all - since.cpu[c].busy)
        /\ cpu[c].guest = p[c].guest + since.cpu[c].guest
    BY DEF SinceOf
  <2>6. since'.cpu[c].busy <= since'.cpu[c].all
    BY <2>2, <2>3, <2>4, <2>5
  <2>7. /\ cpu'[c].busy = p[c].busy + since'.cpu[c].busy
        /\ cpu'[c].guest = p[c].guest + since'.cpu[c].guest
    BY <2>3, <2>4, <2>5
  <2>8. cpu'[c].idle = p[c].idle + (since'.cpu[c].all - since'.cpu[c].busy)
    <3>1. PICK x, y, z, k \in Nat : /\ x = since.cpu[c].busy /\ y = since.cpu[c].all
                                   /\ z = cpu[c].idle /\ k = p[c].idle
      BY <2>4
    <3>2. z = k + (y - x)
      BY <2>5, <3>1
    <3>3. z + i = k + ((y + a) - (x + b))
      BY <2>2, <3>2
    <3> QED
      BY <2>3, <3>1, <3>3
  <2>9. /\ since'.cpu[c].busy <= since'.cpu[c].all
        /\ cpu'[c].busy = p[c].busy + since'.cpu[c].busy
        /\ cpu'[c].idle = p[c].idle + (since'.cpu[c].all - since'.cpu[c].busy)
        /\ cpu'[c].guest = p[c].guest + since'.cpu[c].guest
    BY <2>6, <2>7, <2>8
  <2> QED
    BY <2>9 DEF SinceOf
<1> QED
  BY <1>2, <1>3

LEMMA ReadStep ==
  ASSUME OverallTypeOK, ReadSound, [OverallNext]_overallVars
  PROVE  ReadSound'
<1>1. ASSUME NEW ran \in SUBSET alive, Tick(ran) PROVE ReadSound'
  <2>1. prevCpu' = prevCpu
    BY <1>1 DEF Tick, samplerVars
  <2>2. SUFFICES ASSUME prevCpu # << >>
                 PROVE  \E p \in [CpuIds -> StatLine] : /\ prevCpu' = LinesOf(p, since'.online)
                                                     /\ \A c \in CpuIds : SinceOf(p, c)'
    BY <2>1 DEF ReadSound, SinceOf
  <2>3. PICK p \in [CpuIds -> StatLine] : /\ prevCpu = LinesOf(p, since.online)
                                       /\ \A c \in CpuIds : SinceOf(p, c)
    BY <2>2 DEF ReadSound
  <2>4. since'.online = since.online /\ \A c \in CpuIds : SinceOf(p, c)'
    BY <1>1, <2>3, ReadTick
  <2> QED
    BY <2>1, <2>3, <2>4
<1>2. CASE BeginSample
  <2>1. /\ prevCpu' = Lines /\ UNCHANGED <<cpu, online>>
        /\ since' = [online |-> online, cpu |-> [c \in CpuIds |-> NoJiffies]]
    BY <1>2 DEF BeginSample, machineVars
  <2>2. prevCpu' = LinesOf(cpu, since'.online) /\ cpu \in [CpuIds -> StatLine]
    BY <2>1, LinesType
  <2>3. ASSUME NEW c \in CpuIds
        PROVE  /\ since'.cpu[c].busy <= since'.cpu[c].all
               /\ cpu'[c].busy = cpu[c].busy + since'.cpu[c].busy
               /\ cpu'[c].idle = cpu[c].idle + (since'.cpu[c].all - since'.cpu[c].busy)
               /\ cpu'[c].guest = cpu[c].guest + since'.cpu[c].guest
    <3>1. /\ since'.cpu[c].busy = 0 /\ since'.cpu[c].all = 0 /\ since'.cpu[c].guest = 0
          /\ cpu' = cpu
      BY <2>1 DEF NoJiffies
    <3>2. cpu[c].busy \in Nat /\ cpu[c].idle \in Nat /\ cpu[c].guest \in Nat
      BY SinceType
    <3> QED
      BY <3>1, <3>2
  <2> QED
    BY <2>2, <2>3 DEF ReadSound, SinceOf
<1>3. CASE UNCHANGED <<prevCpu, cpu, since>>
  BY <1>3 DEF ReadSound, SinceOf
<1> QED
  BY <1>1, <1>2, <1>3
  DEF OverallNext, Plug, Exit, Fork, Visit, VisitRaises, EndSample, machineVars, samplerVars, overallVars

-----------------------------------------------------------------------------
(* The bars. *)

(* A bar is of what has passed: not of more than all, not of less than none. *)
LEMMA DeltaClamped ==
  ASSUME NEW a \in Ticks, NEW b \in Ticks
  PROVE  Delta(a, b).busy \in 0 .. Delta(a, b).all
<1> DEFINE all == b.total - a.total
           busy == all - (b.idle - a.idle)
<1>1. all \in Int /\ busy \in Int
  BY DEF Ticks
<1>2. Delta(a, b) = IF all <= 0 THEN Nothing
                    ELSE [busy |-> AtLeast(AtMost(busy, all), 0), all |-> all]
  BY DEF Delta
<1> HIDE DEF all, busy
<1>3. CASE all <= 0
  BY <1>2, <1>3 DEF Nothing
<1>4. CASE ~(all <= 0)
  <2>1. AtLeast(AtMost(busy, all), 0) \in 0 .. all
    BY <1>1, <1>4 DEF AtLeast, AtMost
  <2> QED
    BY <1>2, <1>4, <2>1
<1> QED
  BY <1>3, <1>4

(* counters that have counted no more busy jiffies than jiffies are shown    *)
(* as they are, with the jiffies of a guest once more                       *)
LEMMA DeltaExact ==
  ASSUME NEW a \in StatLine, NEW b \in StatLine, NEW j \in Jiffies, j.busy <= j.all,
         b.busy = a.busy + j.busy, b.idle = a.idle + (j.all - j.busy),
         b.guest = a.guest + j.guest
  PROVE  Delta(CpuTicks(a), CpuTicks(b)) = BarOf(j)
<1> DEFINE all == CpuTicks(b).total - CpuTicks(a).total
           busy == all - (CpuTicks(b).idle - CpuTicks(a).idle)
<1>1. PICK x \in Nat, y \in Nat, z \in Nat : x = j.busy /\ y = j.all /\ z = j.guest
  BY DEF Jiffies
<1>2. PICK k \in Nat, l \in Nat, m \in Nat : k = a.busy /\ l = a.idle /\ m = a.guest
  BY DEF StatLine
<1>3. /\ b.busy = k + x /\ b.idle = l + (y - x) /\ b.guest = m + z /\ x <= y
  BY <1>1, <1>2
<1>4. all = y + z /\ busy = x + z
  BY <1>2, <1>3 DEF CpuTicks
<1>5. Delta(CpuTicks(a), CpuTicks(b)) =
        IF all <= 0 THEN Nothing ELSE [busy |-> AtLeast(AtMost(busy, all), 0), all |-> all]
  BY DEF Delta
<1> HIDE DEF all, busy
<1>6. AtLeast(AtMost(busy, all), 0) = busy /\ (all <= 0 <=> all = 0)
  BY <1>3, <1>4 DEF AtLeast, AtMost
<1>7. Counted(j) = [busy |-> busy, all |-> all]
  BY <1>1, <1>4 DEF Counted
<1> QED
  BY <1>5, <1>6, <1>7 DEF BarOf

(* The sums of what has passed on each CPU are what has passed on all.       *)
LEMMA SumsExact ==
  ASSUME OverallTypeOK, NEW p \in [CpuIds -> StatLine],
         \A c \in CpuIds : SinceOf(p, c)
  PROVE  Delta(CpuTicks(Sums(p)), CpuTicks(Sums(cpu))) = BarOf(TotalSince)
<1> DEFINE busy == [c \in CpuIds |-> since.cpu[c].busy]
           all == [c \in CpuIds |-> since.cpu[c].all]
           guest == [c \in CpuIds |-> since.cpu[c].guest]
           rest == [c \in CpuIds |-> since.cpu[c].all - since.cpu[c].busy]
           busy1 == [c \in CpuIds |-> p[c].busy]
           idle1 == [c \in CpuIds |-> p[c].idle]
           guest1 == [c \in CpuIds |-> p[c].guest]
           busy2 == [c \in CpuIds |-> cpu[c].busy]
           idle2 == [c \in CpuIds |-> cpu[c].idle]
           guest2 == [c \in CpuIds |-> cpu[c].guest]
<1>1. ASSUME NEW c \in CpuIds
      PROVE  /\ busy[c] \in Nat /\ rest[c] \in Nat /\ all[c] = busy[c] + rest[c]
             /\ guest[c] \in Nat
             /\ busy1[c] \in Nat /\ idle1[c] \in Nat /\ guest1[c] \in Nat
             /\ busy2[c] = busy1[c] + busy[c] /\ idle2[c] = idle1[c] + rest[c]
             /\ guest2[c] = guest1[c] + guest[c]
  <2>1. /\ since.cpu[c].busy \in Nat /\ since.cpu[c].all \in Nat /\ since.cpu[c].guest \in Nat
        /\ p[c].busy \in Nat /\ p[c].idle \in Nat /\ p[c].guest \in Nat
    BY SinceType DEF StatLine
  <2>2. SinceOf(p, c)
    OBVIOUS
  <2> QED
    BY <2>1, <2>2 DEF SinceOf
<1>2. /\ Sums(p) = [busy |-> Total(busy1), idle |-> Total(idle1), guest |-> Total(guest1)]
      /\ Sums(cpu) = [busy |-> Total(busy2), idle |-> Total(idle2), guest |-> Total(guest2)]
      /\ TotalSince = [busy |-> Total(busy), all |-> Total(all), guest |-> Total(guest)]
  BY DEF Sums, TotalSince
<1> HIDE DEF busy, all, guest, rest, busy1, idle1, guest1, busy2, idle2, guest2
<1>3. Total(busy) \in Nat /\ Total(rest) \in Nat /\ Total(all) = Total(busy) + Total(rest)
  BY <1>1, SumAdds
<1>4. Total(busy1) \in Nat /\ Total(busy2) = Total(busy1) + Total(busy)
  BY <1>1, SumAdds
<1>5. Total(idle1) \in Nat /\ Total(idle2) = Total(idle1) + Total(rest)
  BY <1>1, SumAdds
<1>6. /\ Total(guest) \in Nat /\ Total(guest1) \in Nat
      /\ Total(guest2) = Total(guest1) + Total(guest)
  BY <1>1, SumAdds
<1>7. /\ Sums(p) \in StatLine /\ Sums(cpu) \in StatLine /\ TotalSince \in Jiffies
      /\ TotalSince.busy <= TotalSince.all
      /\ Sums(cpu).busy = Sums(p).busy + TotalSince.busy
      /\ Sums(cpu).idle = Sums(p).idle + (TotalSince.all - TotalSince.busy)
      /\ Sums(cpu).guest = Sums(p).guest + TotalSince.guest
  BY <1>2, <1>3, <1>4, <1>5, <1>6 DEF StatLine, Jiffies
<1> QED
  BY <1>7, DeltaExact

BarsSound ==
  /\ \A i \in DOMAIN bars' : bars'[i].busy \in 0 .. bars'[i].all
  /\ bars'[1] = BarOf(TotalSince)
  /\ online = since.online =>
       /\ Len(bars') = 1 + Cardinality(online)
       /\ \A i \in 1 .. Cardinality(online) :
            bars'[i + 1] = BarOf(since.cpu[InOrder(online)[i]])

LEMMA BarsShown ==
  ASSUME OverallTypeOK, ReadSound, BeginSample, prevCpu # << >>
  PROVE  BarsSound
<1>1. PICK p \in [CpuIds -> StatLine] : /\ prevCpu = LinesOf(p, since.online)
                                     /\ \A c \in CpuIds : SinceOf(p, c)
  BY DEF ReadSound
<1>2. since.online \in SUBSET CpuIds
  BY DEF OverallTypeOK, Since
<1>3. PICK k \in Nat : /\ k = Cardinality(since.online)
                       /\ prevCpu \in [1 .. k + 1 -> Ticks] /\ prevCpu[1] = CpuTicks(Sums(p))
                       /\ \A i \in 1 .. k : /\ InOrder(since.online)[i] \in since.online
                                            /\ prevCpu[i + 1] = CpuTicks(p[InOrder(since.online)[i]])
  <2>1. Cardinality(since.online) \in Nat
    BY <1>2, LinesFacts
  <2> QED
    BY <1>1, <1>2, <2>1, LinesFacts
<1>4. Lines = LinesOf(cpu, online) /\ cpu \in [CpuIds -> StatLine] /\ online \in SUBSET CpuIds
  BY LinesType
<1>5. PICK n \in Nat : /\ n = Cardinality(online)
                       /\ Lines \in [1 .. n + 1 -> Ticks] /\ Lines[1] = CpuTicks(Sums(cpu))
                       /\ \A i \in 1 .. n : /\ InOrder(online)[i] \in online
                                            /\ Lines[i + 1] = CpuTicks(cpu[InOrder(online)[i]])
  <2>1. Cardinality(online) \in Nat
    BY <1>4, LinesFacts
  <2> QED
    BY <1>4, <2>1, LinesFacts
<1>6. Len(prevCpu) = k + 1 /\ Len(Lines) = n + 1
  BY <1>3, <1>5
<1> DEFINE m == AtMost(k + 1, n + 1)
<1>7. bars' = [i \in 1 .. m |-> Delta(prevCpu[i], Lines[i])]
  BY <1>6 DEF BeginSample
<1>8. m \in Nat /\ 1 <= m /\ m <= k + 1 /\ m <= n + 1 /\ (k = n => m = n + 1)
  BY DEF AtMost
<1> HIDE DEF m
<1>9. ASSUME NEW i \in 1 .. m PROVE bars'[i].busy \in 0 .. bars'[i].all
  <2>1. prevCpu[i] \in Ticks /\ Lines[i] \in Ticks
    <3>1. i \in 1 .. k + 1 /\ i \in 1 .. n + 1
      BY <1>8
    <3> QED
      BY <1>3, <1>5, <3>1
  <2> QED
    BY <1>7, <2>1, DeltaClamped
<1>10. bars'[1] = Delta(CpuTicks(Sums(p)), CpuTicks(Sums(cpu)))
  BY <1>3, <1>5, <1>7, <1>8
<1>11. ASSUME online = since.online
       PROVE  /\ Len(bars') = 1 + n
              /\ \A i \in 1 .. n : bars'[i + 1] = BarOf(since.cpu[InOrder(online)[i]])
  <2>1. k = n /\ m = n + 1
    BY <1>3, <1>5, <1>8, <1>11
  <2>2. Len(bars') = 1 + n
    BY <1>7, <2>1
  <2>3. ASSUME NEW i \in 1 .. n
        PROVE  bars'[i + 1] = BarOf(since.cpu[InOrder(online)[i]])
    <3>1. PICK c \in CpuIds : c = InOrder(online)[i]
      BY <1>4, <1>5
    <3>2. bars'[i + 1] = Delta(CpuTicks(p[c]), CpuTicks(cpu[c]))
      <4>1. i + 1 \in 1 .. m /\ i \in 1 .. k
        BY <2>1
      <4> QED
        BY <1>3, <1>5, <1>7, <1>11, <3>1, <4>1
    <3>3. SinceOf(p, c) /\ p[c] \in StatLine /\ cpu[c] \in StatLine
      BY <1>1, <1>4
    <3>4. since.cpu[c] \in Jiffies
      BY SinceType
    <3>5. Delta(CpuTicks(p[c]), CpuTicks(cpu[c])) = BarOf(since.cpu[c])
      BY <3>3, <3>4, DeltaExact DEF SinceOf
    <3> QED
      BY <3>1, <3>2, <3>4, <3>5
  <2> QED
    BY <2>2, <2>3
<1>12. DOMAIN bars' = 1 .. m
  BY <1>7
<1>13. Delta(CpuTicks(Sums(p)), CpuTicks(Sums(cpu))) = BarOf(TotalSince)
  BY <1>1, SumsExact
<1> QED
  BY <1>5, <1>9, <1>10, <1>11, <1>12, <1>13 DEF BarsSound

-----------------------------------------------------------------------------
(* The theorems. *)

LEMMA InvInit ==
  ASSUME OverallInit
  PROVE  SampleInv
<1>1. /\ world.jiffies \in Nat /\ world.plugs \in Nat /\ world.lives \in Nat /\ world.lives >= 1
      /\ world.tids \subseteq Tids /\ world \in Worlds
  BY SamplerAssumption DEF OverallInit, World
<1>2. \A t \in Tids : NoVisit[t] = [life |-> 0, used |-> 0]
  BY DEF NoVisit
<1>3. NoVisit \in Meetings
  BY <1>1 DEF NoVisit, Meetings
<1>4. visits = [now |-> NoVisit, before |-> NoVisit, ended |-> TRUE]
  BY DEF OverallInit
<1>5. visits \in Visits(world.lives)
  BY <1>3, <1>4 DEF Visits, Meetings
<1>6. CpuIds # {}
  BY SamplerAssumption DEF CpuIds
<1>7. since \in Since
  BY DEF OverallInit, Since, Jiffies, NoJiffies
<1>8. life \in [Tids -> 0 .. world.lives] /\ alive \in SUBSET Tids
  BY <1>1 DEF OverallInit
<1>9. prevCpu \in Seq([total : Nat, idle : Nat])
  BY DEF OverallInit
<1>10. time \in 1 .. 1 + world.jiffies /\ prevWall \in 0 .. time /\ wallDt \in 0 .. time
  BY <1>1 DEF OverallInit
<1>11. OverallTypeOK
  <2>1. MachineType
    <3>1. cpu \in [CpuIds -> StatLine] /\ used \in [Tids -> Nat]
      BY DEF OverallInit, StatLine
    <3>2. online \in (SUBSET CpuIds) \ {{}} /\ plugs \in 0 .. world.plugs
      BY <1>1, <1>6 DEF OverallInit
    <3> QED
      BY <1>1, <1>8, <1>10, <3>1, <3>2 DEF MachineType
  <2>2. ScanType
    BY <1>9, Empties DEF ScanType, OverallInit
  <2> QED
    BY <1>5, <1>7, <1>10, <2>1, <2>2, TypeParts DEF ClockType, HistoryType
<1>12. Lived
  BY <1>8 DEF Lived, OverallInit
<1>13. VisitsSound
  BY <1>2, <1>4, Empties DEF VisitsSound, Noted, OverallInit
<1>14. Timed
  BY <1>2, <1>4, Empties DEF Timed, OverallInit
<1>15. ReadSound
  BY DEF ReadSound, OverallInit
<1> QED
  BY <1>11, <1>12, <1>13, <1>14, <1>15 DEF SampleInv

LEMMA Invariant ==
    OverallSpec => []SampleInv
<1>1. OverallInit => SampleInv
  BY InvInit
<1>2. SampleInv /\ [OverallNext]_overallVars => SampleInv'
  BY TypeStep, LivedStep, VisitsStep, TimedStep, ReadStep DEF SampleInv
<1> QED
  BY <1>1, <1>2, PTL DEF OverallSpec

(* Every row comes with the ticks the next sample needs, a tid is never      *)
(* visited twice by a scan, and no time that was noted is ahead of the      *)
(* clock (gui/sys_metrics.py, Sampler).                                     *)
THEOREM SamplerTypeCorrect ==
    OverallSpec => []OverallTypeOK
<1>1. SampleInv => OverallTypeOK
  BY DEF SampleInv
<1> QED
  BY <1>1, Invariant, PTL

(* Whatever threads exit, reuse a tid or cannot be read: a row shows the     *)
(* jiffies its thread has used since the last scan that came to its end, or *)
(* fewer if the tid was another thread's, and never more than the time that *)
(* has passed allows (sample: d_jiffies).                                   *)
THEOREM RatesAreOwn ==
    OverallSpec => RowsTrue
<1> DEFINE Rows == \A t \in DOMAIN rows' \ DOMAIN rows : RowTrue(t)
<1>1. SampleInv /\ [OverallNext]_overallVars => [Rows]_overallVars
  <2>1. SUFFICES ASSUME SampleInv, OverallNext PROVE Rows
    OBVIOUS
  <2>2. ASSUME NEW u \in Tids, Visit(u) PROVE Rows
    BY <2>1, <2>2, RowAdded DEF SampleInv
  <2>3. ASSUME UNCHANGED rows PROVE Rows
    BY <2>3
  <2>4. ASSUME rows' = << >> PROVE Rows
    BY <2>4, Empties
  <2> HIDE DEF Rows
  <2> QED
    BY <2>1, <2>2, <2>3, <2>4
    DEF OverallNext, Tick, Plug, Exit, Fork, VisitRaises, BeginSample, EndSample, NoSnapshot, samplerVars
<1>2. [][Rows]_overallVars => RowsTrue
  BY DEF RowsTrue, RowTrue
<1> HIDE DEF Rows
<1> QED
  BY <1>1, <1>2, Invariant, PTL DEF OverallSpec

(* Whatever CPUs go off- and online: the total bar is the share of the whole *)
(* machine that was busy since the last sample, the i-th other one is that  *)
(* of the i-th CPU online as long as the same ones are, a guest's jiffies   *)
(* counted twice in both; and none leaves 0 to 100 % (_delta_pct,           *)
(* _read_proc_stat).                                                        *)
THEOREM BarsAreTrue ==
    OverallSpec => BarsTrue
<1> DEFINE Shown == BeginSample /\ prevCpu # << >> => BarsSound
<1>1. SampleInv => [Shown]_overallVars
  <2>1. SUFFICES ASSUME SampleInv, BeginSample, prevCpu # << >> PROVE BarsSound
    OBVIOUS
  <2> QED
    BY <2>1, BarsShown DEF SampleInv
<1>2. [][Shown]_overallVars => BarsTrue
  BY DEF BarsTrue, BarsSound
<1> HIDE DEF Shown
<1> QED
  BY <1>1, <1>2, Invariant, PTL
=============================================================================
