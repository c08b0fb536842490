-------------------------- MODULE Ancestry_proofs --------------------------
(***************************************************************************)
(* Proofs about Ancestry, for any set of pids: nobody is taken for a       *)
(* descendant of the target who is none, the climb never panics and always *)
(* moves up as long as no pid is used twice, and it misses nobody while    *)
(* all processes live and have one thread.                                 *)
(***************************************************************************)
EXTENDS Ancestry, FiniteSetTheorems, TLAPS

(* where the pointers of t may stand *)
Kin(t) == up[t] \cup {InitPid}

(* The tree: the tasks a task descends from are born, are closed upwards,   *)
(* contain their processes, and do not contain the task.                    *)
TreeOK ==
  /\ /\ alive[InitPid] /\ gen[InitPid] # 0
     /\ tgid[InitPid] = InitPid /\ up[InitPid] = {}
  /\ \A t \in Pids :
       /\ alive[t] => gen[t] # 0
       /\ gen[t] = 0 => up[t] = {} /\ tgid[t] = t
       /\ gen[t] # 0 => gen[tgid[t]] # 0
       /\ gen[t] # 0 /\ t # InitPid => InitPid \in up[t]
       /\ t \notin up[t]
       /\ ppid[t] \in Kin(t)
       /\ up[tgid[t]] = up[t] /\ tgid[tgid[t]] = tgid[t]
  /\ \A t \in Pids : \A u \in up[t] : gen[u] # 0 /\ up[u] \subseteq up[t] /\ tgid[u] \in up[t]

(* The pointers of an entry stand on kin of its task. *)
PointersOK ==
  \A t \in Pids :
    stats[t] # None => /\ gen[t] # 0
                       /\ stats[t].real_ppid \in Kin(t)
                       /\ stats[t].ancestor \in Kin(t)

(* The inductive invariant: this is so as long as no pid is used twice. *)
AncestryInv ==
  /\ TypeOK /\ TreeOK /\ PointersOK
  /\ target # InitPid
  /\ phase # "panicked"

OnceInv == TypeOK /\ (UsedOnce => AncestryInv)

-----------------------------------------------------------------------------
(* Facts about kin.                                                        *)

LEMMA KinTrans ==
  ASSUME TypeOK, TreeOK, NEW t \in Pids, NEW u \in Kin(t)
  PROVE  u \in Pids /\ gen[u] # 0 /\ Kin(u) \subseteq Kin(t)
BY PidAssumption DEF Kin, TreeOK, TypeOK

(* the process of kin is kin *)
LEMMA KinLeader ==
  ASSUME TypeOK, TreeOK, NEW t \in Pids, NEW u \in Kin(t)
  PROVE  tgid[u] \in Kin(t)
BY DEF Kin, TreeOK

(* what the kernel has above t now, t descends from *)
LEMMA AboveKin ==
  ASSUME TypeOK, TreeOK, NEW t \in Pids, NEW q \in Above(t)
  PROVE  q \in Kin(t)
<1>1. Kin(t) \in SUBSET Pids
  BY PidAssumption DEF Kin, TypeOK
<1>2. ppid[t] \in Kin(t)
  BY DEF TreeOK
<1>3. ASSUME NEW u \in Kin(t) PROVE ppid[u] \in Kin(t)
  <2>1. u \in Pids /\ Kin(u) \subseteq Kin(t)
    BY KinTrans
  <2>2. ppid[u] \in Kin(u)
    BY <2>1 DEF TreeOK
  <2> QED BY <2>1, <2>2
<1> QED BY <1>1, <1>2, <1>3 DEF Above

(* a step of the climb leads from kin to its kin *)
LEMMA NextUpKin ==
  ASSUME TypeOK, TreeOK, PointersOK, NEW a \in Pids, NEW x \in NextUp(a)
  PROVE  x \in Kin(a)
<1>1. CASE stats[a] # None
  BY <1>1 DEF NextUp, PointersOK
<1>2. CASE stats[a] = None
  <2>1. x \in {InitPid, tgid[ppid[a]]}
    BY <1>2 DEF NextUp
  <2>2. ppid[a] \in Kin(a)
    BY DEF TreeOK
  <2> QED BY <2>1, <2>2, KinLeader DEF Kin
<1> QED BY <1>1, <1>2

-----------------------------------------------------------------------------
(* What the steps do to an entry.                                          *)

LEMMA EntryFields ==
  ASSUME NEW s \in Stats, NEW x \in Pids
  PROVE  /\ [s EXCEPT !.ancestor = x] \in Stats
         /\ [s EXCEPT !.ancestor = x].ancestor = x
         /\ [s EXCEPT !.ancestor = x].real_ppid = s.real_ppid
         /\ [s EXCEPT !.ancestor = x].last_target = s.last_target
         /\ [s EXCEPT !.need_update = FALSE] \in Stats
         /\ [s EXCEPT !.need_update = FALSE].ancestor = s.ancestor
         /\ [s EXCEPT !.need_update = FALSE].real_ppid = s.real_ppid
         /\ [s EXCEPT !.need_update = FALSE].last_target = s.last_target
         /\ [s EXCEPT !.exit = TRUE] \in Stats
         /\ [s EXCEPT !.exit = TRUE].ancestor = s.ancestor
         /\ [s EXCEPT !.exit = TRUE].real_ppid = s.real_ppid
         /\ [s EXCEPT !.exit = TRUE].last_target = s.last_target
BY DEF Stats

LEMMA RestartedFields ==
  ASSUME TypeOK, NEW s \in Stats
  PROVE  /\ Restarted(s) \in Stats
         /\ Restarted(s).real_ppid = s.real_ppid
         /\ Restarted(s).last_target = target
         /\ Restarted(s).ancestor = IF s.last_target = target THEN s.ancestor ELSE s.real_ppid
<1>1. target \in Pids \cup {None}
  BY DEF TypeOK
<1>2. CASE s.last_target = target
  BY <1>2 DEF Restarted
<1>3. CASE s.last_target # target
  <2>1. Restarted(s) = [s EXCEPT !.ancestor = s.real_ppid, !.last_target = target]
    BY <1>3 DEF Restarted
  <2> QED BY <1>1, <1>3, <2>1 DEF Stats
<1> QED BY <1>2, <1>3

(* A visit changes one entry: it is the restarted one, moved one step up if *)
(* it was not at its root.                                                  *)
LEMMA VisitEntry ==
  ASSUME TypeOK, NEW t \in Pids, Visit(t)
  PROVE  \E s \in Stats, e \in Stats :
           /\ stats[t] = s /\ stats' = [stats EXCEPT ![t] = e]
           /\ e.real_ppid = s.real_ppid /\ e.last_target = target
           /\ \/ Rooted(Restarted(s)) /\ e.ancestor = Restarted(s).ancestor
              \/ /\ ~Rooted(Restarted(s)) /\ e.ancestor \in Pids
                 /\ e.ancestor \in NextUp(Restarted(s).ancestor)
           /\ marked' \in {marked, [marked EXCEPT ![t] = e.ancestor]}
<1>1. stats[t] # None /\ stats \in [Pids -> Stats \cup {None}]
  BY DEF Visit, TypeOK
<1>2. PICK s \in Stats : s = stats[t]
  BY <1>1
<1>3. PICK z \in Stats : z = Restarted(s)
  BY RestartedFields
<1>4. z.real_ppid = s.real_ppid /\ z.last_target = target /\ z.ancestor \in Pids
  BY <1>3, RestartedFields DEF Stats
<1>5. CASE Rooted(z)
  <2>1. Classified(t, z)
    BY <1>2, <1>3, <1>5 DEF Visit
  <2> DEFINE e == [z EXCEPT !.need_update = FALSE]
  <2>2. /\ e \in Stats /\ e.ancestor = z.ancestor /\ e.real_ppid = z.real_ppid
        /\ e.last_target = z.last_target
    BY <1>4, EntryFields
  <2>3. /\ stats' = [stats EXCEPT ![t] = e]
        /\ marked' \in {marked, [marked EXCEPT ![t] = z.ancestor]}
    BY <2>1 DEF Classified
  <2> HIDE DEF e
  <2>4. stats[t] = s /\ e.real_ppid = s.real_ppid /\ e.last_target = target
    BY <1>2, <1>4, <2>2
  <2>5. Rooted(Restarted(s)) /\ e.ancestor = Restarted(s).ancestor
    BY <1>3, <1>5, <2>2
  <2>6. marked' \in {marked, [marked EXCEPT ![t] = e.ancestor]}
    BY <2>2, <2>3
  <2> QED BY <2>2, <2>3, <2>4, <2>5, <2>6
<1>6. CASE ~Rooted(z)
  <2>1. PICK x \in NextUp(z.ancestor) : Classified(t, [z EXCEPT !.ancestor = x])
    BY <1>2, <1>3, <1>6 DEF Visit
  <2>2. x \in Pids
    BY <1>1, <1>4, PidAssumption DEF NextUp, TypeOK, Stats
  <2> DEFINE y == [z EXCEPT !.ancestor = x]
             e == [y EXCEPT !.need_update = FALSE]
  <2>3. /\ y \in Stats /\ y.ancestor = x /\ y.real_ppid = z.real_ppid
        /\ y.last_target = z.last_target
    BY <2>2, EntryFields
  <2>4. /\ stats' = [stats EXCEPT ![t] = e]
        /\ marked' \in {marked, [marked EXCEPT ![t] = y.ancestor]}
    BY <2>1 DEF Classified
  <2> HIDE DEF y
  <2>5. /\ e \in Stats /\ e.ancestor = y.ancestor /\ e.real_ppid = y.real_ppid
        /\ e.last_target = y.last_target
    BY <2>2, <2>3, EntryFields
  <2> HIDE DEF e
  <2>6. stats[t] = s /\ e.real_ppid = s.real_ppid /\ e.last_target = target
    BY <1>2, <1>4, <2>3, <2>5
  <2>7. /\ ~Rooted(Restarted(s)) /\ e.ancestor \in Pids
        /\ e.ancestor \in NextUp(Restarted(s).ancestor)
    BY <1>3, <1>6, <2>1, <2>2, <2>3, <2>5
  <2>8. marked' \in {marked, [marked EXCEPT ![t] = e.ancestor]}
    BY <2>3, <2>4, <2>5
  <2> QED BY <2>4, <2>5, <2>6, <2>7, <2>8
<1> QED BY <1>5, <1>6

-----------------------------------------------------------------------------
(* Type correctness.                                                       *)
LEMMA BirthType ==
  ASSUME TypeOK, NEW c \in Pids, NEW p \in Pids, NEW l \in Pids, NEW A \in SUBSET Pids,
         Birth(c, p, l, A)
  PROVE  TypeOK'
<1>1. /\ UNCHANGED <<world, stats, target, phase, todo, climb, marked>>
      /\ gen' = [gen EXCEPT ![c] = @ + 1]
      /\ alive' = [alive EXCEPT ![c] = TRUE]
      /\ ppid' = [ppid EXCEPT ![c] = p]
      /\ tgid' = [tgid EXCEPT ![c] = l]
      /\ up' = [up EXCEPT ![c] = A]
  BY DEF Birth
<1>2. gen' \in [Pids -> Nat]
  BY <1>1 DEF TypeOK
<1>3. alive' \in [Pids -> BOOLEAN] /\ ppid' \in [Pids -> Pids] /\ tgid' \in [Pids -> Pids]
  BY <1>1 DEF TypeOK
<1>4. up' \in [Pids -> SUBSET Pids]
  BY <1>1 DEF TypeOK
<1> QED BY <1>1, <1>2, <1>3, <1>4 DEF TypeOK

(* One entry is replaced by an entry. *)
LEMMA EntryType ==
  ASSUME TypeOK, NEW t \in Pids, NEW e \in Stats, stats' = [stats EXCEPT ![t] = e]
  PROVE  /\ stats' \in [Pids -> Stats \cup {None}] /\ stats'[t] = e
         /\ \A u \in Pids : stats[u] # None => stats'[u] # None
         /\ \A u \in Pids : u # t => stats'[u] = stats[u]
BY EntryAssumption DEF TypeOK

LEMMA EventEntry ==
  ASSUME TypeOK, NEW t \in Pids, Event(t)
  PROVE  \E e \in Stats :
           /\ stats' = [stats EXCEPT ![t] = e]
           /\ stats[t] = None => /\ e.real_ppid = ppid[t] /\ e.ancestor = ppid[t]
                                 /\ e.last_target = None
           /\ stats[t] # None => /\ e.real_ppid = stats[t].real_ppid
                                 /\ e.ancestor = stats[t].ancestor
                                 /\ e.last_target = stats[t].last_target
<1>1. ppid[t] \in Pids /\ stats[t] \in Stats \cup {None}
  BY DEF TypeOK
<1>2. FirstSeen(t) \in Stats /\ FirstSeen(t).real_ppid = ppid[t]
      /\ FirstSeen(t).ancestor = ppid[t] /\ FirstSeen(t).last_target = None
  BY <1>1 DEF FirstSeen, Stats
<1>3. PICK s \in Stats : s = IF stats[t] = None THEN FirstSeen(t) ELSE stats[t]
  BY <1>1, <1>2
<1>4. PICK enough \in BOOLEAN :
        stats' = [stats EXCEPT ![t] = [s EXCEPT !.need_update = TRUE, !.ready = @ \/ enough]]
  BY <1>3, PidAssumption DEF Event
<1> DEFINE e == [s EXCEPT !.need_update = TRUE, !.ready = s.ready \/ enough]
<1>5. /\ e \in Stats /\ e.real_ppid = s.real_ppid /\ e.ancestor = s.ancestor
      /\ e.last_target = s.last_target
  BY DEF Stats
<1>6. stats' = [stats EXCEPT ![t] = e]
  BY <1>4 DEF Stats
<1> HIDE DEF e
<1>7. CASE stats[t] = None
  BY <1>2, <1>3, <1>5, <1>6, <1>7
<1>8. CASE stats[t] # None
  BY <1>3, <1>5, <1>6, <1>8
<1> QED BY <1>7, <1>8

(* what an exit does to an entry *)
LEMMA ExitEntry ==
  ASSUME TypeOK, NEW t \in Pids, Exit(t)
  PROVE  \/ stats' = stats
         \/ \E e \in Stats : /\ stats[t] # None /\ stats' = [stats EXCEPT ![t] = e]
                             /\ e.real_ppid = stats[t].real_ppid
                             /\ e.ancestor = stats[t].ancestor
                             /\ e.last_target = stats[t].last_target
<1>1. CASE stats' = stats
  BY <1>1
<1>2. CASE stats[t] # None /\ stats' = [stats EXCEPT ![t].exit = TRUE]
  <2>1. PICK s \in Stats : s = stats[t]
    BY <1>2 DEF TypeOK
  <2>2. stats' = [stats EXCEPT ![t] = [s EXCEPT !.exit = TRUE]]
    BY <1>2, <2>1
  <2> DEFINE e == [s EXCEPT !.exit = TRUE]
  <2>3. /\ e \in Stats /\ e.ancestor = s.ancestor /\ e.real_ppid = s.real_ppid
        /\ e.last_target = s.last_target
    BY DEF Stats
  <2> QED BY <1>2, <2>1, <2>2, <2>3
<1> QED BY <1>1, <1>2 DEF Exit

(* a step of climb_to_root or the row at its end *)
LEMMA CollectEntry ==
  ASSUME TypeOK, NEW t \in Pids, CollectStep(t) \/ CollectRow(t)
  PROVE  \E e \in Stats :
           /\ stats' = [stats EXCEPT ![t] = e]
           /\ e.real_ppid = stats[t].real_ppid /\ e.last_target = stats[t].last_target
           /\ e.ancestor \in NextUp(stats[t].ancestor) \cup {stats[t].ancestor, InitPid}
           /\ marked' \in {marked, [marked EXCEPT ![t] = e.ancestor]}
<1>1. stats[t] # None /\ stats \in [Pids -> Stats \cup {None}]
  BY DEF CollectStep, CollectRow, TypeOK
<1>2. PICK s \in Stats : s = stats[t]
  BY <1>1
<1>3. s.ancestor \in Pids
  BY DEF Stats
<1>4. \E x \in Pids : /\ stats' = [stats EXCEPT ![t] = [s EXCEPT !.ancestor = x]]
                      /\ x \in NextUp(s.ancestor) \cup {s.ancestor, InitPid}
                      /\ marked' \in {marked, [marked EXCEPT ![t] = x]}
  <2>1. CASE CollectStep(t)
    <3>1. PICK x \in NextUp(s.ancestor) : stats' = [stats EXCEPT ![t].ancestor = x]
      BY <1>2, <2>1 DEF CollectStep
    <3>2. x \in Pids
      BY <1>1, <1>3, PidAssumption DEF NextUp, TypeOK, Stats
    <3> QED BY <1>2, <2>1, <3>1, <3>2 DEF CollectStep
  <2>2. CASE CollectRow(t)
    <3>1. PICK x \in {s.ancestor, InitPid} :
            /\ stats' = [stats EXCEPT ![t].ancestor = x]
            /\ marked' = [marked EXCEPT ![t] = x]
      BY <1>2, <2>2 DEF CollectRow
    <3> QED BY <1>2, <1>3, <3>1, PidAssumption
  <2> QED BY <2>1, <2>2
<1>5. PICK x \in Pids : /\ stats' = [stats EXCEPT ![t] = [s EXCEPT !.ancestor = x]]
                        /\ x \in NextUp(s.ancestor) \cup {s.ancestor, InitPid}
                        /\ marked' \in {marked, [marked EXCEPT ![t] = x]}
  BY <1>4
<1> DEFINE e == [s EXCEPT !.ancestor = x]
<1>6. /\ e \in Stats /\ e.ancestor = x /\ e.real_ppid = s.real_ppid
      /\ e.last_target = s.last_target
  BY EntryFields
<1> QED BY <1>2, <1>5, <1>6

(* Every step keeps the types. *)
LEMMA TypeStep ==
  ASSUME TypeOK, [Next]_vars
  PROVE  TypeOK'
<1> USE DEF kernelVars
<1>1. ASSUME NEW p \in Pids, NEW c \in Pids, Fork(p, c) PROVE TypeOK'
  <2>1. Birth(c, p, c, {p, tgid[p]} \cup up[p]) /\ {p, tgid[p]} \cup up[p] \in SUBSET Pids
    BY <1>1 DEF Fork, TypeOK
  <2> QED BY <2>1, BirthType
<1>2. ASSUME NEW p \in Pids, NEW c \in Pids, Clone(p, c) PROVE TypeOK'
  <2>1. Birth(c, ppid[p], tgid[p], up[p])
    BY <1>2 DEF Clone
  <2>2. ppid[p] \in Pids /\ tgid[p] \in Pids /\ up[p] \in SUBSET Pids
    BY DEF TypeOK
  <2> QED BY <2>1, <2>2, BirthType
<1>3. ASSUME NEW t \in Pids, Exit(t) PROVE TypeOK'
  <2>1. /\ UNCHANGED <<world, gen, tgid, up, phase, todo, climb, marked>>
        /\ alive' = [alive EXCEPT ![t] = FALSE]
        /\ target' = target \/ target' = None
    BY <1>3 DEF Exit
  <2>2. ppid' \in [Pids -> Pids]
    <3>1. PICK r \in Pids : ppid' = [u \in Pids |-> IF ppid[u] = t THEN r ELSE ppid[u]]
      BY <1>3 DEF Exit, TypeOK, Above
    <3> QED BY <3>1 DEF TypeOK
  <2>3. /\ stats' \in [Pids -> Stats \cup {None}]
        /\ \A u \in Pids : stats[u] # None => stats'[u] # None
    <3>1. CASE stats' = stats
      BY <3>1 DEF TypeOK
    <3>2. CASE stats' # stats
      <4>1. PICK e \in Stats : stats' = [stats EXCEPT ![t] = e]
        BY <1>3, <3>2, ExitEntry
      <4> QED BY <4>1, EntryType
    <3> QED BY <3>1, <3>2
  <2>4. alive' \in [Pids -> BOOLEAN]
    BY <2>1 DEF TypeOK
  <2> QED BY <2>1, <2>2, <2>3, <2>4 DEF TypeOK
<1>4. ASSUME NEW t \in Pids, Event(t) PROVE TypeOK'
  <2>1. UNCHANGED <<kernelVars, target, phase, todo, climb, marked>>
    BY <1>4 DEF Event
  <2>2. PICK e \in Stats : stats' = [stats EXCEPT ![t] = e]
    BY <1>4, EventEntry
  <2>3. /\ stats' \in [Pids -> Stats \cup {None}]
        /\ \A u \in Pids : stats[u] # None => stats'[u] # None
    BY <2>2, EntryType
  <2> QED BY <2>1, <2>3 DEF TypeOK
<1>5. ASSUME NEW t \in Pids, Visit(t) PROVE TypeOK'
  <2>1. UNCHANGED <<kernelVars, target, phase, climb>> /\ todo' = todo \ {t}
    BY <1>5 DEF Visit
  <2>2. PICK e \in Stats : /\ stats' = [stats EXCEPT ![t] = e]
                           /\ marked' \in {marked, [marked EXCEPT ![t] = e.ancestor]}
    BY <1>5, VisitEntry
  <2>3. /\ stats' \in [Pids -> Stats \cup {None}]
        /\ \A u \in Pids : stats[u] # None => stats'[u] # None
    BY <2>2, EntryType
  <2>4. marked' \in [Pids -> Pids \cup {None}]
    <3>1. e.ancestor \in Pids
      BY DEF Stats
    <3> QED BY <2>2, <3>1 DEF TypeOK
  <2> QED BY <2>1, <2>3, <2>4 DEF TypeOK
<1>6. ASSUME NEW t \in Pids, CollectStep(t) \/ CollectRow(t) PROVE TypeOK'
  <2>1. UNCHANGED <<kernelVars, target, phase>> /\ todo' \subseteq todo
    BY <1>6 DEF CollectStep, CollectRow
  <2>2. PICK e \in Stats : /\ stats' = [stats EXCEPT ![t] = e]
                           /\ marked' \in {marked, [marked EXCEPT ![t] = e.ancestor]}
    BY <1>6, CollectEntry
  <2>3. /\ stats' \in [Pids -> Stats \cup {None}]
        /\ \A u \in Pids : stats[u] # None => stats'[u] # None
    BY <2>2, EntryType
  <2>4. marked' \in [Pids -> Pids \cup {None}]
    <3>1. e.ancestor \in Pids
      BY DEF Stats
    <3> QED BY <2>2, <3>1 DEF TypeOK
  <2>5. climb' \in [tid : Pids \cup {None}, steps : 0 .. MaxSteps]
    <3>1. MaxSteps \in Nat /\ climb.steps \in 0 .. MaxSteps
      BY PidAssumption DEF TypeOK
    <3>2. CASE CollectStep(t)
      <4>1. climb' = [tid |-> t, steps |-> climb.steps + 1] /\ climb.steps < MaxSteps
        BY <3>2 DEF CollectStep
      <4>2. climb.steps + 1 \in 0 .. MaxSteps
        BY <3>1, <4>1
      <4> QED BY <4>1, <4>2
    <3>3. CASE CollectRow(t)
      BY <3>1, <3>3 DEF CollectRow, NoClimb
    <3> QED BY <1>6, <3>2, <3>3
  <2> QED BY <2>1, <2>3, <2>4, <2>5 DEF TypeOK
<1>7. ASSUME NEW t \in Pids, SelfBorrow(t) PROVE TypeOK'
  BY <1>7 DEF SelfBorrow, TypeOK
<1>8. ASSUME NEW p \in Pids \cup {None}, SetTarget(p) PROVE TypeOK'
  BY <1>8 DEF SetTarget, TypeOK
<1>9. CASE BeginCycle
  BY <1>9 DEF BeginCycle, TypeOK
<1>10. CASE EndCycle
  <2>1. UNCHANGED <<kernelVars, stats, target, todo, climb>>
        /\ phase' \in {"poll", "done"} /\ marked' = [t \in Pids |-> None]
    BY <1>10 DEF EndCycle
  <2> QED BY <2>1 DEF TypeOK
<1>11. CASE UNCHANGED vars
  BY <1>11 DEF vars, TypeOK
<1> QED BY <1>1, <1>2, <1>3, <1>4, <1>5, <1>6, <1>7, <1>8, <1>9, <1>10, <1>11 DEF Next

-----------------------------------------------------------------------------
(* The tree, as long as no pid is used twice.                              *)

(* a pid is given away for the first time *)
LEMMA BirthOnce ==
  ASSUME TypeOK, UsedOnce', NEW c \in Pids, gen' = [gen EXCEPT ![c] = @ + 1]
  PROVE  gen[c] = 0
<1>1. gen'[c] = gen[c] + 1 /\ gen[c] \in Nat
  BY DEF TypeOK
<1>2. gen'[c] <= 1
  BY DEF UsedOnce
<1> QED BY <1>1, <1>2

(* ... and what is used once now was used once before *)
LEMMA UsedOnceBefore ==
  ASSUME TypeOK, UsedOnce', [Next]_vars
  PROVE  UsedOnce
<1>1. CASE UNCHANGED gen
  BY <1>1 DEF UsedOnce
<1>2. ASSUME NEW c \in Pids, gen' = [gen EXCEPT ![c] = @ + 1] PROVE UsedOnce
  <2>1. gen[c] = 0
    BY <1>2, BirthOnce
  <2>2. \A t \in Pids : t # c => gen'[t] = gen[t]
    BY <1>2 DEF TypeOK
  <2> QED BY <2>1, <2>2 DEF UsedOnce
<1>3. CASE \E p, c \in Pids : Fork(p, c) \/ Clone(p, c)
  BY <1>2, <1>3 DEF Fork, Clone, Birth
<1>4. CASE ~ \E p, c \in Pids : Fork(p, c) \/ Clone(p, c)
  BY <1>1, <1>4 DEF Next, vars, kernelVars, Exit, Event, Visit, CollectStep, CollectRow,
                    SelfBorrow, SetTarget, BeginCycle, EndCycle
<1> QED BY <1>3, <1>4

(* A new task below p, in a process l of its own or of p, descends from     *)
(* tasks that are born and closed upwards.                                  *)
LEMMA BirthTree ==
  ASSUME UsedOnce', TypeOK, TreeOK, TypeOK',
         NEW c \in Pids, NEW p \in Pids, NEW l \in Pids, NEW A \in SUBSET Pids,
         Birth(c, p, l, A), c \notin A, InitPid \in A, p \in A,
         l = c \/ (tgid[l] = l /\ gen[l] # 0 /\ up[l] = A),
         \A u \in A : gen[u] # 0 /\ up[u] \subseteq A /\ tgid[u] \in A
  PROVE  TreeOK'
<1>1. /\ gen[c] = 0 /\ gen' = [gen EXCEPT ![c] = @ + 1]
      /\ alive' = [alive EXCEPT ![c] = TRUE]
      /\ ppid' = [ppid EXCEPT ![c] = p]
      /\ tgid' = [tgid EXCEPT ![c] = l]
      /\ up' = [up EXCEPT ![c] = A]
  BY BirthOnce DEF Birth
<1>2. gen'[c] # 0 /\ \A t \in Pids : t # c => gen'[t] = gen[t]
  BY <1>1 DEF TypeOK
<1>3. /\ alive'[c] /\ ppid'[c] = p /\ tgid'[c] = l /\ up'[c] = A
      /\ \A t \in Pids : t # c => /\ alive'[t] = alive[t] /\ ppid'[t] = ppid[t]
                                  /\ tgid'[t] = tgid[t] /\ up'[t] = up[t]
  BY <1>1 DEF TypeOK
<1>4. c # InitPid
  BY <1>1 DEF TreeOK
<1>5. \A t \in Pids : c \notin up[t]
  BY <1>1 DEF TreeOK
<1>6. \A t \in Pids : t # c => tgid[t] # c
  BY <1>1 DEF TreeOK
<1>7. ASSUME NEW t \in Pids
      PROVE  /\ alive'[t] => gen'[t] # 0
             /\ gen'[t] = 0 => up'[t] = {} /\ tgid'[t] = t
             /\ gen'[t] # 0 => gen'[tgid'[t]] # 0
             /\ gen'[t] # 0 /\ t # InitPid => InitPid \in up'[t]
             /\ t \notin up'[t]
             /\ ppid'[t] \in Kin(t)'
             /\ up'[tgid'[t]] = up'[t] /\ tgid'[tgid'[t]] = tgid'[t]
  <2>1. CASE t = c
    <3>1. gen'[l] # 0 /\ up'[l] = A /\ tgid'[l] = l
      BY <1>1, <1>2, <1>3
    <3> QED BY <1>2, <1>3, <2>1, <3>1 DEF Kin
  <2>2. CASE t # c
    <3>1. tgid[t] \in Pids /\ tgid[t] # c
      BY <1>6, <2>2 DEF TypeOK
    <3>2. Kin(t)' = Kin(t)
      BY <1>3, <2>2 DEF Kin
    <3> QED BY <1>2, <1>3, <2>2, <3>1, <3>2 DEF TreeOK
  <2> QED BY <2>1, <2>2
<1>8. ASSUME NEW t \in Pids, NEW u \in up'[t]
      PROVE  gen'[u] # 0 /\ up'[u] \subseteq up'[t] /\ tgid'[u] \in up'[t]
  <2>1. u \in Pids /\ u # c
    <3>1. CASE t = c
      <4>1. u \in A
        BY <1>3, <1>8, <3>1
      <4> QED BY <4>1
    <3>2. CASE t # c
      <4>1. u \in up[t] /\ up[t] \in SUBSET Pids
        BY <1>3, <1>8, <3>2 DEF TypeOK
      <4> QED BY <1>5, <4>1
    <3> QED BY <3>1, <3>2
  <2>2. gen'[u] = gen[u] /\ up'[u] = up[u] /\ tgid'[u] = tgid[u]
    BY <1>2, <1>3, <2>1
  <2>3. CASE t = c
    BY <1>3, <1>8, <2>2, <2>3
  <2>4. CASE t # c
    <3>1. up'[t] = up[t] /\ u \in up[t]
      BY <1>3, <1>8, <2>4
    <3> QED BY <2>2, <3>1 DEF TreeOK
  <2> QED BY <2>3, <2>4
<1>9. alive'[InitPid] /\ gen'[InitPid] # 0 /\ tgid'[InitPid] = InitPid /\ up'[InitPid] = {}
  BY <1>2, <1>3, <1>4, PidAssumption DEF TreeOK
<1> QED BY <1>7, <1>8, <1>9 DEF TreeOK

LEMMA ForkTree ==
  ASSUME UsedOnce', TypeOK, TreeOK, TypeOK', NEW p \in Pids, NEW c \in Pids, Fork(p, c)
  PROVE  TreeOK'
<1> DEFINE A == {p, tgid[p]} \cup up[p]
<1>1. Birth(c, p, c, A) /\ alive[p]
  BY DEF Fork
<1>2. gen[c] = 0
  BY <1>1, BirthOnce DEF Birth
<1>3. tgid[p] \in Pids /\ up[p] \in SUBSET Pids /\ A \in SUBSET Pids
  BY DEF TypeOK
<1>4. gen[p] # 0 /\ gen[tgid[p]] # 0
  BY <1>1 DEF TreeOK
<1>5. ASSUME NEW u \in A PROVE gen[u] # 0 /\ up[u] \subseteq A /\ tgid[u] \in A
  BY <1>3, <1>4 DEF TreeOK
<1>6. c \notin A
  BY <1>2, <1>5
<1>7. InitPid \in A
  BY <1>4 DEF TreeOK
<1>8. p \in A
  OBVIOUS
<1> HIDE DEF A
<1> QED BY <1>1, <1>3, <1>5, <1>6, <1>7, <1>8, BirthTree

LEMMA CloneTree ==
  ASSUME UsedOnce', TypeOK, TreeOK, TypeOK', NEW p \in Pids, NEW c \in Pids, Clone(p, c)
  PROVE  TreeOK'
<1>1. Birth(c, ppid[p], tgid[p], up[p]) /\ alive[p] /\ p # InitPid
  BY DEF Clone
<1>2. gen[c] = 0
  BY <1>1, BirthOnce DEF Birth
<1>3. tgid[p] \in Pids /\ up[p] \in SUBSET Pids /\ ppid[p] \in Pids
  BY DEF TypeOK
<1>4. gen[p] # 0 /\ gen[tgid[p]] # 0 /\ tgid[tgid[p]] = tgid[p] /\ up[tgid[p]] = up[p]
  BY <1>1 DEF TreeOK
<1>5. InitPid \in up[p] /\ ppid[p] \in up[p]
  BY <1>1, <1>4 DEF TreeOK, Kin
<1>6. \A u \in up[p] : gen[u] # 0 /\ up[u] \subseteq up[p] /\ tgid[u] \in up[p]
  BY DEF TreeOK
<1>7. c \notin up[p]
  BY <1>2, <1>6
<1> QED BY <1>1, <1>3, <1>4, <1>5, <1>6, <1>7, BirthTree

(* Reparenting leads to kin. *)
LEMMA ExitTree ==
  ASSUME TypeOK, TreeOK, TypeOK', NEW t \in Pids, Exit(t)
  PROVE  TreeOK'
<1>1. /\ t # InitPid /\ alive' = [alive EXCEPT ![t] = FALSE]
      /\ UNCHANGED <<gen, tgid, up>>
  BY DEF Exit
<1>2. PICK r \in Pids : /\ ppid' = [u \in Pids |-> IF ppid[u] = t THEN r ELSE ppid[u]]
                        /\ r = tgid[t] \/ \E q \in Above(t) : r = tgid[q]
  BY DEF Exit, TypeOK, Above
<1>3. ASSUME NEW u \in Pids PROVE ppid'[u] \in Kin(u)
  <2>1. ppid[u] \in Kin(u)
    BY DEF TreeOK
  <2>2. CASE ppid[u] # t
    BY <1>2, <2>1, <2>2
  <2>3. CASE ppid[u] = t
    <3>1. ppid'[u] = r
      BY <1>2, <2>3
    <3>2. t \in Kin(u) /\ Kin(t) \subseteq Kin(u)
      BY <2>1, <2>3, KinTrans
    <3>3. CASE r = tgid[t]
      BY <3>1, <3>2, <3>3, KinLeader
    <3>4. CASE \E q \in Above(t) : r = tgid[q]
      <4>1. PICK q \in Above(t) : r = tgid[q]
        BY <3>4
      <4>2. q \in Kin(u)
        BY <3>2, <4>1, AboveKin
      <4> QED BY <3>1, <4>1, <4>2, KinLeader
    <3> QED BY <1>2, <3>3, <3>4
  <2> QED BY <2>2, <2>3
<1>4. alive'[InitPid] /\ \A u \in Pids : alive'[u] => alive[u]
  BY <1>1, PidAssumption DEF TreeOK, TypeOK
<1>5. \A u \in Pids : ppid'[u] \in Kin(u)'
  BY <1>1, <1>3 DEF Kin
<1> QED BY <1>1, <1>4, <1>5 DEF TreeOK

(* The pointers of the entries stay on kin. *)
LEMMA PointersStep ==
  ASSUME UsedOnce', AncestryInv, TypeOK', Next
  PROVE  PointersOK'
<1> USE DEF kernelVars
<1>1. TypeOK /\ TreeOK /\ PointersOK
  BY DEF AncestryInv
<1>2. ASSUME UNCHANGED <<gen, up>>, NEW t \in Pids, NEW e \in Stats,
             stats' = [stats EXCEPT ![t] = e], gen[t] # 0,
             e.real_ppid \in Kin(t), e.ancestor \in Kin(t)
      PROVE  PointersOK'
  <2>1. stats'[t] = e /\ \A u \in Pids : u # t => stats'[u] = stats[u]
    BY <1>1, <1>2, EntryType
  <2>2. \A u \in Pids : Kin(u)' = Kin(u) /\ gen'[u] = gen[u]
    BY <1>2 DEF Kin
  <2> QED BY <1>1, <1>2, <2>1, <2>2 DEF PointersOK
<1>3. ASSUME UNCHANGED <<gen, up, stats>> PROVE PointersOK'
  BY <1>1, <1>3 DEF PointersOK, Kin
<1>4. ASSUME NEW c \in Pids, gen[c] = 0, gen'[c] # 0, UNCHANGED stats,
             \A t \in Pids : t # c => up'[t] = up[t] /\ gen'[t] = gen[t]
      PROVE  PointersOK'
  <2>1. stats[c] = None
    BY <1>1, <1>4 DEF PointersOK
  <2>2. \A t \in Pids : t # c => Kin(t)' = Kin(t)
    BY <1>4 DEF Kin
  <2> QED BY <1>1, <1>4, <2>1, <2>2 DEF PointersOK
<1>5. ASSUME NEW p \in Pids, NEW c \in Pids, Fork(p, c) \/ Clone(p, c) PROVE PointersOK'
  <2>1. /\ gen' = [gen EXCEPT ![c] = @ + 1] /\ UNCHANGED stats
        /\ \E A : up' = [up EXCEPT ![c] = A]
    BY <1>5 DEF Fork, Clone, Birth
  <2>2. gen[c] = 0 /\ gen'[c] # 0 /\ \A t \in Pids : t # c => gen'[t] = gen[t]
    <3>1. gen[c] = 0
      BY <1>1, <2>1, BirthOnce DEF AncestryInv
    <3> QED BY <2>1, <3>1 DEF AncestryInv, TypeOK
  <2>3. \A t \in Pids : t # c => up'[t] = up[t]
    BY <1>1, <2>1 DEF TypeOK
  <2> QED BY <1>4, <2>1, <2>2, <2>3
<1>6. ASSUME NEW t \in Pids, Exit(t) PROVE PointersOK'
  <2>1. UNCHANGED <<gen, up>>
    BY <1>6 DEF Exit
  <2>2. CASE stats' = stats
    BY <1>3, <2>1, <2>2
  <2>3. CASE stats' # stats
    <3>1. PICK e \in Stats : /\ stats[t] # None /\ stats' = [stats EXCEPT ![t] = e]
                             /\ e.real_ppid = stats[t].real_ppid
                             /\ e.ancestor = stats[t].ancestor
      BY <1>1, <1>6, <2>3, ExitEntry
    <3>2. gen[t] # 0 /\ e.real_ppid \in Kin(t) /\ e.ancestor \in Kin(t)
      BY <1>1, <3>1 DEF PointersOK
    <3> QED BY <1>2, <2>1, <3>1, <3>2
  <2> QED BY <2>2, <2>3
<1>7. ASSUME NEW t \in Pids, Event(t) PROVE PointersOK'
  <2>1. UNCHANGED <<gen, up>> /\ alive[t]
    BY <1>7 DEF Event
  <2>2. PICK e \in Stats :
           /\ stats' = [stats EXCEPT ![t] = e]
           /\ stats[t] = None => e.real_ppid = ppid[t] /\ e.ancestor = ppid[t]
           /\ stats[t] # None => /\ e.real_ppid = stats[t].real_ppid
                                 /\ e.ancestor = stats[t].ancestor
    BY <1>1, <1>7, EventEntry
  <2>3. gen[t] # 0 /\ ppid[t] \in Kin(t)
    BY <1>1, <2>1 DEF TreeOK
  <2>4. e.real_ppid \in Kin(t) /\ e.ancestor \in Kin(t)
    BY <1>1, <2>2, <2>3 DEF PointersOK
  <2> QED BY <1>2, <2>1, <2>2, <2>3, <2>4
<1>8. ASSUME NEW t \in Pids, Visit(t) PROVE PointersOK'
  <2>1. UNCHANGED <<gen, up>> /\ stats[t] # None
    BY <1>1, <1>8 DEF Visit, TypeOK
  <2>2. PICK s \in Stats, e \in Stats :
           /\ stats[t] = s /\ stats' = [stats EXCEPT ![t] = e]
           /\ e.real_ppid = s.real_ppid
           /\ \/ e.ancestor = Restarted(s).ancestor
              \/ e.ancestor \in NextUp(Restarted(s).ancestor)
    BY <1>1, <1>8, VisitEntry
  <2>3. gen[t] # 0 /\ s.real_ppid \in Kin(t) /\ s.ancestor \in Kin(t)
    BY <1>1, <2>1, <2>2 DEF PointersOK
  <2>4. PICK a \in Kin(t) : a = Restarted(s).ancestor
    BY <1>1, <2>3, RestartedFields
  <2>5. a \in Pids /\ Kin(a) \subseteq Kin(t)
    BY <1>1, KinTrans
  <2>6. e.ancestor \in Kin(t)
    <3>1. CASE e.ancestor = a
      BY <3>1
    <3>2. CASE e.ancestor \in NextUp(a)
      BY <1>1, <2>5, <3>2, NextUpKin
    <3> QED BY <2>2, <2>4, <3>1, <3>2
  <2> QED BY <1>2, <2>1, <2>2, <2>3, <2>6
<1>9. ASSUME NEW t \in Pids, CollectStep(t) \/ CollectRow(t) PROVE PointersOK'
  <2>1. UNCHANGED <<gen, up>> /\ stats[t] # None
    BY <1>1, <1>9 DEF CollectStep, CollectRow, TypeOK
  <2>2. PICK e \in Stats :
           /\ stats' = [stats EXCEPT ![t] = e]
           /\ e.real_ppid = stats[t].real_ppid
           /\ e.ancestor \in NextUp(stats[t].ancestor) \cup {stats[t].ancestor, InitPid}
    BY <1>1, <1>9, CollectEntry
  <2>3. gen[t] # 0 /\ stats[t].real_ppid \in Kin(t) /\ stats[t].ancestor \in Kin(t)
    BY <1>1, <2>1 DEF PointersOK
  <2>4. PICK a \in Kin(t) : a = stats[t].ancestor
    BY <2>3
  <2>5. a \in Pids /\ Kin(a) \subseteq Kin(t)
    BY <1>1, KinTrans
  <2>6. e.ancestor \in Kin(t)
    <3>1. CASE e.ancestor \in {a, InitPid}
      BY <3>1 DEF Kin
    <3>2. CASE e.ancestor \in NextUp(a)
      BY <1>1, <2>5, <3>2, NextUpKin
    <3> QED BY <2>2, <2>4, <3>1, <3>2
  <2> QED BY <1>2, <2>1, <2>2, <2>3, <2>6
<1>10. ASSUME NEW t \in Pids, SelfBorrow(t) PROVE PointersOK'
  BY <1>3, <1>10 DEF SelfBorrow
<1>11. ASSUME NEW p \in Pids \cup {None}, SetTarget(p) PROVE PointersOK'
  BY <1>3, <1>11 DEF SetTarget
<1>12. CASE BeginCycle \/ EndCycle
  BY <1>3, <1>12 DEF BeginCycle, EndCycle
<1> QED BY <1>5, <1>6, <1>7, <1>8, <1>9, <1>10, <1>11, <1>12 DEF Next

(* An entry that has to climb never stands on its own task. *)
LEMMA NoSelfBorrow ==
  ASSUME AncestryInv, NEW t \in Pids
  PROVE  ~SelfBorrow(t)
<1> SUFFICES ASSUME SelfBorrow(t) PROVE FALSE
  OBVIOUS
<1>1. TypeOK /\ TreeOK /\ PointersOK
  BY DEF AncestryInv
<1>2. PICK s \in Stats : s = stats[t]
  BY <1>1 DEF SelfBorrow, TypeOK
<1>3. PICK a \in Kin(t) : a = t /\ a # InitPid
  <2>1. s.real_ppid \in Kin(t) /\ s.ancestor \in Kin(t)
    BY <1>1, <1>2 DEF PointersOK, SelfBorrow, TypeOK
  <2>2. CASE world.mode = "classify"
    <3>1. Restarted(s).ancestor = t /\ ~Rooted(Restarted(s))
      BY <1>2, <2>2 DEF SelfBorrow
    <3>2. Restarted(s).ancestor \in Kin(t)
      BY <1>1, <2>1, RestartedFields
    <3> QED BY <3>1, <3>2 DEF Rooted
  <2>3. CASE world.mode # "classify"
    BY <1>2, <2>1, <2>3 DEF SelfBorrow, Rooted
  <2> QED BY <2>2, <2>3
<1> QED BY <1>1, <1>3 DEF TreeOK, Kin

LEMMA AncestryStep ==
  ASSUME UsedOnce', AncestryInv, [Next]_vars
  PROVE  AncestryInv'
<1> USE DEF kernelVars
<1>1. TypeOK /\ TreeOK /\ PointersOK /\ target # InitPid /\ phase # "panicked"
  BY DEF AncestryInv
<1>2. TypeOK'
  BY <1>1, TypeStep
<1>3. CASE UNCHANGED vars
  <2>1. TreeOK'
    BY <1>1, <1>3 DEF vars, TreeOK, Kin
  <2>2. PointersOK'
    BY <1>1, <1>3 DEF vars, PointersOK, Kin
  <2> QED BY <1>1, <1>2, <1>3, <2>1, <2>2 DEF vars, AncestryInv
<1>4. CASE Next
  <2>1. PointersOK'
    BY <1>2, <1>4, PointersStep
  <2>2. TreeOK'
    <3>1. ASSUME UNCHANGED kernelVars PROVE TreeOK'
      BY <1>1, <3>1 DEF TreeOK, Kin
    <3>2. CASE \E p, c \in Pids : Fork(p, c) \/ Clone(p, c)
      BY <1>1, <1>2, <3>2, ForkTree, CloneTree
    <3>3. CASE \E t \in Pids : Exit(t)
      BY <1>1, <1>2, <3>3, ExitTree
    <3>4. CASE \E t \in Pids : Event(t) \/ Visit(t) \/ CollectStep(t) \/ CollectRow(t)
                               \/ SelfBorrow(t)
      BY <3>1, <3>4 DEF Event, Visit, CollectStep, CollectRow, SelfBorrow
    <3>5. CASE BeginCycle \/ EndCycle \/ \E p \in Pids \cup {None} : SetTarget(p)
      BY <3>1, <3>5 DEF BeginCycle, EndCycle, SetTarget
    <3> QED BY <1>4, <3>2, <3>3, <3>4, <3>5 DEF Next
  <2>3. target' # InitPid
    <3>1. None # InitPid
      BY PidAssumption
    <3>2. ASSUME NEW t \in Pids, Exit(t) PROVE target' # InitPid
      BY <1>1, <3>1, <3>2 DEF Exit
    <3>3. ASSUME NEW p \in Pids \cup {None}, SetTarget(p) PROVE target' # InitPid
      BY <3>1, <3>3 DEF SetTarget
    <3> QED BY <1>1, <1>4, <3>2, <3>3
            DEF Next, Fork, Clone, Birth, Event, Visit, CollectStep, CollectRow, SelfBorrow,
                BeginCycle, EndCycle
  <2>4. phase' # "panicked"
    <3>1. \A t \in Pids : ~SelfBorrow(t)
      BY NoSelfBorrow
    <3> QED BY <1>1, <1>4, <3>1
            DEF Next, Fork, Clone, Birth, Exit, Event, Visit, CollectStep, CollectRow,
                SetTarget, BeginCycle, EndCycle
  <2> QED BY <1>2, <2>1, <2>2, <2>3, <2>4 DEF AncestryInv
<1> QED BY <1>3, <1>4

LEMMA AncestryInit == Init => AncestryInv
<1> SUFFICES ASSUME Init PROVE AncestryInv
  OBVIOUS
<1>1. /\ InitPid \in Pids /\ None \notin Pids
      /\ MaxSteps \in Nat \ {0}
  BY PidAssumption
<1>2. TypeOK
  <2>1. gen \in [Pids -> Nat] /\ world \in Worlds
    BY <1>1 DEF Init
  <2>2. climb \in [tid : Pids \cup {None}, steps : 0 .. MaxSteps]
    BY <1>1 DEF Init, NoClimb
  <2>3. alive \in [Pids -> BOOLEAN] /\ ppid \in [Pids -> Pids] /\ tgid \in [Pids -> Pids]
    BY <1>1 DEF Init
  <2>4. /\ up \in [Pids -> SUBSET Pids] /\ stats \in [Pids -> Stats \cup {None}]
        /\ marked \in [Pids -> Pids \cup {None}] /\ todo \in SUBSET Pids
        /\ \A t \in todo : stats[t] # None
    BY DEF Init
  <2> QED BY <2>1, <2>2, <2>3, <2>4 DEF Init, TypeOK
<1>3. TreeOK
  <2>1. \A t \in Pids : gen[t] = 0 <=> t # InitPid
    BY DEF Init
  <2>2. \A t \in Pids : alive[t] <=> t = InitPid
    BY Zenon DEF Init
  <2>3. \A t \in Pids : ppid[t] = InitPid /\ tgid[t] = t /\ up[t] = {}
    BY DEF Init
  <2> QED BY <1>1, <2>1, <2>2, <2>3 DEF TreeOK, Kin
<1>4. PointersOK
  BY DEF Init, PointersOK
<1> QED BY <1>1, <1>2, <1>3, <1>4 DEF Init, AncestryInv

(* The inductive invariant holds of every behaviour. *)
THEOREM AncestryInvariant == Spec => []OnceInv
<1>1. Init => OnceInv
  BY AncestryInit DEF OnceInv, AncestryInv
<1>2. OnceInv /\ [Next]_vars => OnceInv'
  <2> SUFFICES ASSUME OnceInv, [Next]_vars PROVE OnceInv'
    OBVIOUS
  <2>1. TypeOK'
    BY TypeStep DEF OnceInv
  <2>2. ASSUME UsedOnce' PROVE AncestryInv'
    BY <2>2, UsedOnceBefore, AncestryStep DEF OnceInv
  <2> QED BY <2>1, <2>2 DEF OnceInv
<1> QED BY <1>1, <1>2, PTL DEF Spec

(* Every variable keeps its type, whatever the reuse of pids. *)
THEOREM AncestryTypeCorrect == Spec => []TypeOK
<1>1. Init => TypeOK
  BY AncestryInit DEF AncestryInv
<1>2. TypeOK /\ [Next]_vars => TypeOK'
  BY TypeStep
<1> QED BY <1>1, <1>2, PTL DEF Spec

(* Nobody is taken for a descendant of the target who is none, whatever     *)
(* forks, clones, exits, reparentings, changes of the target and stale      *)
(* pointers there are.                                                      *)
THEOREM FamilyIsSound == Spec => []FamilySound
<1>1. OnceInv => FamilySound
  BY DEF OnceInv, AncestryInv, PointersOK, Kin, FamilySound
<1> QED BY <1>1, AncestryInvariant, PTL

(* The climb never borrows the entry it climbs for, in either mode, as long *)
(* as no pid is used twice.                                                 *)
THEOREM ClimbNeverPanics == Spec => []PanicsOnReuse
<1>1. OnceInv => PanicsOnReuse
  BY DEF OnceInv, AncestryInv, PanicsOnReuse, NeverPanics
<1> QED BY <1>1, AncestryInvariant, PTL

(* Every visit of an entry that is not at its root takes it strictly up.    *)
THEOREM ClimbAlwaysAdvances == Spec => ClimbAdvances
<1> DEFINE Advances == \A t \in Pids : UsedOnce /\ Visit(t) /\ ~Rooted(Restarted(stats[t]))
                         => stats'[t].ancestor \in up[Restarted(stats[t]).ancestor]
<1>1. OnceInv => Advances
  <2> SUFFICES ASSUME AncestryInv, NEW t \in Pids, Visit(t), ~Rooted(Restarted(stats[t]))
               PROVE  stats'[t].ancestor \in up[Restarted(stats[t]).ancestor]
    BY DEF OnceInv
  <2>1. TypeOK /\ TreeOK /\ PointersOK
    BY DEF AncestryInv
  <2>2. PICK s \in Stats, e \in Stats :
           /\ stats[t] = s /\ stats' = [stats EXCEPT ![t] = e]
           /\ \/ Rooted(Restarted(s))
              \/ e.ancestor \in NextUp(Restarted(s).ancestor)
    BY <2>1, VisitEntry
  <2>3. s.real_ppid \in Kin(t) /\ s.ancestor \in Kin(t)
    <3>1. stats[t] # None
      BY <2>1 DEF Visit, TypeOK
    <3> QED BY <2>1, <2>2, <3>1 DEF PointersOK
  <2>4. PICK a \in Kin(t) : a = Restarted(s).ancestor /\ a # InitPid
    BY <2>1, <2>2, <2>3, RestartedFields DEF Rooted
  <2>5. a \in Pids /\ gen[a] # 0 /\ InitPid \in up[a]
    BY <2>1, <2>4, KinTrans DEF TreeOK
  <2>6. e.ancestor \in up[a]
    BY <2>1, <2>2, <2>4, <2>5, NextUpKin DEF Kin
  <2>7. stats'[t] = e
    BY <2>1, <2>2, EntryType
  <2> QED BY <2>2, <2>4, <2>6, <2>7
<1>2. Spec => []OnceInv
  BY AncestryInvariant
<1> QED BY <1>1, <1>2, PTL DEF ClimbAdvances

(* In classify mode no exit, reparenting or reuse of a pid takes a task out *)
(* of the family while the target stays.                                    *)
THEOREM FamilyIsKept == Spec => FamilyKept
<1> DEFINE Keeps == \A t \in Pids :
                      world.mode = "classify" /\ stats[t] # None
                        /\ stats[t].ancestor = target /\ stats[t].last_target = target /\ target' = target
                      => stats'[t].ancestor = target
<1>1. TypeOK /\ [Next]_vars => Keeps
  <2> USE DEF kernelVars
  <2> SUFFICES ASSUME TypeOK, [Next]_vars, NEW t \in Pids,
                      world.mode = "classify", stats[t] # None,
                      stats[t].ancestor = target, stats[t].last_target = target
               PROVE  stats'[t].ancestor = target
    OBVIOUS
  <2>1. ASSUME stats' = stats PROVE stats'[t].ancestor = target
    BY <2>1
  <2>2. ASSUME NEW u \in Pids, NEW e \in Stats, stats' = [stats EXCEPT ![u] = e],
               u = t => e.ancestor = target
        PROVE  stats'[t].ancestor = target
    BY <2>2, EntryType
  <2>3. PICK s \in Stats : s = stats[t] /\ s.ancestor = target /\ s.last_target = target
    BY DEF TypeOK
  <2>4. ASSUME NEW u \in Pids, Exit(u) PROVE stats'[t].ancestor = target
    BY <2>1, <2>2, <2>3, <2>4, ExitEntry
  <2>5. ASSUME NEW u \in Pids, Event(u) PROVE stats'[t].ancestor = target
    <3>1. PICK e \in Stats : /\ stats' = [stats EXCEPT ![u] = e]
                             /\ stats[u] # None => e.ancestor = stats[u].ancestor
      BY <2>5, EventEntry
    <3> QED BY <2>2, <3>1
  <2>6. ASSUME NEW u \in Pids, Visit(u) PROVE stats'[t].ancestor = target
    <3>1. PICK z \in Stats, e \in Stats :
             /\ stats[u] = z /\ stats' = [stats EXCEPT ![u] = e]
             /\ \/ e.ancestor = Restarted(z).ancestor
                \/ ~Rooted(Restarted(z))
      BY <2>6, VisitEntry
    <3>2. u = t => Restarted(z) = s
      BY <2>3, <3>1 DEF Restarted
    <3>3. u = t => e.ancestor = target
      BY <2>3, <3>1, <3>2 DEF Rooted
    <3> QED BY <2>2, <3>1, <3>3
  <2>7. CASE Next
    <3>1. \A u \in Pids : ~CollectStep(u) /\ ~CollectRow(u)
      BY DEF CollectStep, CollectRow
    <3> QED BY <2>1, <2>4, <2>5, <2>6, <2>7, <3>1
            DEF Next, Fork, Clone, Birth, SelfBorrow, SetTarget, BeginCycle, EndCycle
  <2>8. CASE UNCHANGED vars
    BY <2>1, <2>8 DEF vars
  <2> QED BY <2>7, <2>8
<1> QED BY <1>1, AncestryTypeCorrect, PTL DEF FamilyKept, Spec

-----------------------------------------------------------------------------
(* Nobody is missed, while processes have one thread and nobody exits.      *)

(* a task descends from its parent and from what that descends from *)
PlainTree ==
  \A t \in Pids :
    /\ alive[t] <=> gen[t] # 0
    /\ tgid[t] = t
    /\ gen[t] # 0 /\ t # InitPid => up[t] = {ppid[t]} \cup up[ppid[t]]

(* A pointer computed for a target, present or not, has not passed it.      *)
PointersComplete ==
  \A t \in Pids :
    stats[t] # None
      => /\ stats[t].real_ppid = ppid[t]
         /\ stats[t].last_target \in up[t]
              => \/ stats[t].ancestor = stats[t].last_target
                 \/ stats[t].last_target \in up[stats[t].ancestor]

CompleteInv == AncestryInv /\ PlainTree /\ PointersComplete

ForksInv == OnceInv /\ (OnlyForks /\ world.mode = "classify" => CompleteInv)

LEMMA PlainTreeStep ==
  ASSUME UsedOnce', TypeOK, TreeOK, PlainTree, NEW p \in Pids, NEW c \in Pids, Fork(p, c)
  PROVE  /\ PlainTree'
         /\ gen[c] = 0
         /\ \A t \in Pids : t # c => up'[t] = up[t] /\ ppid'[t] = ppid[t] /\ gen'[t] = gen[t]
<1>1. /\ gen' = [gen EXCEPT ![c] = @ + 1]
      /\ alive' = [alive EXCEPT ![c] = TRUE]
      /\ ppid' = [ppid EXCEPT ![c] = p]
      /\ tgid' = [tgid EXCEPT ![c] = c]
      /\ up' = [up EXCEPT ![c] = {p, tgid[p]} \cup up[p]]
      /\ alive[p]
  BY DEF Fork, Birth
<1>2. gen[c] = 0 /\ gen'[c] # 0 /\ \A t \in Pids : t # c => gen'[t] = gen[t]
  <2>1. gen[c] = 0
    BY <1>1, BirthOnce
  <2> QED BY <1>1, <2>1 DEF TypeOK
<1>3. /\ alive'[c] /\ ppid'[c] = p /\ tgid'[c] = c /\ up'[c] = {p} \cup up[p]
      /\ \A t \in Pids : t # c => /\ alive'[t] = alive[t] /\ ppid'[t] = ppid[t]
                                  /\ tgid'[t] = tgid[t] /\ up'[t] = up[t]
  BY <1>1 DEF TypeOK, PlainTree
<1>4. p # c /\ gen[p] # 0
  BY <1>1, <1>2 DEF PlainTree
<1>5. ASSUME NEW t \in Pids
      PROVE  /\ alive'[t] <=> gen'[t] # 0
             /\ tgid'[t] = t
             /\ gen'[t] # 0 /\ t # InitPid => up'[t] = {ppid'[t]} \cup up'[ppid'[t]]
  <2>1. CASE t = c
    BY <1>2, <1>3, <1>4, <2>1
  <2>2. CASE t # c
    <3>1. ASSUME gen[t] # 0, t # InitPid PROVE ppid[t] # c /\ ppid[t] \in Pids
      <4>1. ppid[t] \in up[t]
        BY <3>1 DEF PlainTree
      <4> QED BY <1>2, <4>1 DEF TreeOK, TypeOK
    <3>2. alive[t] <=> gen[t] # 0
      BY DEF PlainTree
    <3>3. tgid[t] = t
      BY DEF PlainTree
    <3>4. gen[t] # 0 /\ t # InitPid => up[t] = {ppid[t]} \cup up[ppid[t]]
      BY DEF PlainTree
    <3>5. gen[t] # 0 /\ t # InitPid => up'[ppid[t]] = up[ppid[t]]
      BY <1>3, <3>1
    <3> QED BY <1>2, <1>3, <2>2, <3>2, <3>3, <3>4, <3>5
  <2> QED BY <2>1, <2>2
<1> QED BY <1>2, <1>3, <1>5 DEF PlainTree

(* One step up from a does not pass a target that a descends from. *)
LEMMA NextUpComplete ==
  ASSUME TypeOK, PlainTree, PointersComplete, NEW a \in Pids, gen[a] # 0, a # InitPid,
         target \in up[a], NEW x \in NextUp(a)
  PROVE  x = target \/ target \in up[x]
<1>1. CASE stats[a] # None
  BY <1>1 DEF NextUp, PointersComplete, PlainTree
<1>2. CASE stats[a] = None
  <2>1. x = ppid[a]
    <3>1. alive[a] /\ ppid[a] \in Pids
      BY DEF PlainTree, TypeOK
    <3>2. tgid[ppid[a]] = ppid[a]
      BY <3>1 DEF PlainTree
    <3> QED BY <1>2, <3>1, <3>2 DEF NextUp
  <2> QED BY <2>1 DEF PlainTree
<1> QED BY <1>1, <1>2

LEMMA VisitComplete ==
  ASSUME CompleteInv, NEW t \in Pids, Visit(t)
  PROVE  PointersComplete'
<1>1. TypeOK /\ TreeOK /\ PointersOK /\ PlainTree /\ PointersComplete
  BY DEF CompleteInv, AncestryInv
<1>2. PICK s \in Stats, e \in Stats :
         /\ stats[t] = s /\ stats' = [stats EXCEPT ![t] = e]
         /\ e.real_ppid = s.real_ppid /\ e.last_target = target
         /\ \/ Rooted(Restarted(s)) /\ e.ancestor = Restarted(s).ancestor
            \/ ~Rooted(Restarted(s)) /\ e.ancestor \in NextUp(Restarted(s).ancestor)
  BY <1>1, VisitEntry
<1>3. stats[t] # None /\ gen[t] # 0 /\ s.real_ppid = ppid[t] /\ UNCHANGED <<up, ppid, gen>>
  BY <1>1, <1>2 DEF Visit, kernelVars, TypeOK, PointersOK, PointersComplete
<1>4. PICK a \in Kin(t) : a = Restarted(s).ancestor
  <2>1. s.real_ppid \in Kin(t) /\ s.ancestor \in Kin(t)
    BY <1>1, <1>2, <1>3 DEF PointersOK
  <2> QED BY <1>1, <2>1, RestartedFields
<1>5. a \in Pids /\ gen[a] # 0
  BY <1>1, KinTrans
<1>6. ASSUME target \in up[t] PROVE a = target \/ target \in up[a]
  <2>1. t # InitPid
    BY <1>1, <1>6 DEF TreeOK
  <2>2. CASE s.last_target = target
    <3>1. a = s.ancestor
      BY <1>1, <1>4, <2>2, RestartedFields
    <3> QED BY <1>1, <1>2, <1>3, <1>6, <2>2, <3>1 DEF PointersComplete
  <2>3. CASE s.last_target # target
    <3>1. a = ppid[t]
      BY <1>1, <1>3, <1>4, <2>3, RestartedFields
    <3> QED BY <1>1, <1>3, <1>6, <2>1, <3>1 DEF PlainTree
  <2> QED BY <2>2, <2>3
<1>7. ASSUME target \in up[t] PROVE e.ancestor = target \/ target \in up[e.ancestor]
  <2>1. CASE e.ancestor = a
    BY <1>6, <1>7, <2>1
  <2>2. CASE ~Rooted(Restarted(s)) /\ e.ancestor \in NextUp(a)
    <3>1. a # InitPid /\ a # target
      BY <1>4, <2>2 DEF Rooted
    <3>2. target \in up[a]
      BY <1>6, <1>7, <3>1
    <3> QED BY <1>1, <1>5, <2>2, <3>1, <3>2, NextUpComplete
  <2> QED BY <1>2, <1>4, <2>1, <2>2
<1>8. stats'[t] = e /\ \A u \in Pids : u # t => stats'[u] = stats[u]
  BY <1>1, <1>2, EntryType
<1> QED BY <1>1, <1>2, <1>3, <1>7, <1>8 DEF PointersComplete

(* no thread was made and no task exited if the tree has only grown by forks *)
LEMMA ForksStep ==
  ASSUME OnlyForks', TypeOK, TreeOK
  PROVE  \A p, c \in Pids : ~Clone(p, c) /\ ~Exit(p)
<1>1. ASSUME NEW t \in Pids, Exit(t) PROVE FALSE
  <2>1. gen[t] # 0 /\ gen' = gen /\ ~alive'[t]
    BY <1>1 DEF Exit, TreeOK, TypeOK
  <2> QED BY <2>1 DEF OnlyForks
<1>2. ASSUME NEW p \in Pids, NEW c \in Pids, Clone(p, c) PROVE FALSE
  <2>1. /\ gen' = [gen EXCEPT ![c] = @ + 1] /\ tgid' = [tgid EXCEPT ![c] = tgid[p]]
        /\ alive[p]
    BY <1>2 DEF Clone, Birth
  <2>2. gen[c] = 0
    BY <2>1, BirthOnce DEF OnlyForks
  <2>3. tgid'[c] = tgid[p] /\ tgid'[c] = c
    BY <2>1 DEF TypeOK, OnlyForks
  <2>4. gen[tgid[p]] # 0
    BY <2>1 DEF TreeOK
  <2> QED BY <2>2, <2>3, <2>4
<1> QED BY <1>1, <1>2

LEMMA CompleteStep ==
  ASSUME OnlyForks', world.mode = "classify", CompleteInv, AncestryInv', Next
  PROVE  PlainTree' /\ PointersComplete'
<1> USE DEF kernelVars
<1>1. TypeOK /\ TreeOK /\ PointersOK /\ PlainTree /\ PointersComplete
  BY DEF CompleteInv, AncestryInv
<1>2. ASSUME UNCHANGED <<alive, gen, ppid, tgid, up>> PROVE PlainTree'
  BY <1>1, <1>2 DEF PlainTree
<1>3. ASSUME UNCHANGED <<ppid, up, stats>> PROVE PointersComplete'
  BY <1>1, <1>3 DEF PointersComplete
<1>4. ASSUME NEW p \in Pids, NEW c \in Pids, Fork(p, c) PROVE PlainTree' /\ PointersComplete'
  <2>1. PlainTree' /\ gen[c] = 0
        /\ \A t \in Pids : t # c => up'[t] = up[t] /\ ppid'[t] = ppid[t] /\ gen'[t] = gen[t]
    BY <1>1, <1>4, PlainTreeStep DEF OnlyForks
  <2>2. stats' = stats /\ stats[c] = None
    BY <1>1, <1>4, <2>1 DEF Fork, Birth, PointersOK
  <2>3. ASSUME NEW t \in Pids, stats[t] # None
        PROVE  /\ t # c /\ stats[t].ancestor \in Pids /\ stats[t].ancestor # c
               /\ up'[stats[t].ancestor] = up[stats[t].ancestor]
    <3>1. stats[t].ancestor \in Kin(t)
      BY <1>1, <2>3 DEF PointersOK
    <3>2. stats[t].ancestor \in Pids /\ gen[stats[t].ancestor] # 0
      BY <1>1, <3>1, KinTrans
    <3> QED BY <2>1, <2>2, <2>3, <3>2
  <2> QED BY <1>1, <2>1, <2>2, <2>3 DEF PointersComplete
<1>5. \A p, c \in Pids : ~Clone(p, c) /\ ~Exit(p) /\ ~CollectStep(p) /\ ~CollectRow(p)
  <2>1. \A p \in Pids : ~CollectStep(p) /\ ~CollectRow(p)
    BY DEF CollectStep, CollectRow
  <2> QED BY <1>1, <2>1, ForksStep
<1>6. ASSUME NEW t \in Pids, Event(t) PROVE PlainTree' /\ PointersComplete'
  <2>1. UNCHANGED <<alive, gen, ppid, tgid, up>> /\ alive[t]
    BY <1>6 DEF Event
  <2>2. PICK e \in Stats :
           /\ stats' = [stats EXCEPT ![t] = e]
           /\ stats[t] = None => /\ e.real_ppid = ppid[t] /\ e.ancestor = ppid[t]
                                 /\ e.last_target = None
           /\ stats[t] # None => /\ e.real_ppid = stats[t].real_ppid
                                 /\ e.ancestor = stats[t].ancestor
                                 /\ e.last_target = stats[t].last_target
    BY <1>1, <1>6, EventEntry
  <2>3. stats'[t] = e /\ \A u \in Pids : u # t => stats'[u] = stats[u]
    BY <1>1, <2>2, EntryType
  <2>4. None \notin up[t]
    BY <1>1, PidAssumption DEF TypeOK
  <2>5. PointersComplete'
    <3>1. ASSUME NEW u \in Pids, stats'[u] # None
          PROVE  /\ stats'[u].real_ppid = ppid[u]
                 /\ stats'[u].last_target \in up[u]
                      => \/ stats'[u].ancestor = stats'[u].last_target
                         \/ stats'[u].last_target \in up[stats'[u].ancestor]
      <4>1. CASE u # t
        BY <1>1, <2>3, <3>1, <4>1 DEF PointersComplete
      <4>2. CASE u = t /\ stats[t] = None
        BY <2>2, <2>3, <2>4, <4>2
      <4>3. CASE u = t /\ stats[t] # None
        BY <1>1, <2>2, <2>3, <4>3 DEF PointersComplete
      <4> QED BY <4>1, <4>2, <4>3
    <3> QED BY <2>1, <3>1 DEF PointersComplete
  <2> QED BY <1>2, <2>1, <2>5
<1>7. ASSUME NEW t \in Pids, Visit(t) PROVE PlainTree' /\ PointersComplete'
  BY <1>2, <1>7, VisitComplete DEF Visit
<1>8. ASSUME NEW t \in Pids, SelfBorrow(t) PROVE PlainTree' /\ PointersComplete'
  BY <1>2, <1>3, <1>8 DEF SelfBorrow
<1>9. ASSUME NEW p \in Pids \cup {None}, SetTarget(p) PROVE PlainTree' /\ PointersComplete'
  BY <1>2, <1>3, <1>9 DEF SetTarget
<1>10. CASE BeginCycle \/ EndCycle
  BY <1>2, <1>3, <1>10 DEF BeginCycle, EndCycle
<1> QED BY <1>4, <1>5, <1>6, <1>7, <1>8, <1>9, <1>10 DEF Next

(* what has only grown by forks had only grown by forks before *)
LEMMA OnlyForksBefore ==
  ASSUME AncestryInv, OnlyForks', UsedOnce, [Next]_vars
  PROVE  OnlyForks
<1> USE DEF kernelVars
<1>1. TypeOK /\ TreeOK
  BY DEF AncestryInv
<1>2. ASSUME NEW t \in Pids
      PROVE  (gen[t] # 0 => alive[t]) /\ tgid[t] = t
  <2>1. ASSUME NEW c \in Pids, NEW p \in Pids, NEW l \in Pids, NEW A \in SUBSET Pids,
               Birth(c, p, l, A)
        PROVE  (gen[t] # 0 => alive[t]) /\ tgid[t] = t
    <3>1. /\ gen' = [gen EXCEPT ![c] = @ + 1] /\ alive' = [alive EXCEPT ![c] = TRUE]
          /\ tgid' = [tgid EXCEPT ![c] = l]
      BY <2>1 DEF Birth
    <3>2. gen[c] = 0
      BY <1>1, <3>1, BirthOnce DEF OnlyForks
    <3>3. t # c => gen'[t] = gen[t] /\ alive'[t] = alive[t] /\ tgid'[t] = tgid[t]
      BY <1>1, <3>1 DEF TypeOK
    <3> QED BY <1>1, <3>2, <3>3 DEF OnlyForks, TreeOK
  <2>2. CASE \E p, c \in Pids : Fork(p, c) \/ Clone(p, c)
    <3>1. PICK p \in Pids, c \in Pids : Fork(p, c) \/ Clone(p, c)
      BY <2>2
    <3>2. tgid[p] \in Pids /\ ppid[p] \in Pids /\ up[p] \in SUBSET Pids
      BY <1>1 DEF TypeOK
    <3> QED BY <2>1, <3>1, <3>2 DEF Fork, Clone
  <2>3. CASE \E u \in Pids : Exit(u)
    <3>1. PICK u \in Pids : Exit(u)
      BY <2>3
    <3>2. UNCHANGED <<gen, tgid>> /\ alive' = [alive EXCEPT ![u] = FALSE]
      BY <3>1 DEF Exit
    <3>3. alive'[t] => alive[t]
      BY <1>1, <3>2 DEF TypeOK
    <3> QED BY <3>2, <3>3 DEF OnlyForks
  <2>4. CASE UNCHANGED kernelVars
    BY <2>4 DEF OnlyForks
  <2> QED BY <2>2, <2>3, <2>4
          DEF Next, vars, Event, Visit, CollectStep, CollectRow, SelfBorrow, SetTarget,
              BeginCycle, EndCycle
<1> QED BY <1>2 DEF OnlyForks

(* The climb misses no descendant of the target, as long as processes have  *)
(* one thread and none exits -- also across changes of the target and       *)
(* pointers that were computed for another one.                             *)
THEOREM FamilyIsComplete == Spec => []FamilyComplete
<1>1. Init => ForksInv
  <2> SUFFICES ASSUME Init PROVE ForksInv
    OBVIOUS
  <2>1. PlainTree
    <3>1. \A t \in Pids : gen[t] = 0 <=> t # InitPid
      BY DEF Init
    <3>2. \A t \in Pids : alive[t] <=> t = InitPid
      BY Zenon DEF Init
    <3>3. \A t \in Pids : tgid[t] = t
      BY DEF Init
    <3> QED BY <3>1, <3>2, <3>3 DEF PlainTree
  <2>2. PointersComplete
    BY DEF Init, PointersComplete
  <2> QED BY <2>1, <2>2, AncestryInit DEF ForksInv, OnceInv, CompleteInv, AncestryInv
<1>2. ForksInv /\ OnceInv' /\ [Next]_vars => ForksInv'
  <2> SUFFICES ASSUME ForksInv, OnceInv', [Next]_vars, OnlyForks', world'.mode = "classify"
               PROVE  CompleteInv'
    BY DEF ForksInv
  <2>1. UsedOnce' /\ UsedOnce /\ AncestryInv /\ AncestryInv'
    BY UsedOnceBefore DEF ForksInv, OnceInv, OnlyForks
  <2>2. world' = world
    BY DEF Next, vars, kernelVars, Fork, Clone, Birth, Exit, Event, Visit, CollectStep,
           CollectRow, SelfBorrow, SetTarget, BeginCycle, EndCycle
  <2>3. CompleteInv
    BY <2>1, <2>2, OnlyForksBefore DEF ForksInv
  <2>4. CASE Next
    BY <2>1, <2>2, <2>3, <2>4, CompleteStep DEF CompleteInv
  <2>5. CASE UNCHANGED vars
    BY <2>1, <2>3, <2>5 DEF CompleteInv, PlainTree, PointersComplete, vars
  <2> QED BY <2>4, <2>5
<1>3. ForksInv => FamilyComplete
  BY DEF ForksInv, CompleteInv, PointersComplete, FamilyComplete
<1>4. Spec => []OnceInv
  BY AncestryInvariant
<1> QED BY <1>1, <1>2, <1>3, <1>4, PTL DEF Spec

-----------------------------------------------------------------------------
(* The CSV at the end of a collect run.                                    *)

(* what a task descends from is finite: one fork adds two *)
FiniteUp == \A t \in Pids : IsFiniteSet(up[t])

LEMMA FiniteUpStep ==
  ASSUME TypeOK, FiniteUp, [Next]_vars
  PROVE  FiniteUp'
<1>1. CASE UNCHANGED up
  BY <1>1 DEF FiniteUp
<1>2. ASSUME NEW c \in Pids, NEW A, IsFiniteSet(A), up' = [up EXCEPT ![c] = A] PROVE FiniteUp'
  BY <1>2 DEF FiniteUp, TypeOK
<1>3. ASSUME NEW p \in Pids, NEW c \in Pids, Fork(p, c) PROVE FiniteUp'
  <2>1. IsFiniteSet({p, tgid[p]} \cup up[p])
    <3>1. IsFiniteSet({p} \cup {tgid[p]}) /\ IsFiniteSet(up[p])
      BY FS_Singleton, FS_AddElement DEF FiniteUp
    <3> QED BY <3>1, FS_Union
  <2> QED BY <1>2, <1>3, <2>1 DEF Fork, Birth
<1>4. ASSUME NEW p \in Pids, NEW c \in Pids, Clone(p, c) PROVE FiniteUp'
  BY <1>2, <1>4 DEF Clone, Birth, FiniteUp
<1> QED BY <1>1, <1>3, <1>4
        DEF Next, vars, kernelVars, Exit, Event, Visit, CollectStep, CollectRow, SelfBorrow,
            SetTarget, BeginCycle, EndCycle

(* the higher a task, the less it descends from *)
LEMMA HigherHasLess ==
  ASSUME TypeOK, TreeOK, FiniteUp, NEW a \in Pids, NEW x \in up[a]
  PROVE  Cardinality(up[x]) < Cardinality(up[a])
<1>1. x \in Pids /\ up[x] \in SUBSET up[a] /\ x \notin up[x] /\ IsFiniteSet(up[a])
  BY DEF TypeOK, TreeOK, FiniteUp
<1>2. IsFiniteSet(up[x]) /\ Cardinality(up[x]) <= Cardinality(up[a])
  BY <1>1, FS_Subset
<1>3. Cardinality(up[x]) # Cardinality(up[a])
  BY <1>1, FS_Subset
<1>4. Cardinality(up[x]) \in Nat /\ Cardinality(up[a]) \in Nat
  BY <1>1, <1>2, FS_CardinalityType
<1> QED BY <1>2, <1>3, <1>4

(* A collect run leaves last_target alone.                                  *)
Untargeted ==
  \A t \in Pids : stats[t] # None => stats[t].real_ppid = ppid[t] /\ stats[t].last_target = None

(* the entry has yet to be collected *)
Waiting(t) == phase = "poll" \/ t \in todo

(* The entry that climbs has not passed the target, and the steps it has    *)
(* made and those left do not exceed the depth of its task.                 *)
Climbs(t) ==
  /\ stats[t] # None /\ stats[t].ancestor \in Kin(t)
  /\ climb.steps + Cardinality(up[stats[t].ancestor]) < Cardinality(up[t])
  /\ target \in up[t] => stats[t].ancestor = target \/ target \in up[stats[t].ancestor]

(* All the others that are yet to be collected are where they began.        *)
Climbing ==
  /\ climb.tid = None => climb.steps = 0
  /\ climb.tid # None => phase = "cycle" /\ climb.tid \in todo /\ Climbs(climb.tid)
  /\ \A t \in Pids : Waiting(t) /\ stats[t] # None /\ climb.tid # t => stats[t].ancestor = ppid[t]

OneCsv == world.mode = "collect" /\ ~world.checkpoint

CollectInv == AncestryInv /\ PlainTree /\ Untargeted /\ Climbing

LEMMA UntargetedComplete ==
  ASSUME TypeOK, Untargeted PROVE PointersComplete
<1>1. \A t \in Pids : None \notin up[t]
  BY PidAssumption DEF TypeOK
<1> QED BY <1>1 DEF Untargeted, PointersComplete

(* A task that begins to climb, or climbs, has not passed the target.       *)
LEMMA NotPassed ==
  ASSUME CollectInv, FiniteUp, NEW t \in Pids, t \in todo, climb.tid \in {None, t},
         t # InitPid
  PROVE  Climbs(t)
<1>1. TypeOK /\ TreeOK /\ PointersOK /\ PlainTree /\ Untargeted /\ Climbing
  BY DEF CollectInv, AncestryInv
<1>2. CASE climb.tid = t
  <2>1. climb.tid # None
    BY <1>2, PidAssumption
  <2> QED BY <1>1, <1>2, <2>1 DEF Climbing
<1>3. CASE climb.tid = None
  <2>1. climb.steps = 0 /\ stats[t] # None /\ climb.tid # t
    BY <1>1, <1>3, PidAssumption DEF Climbing, TypeOK
  <2>2. stats[t].ancestor = ppid[t] /\ gen[t] # 0
    BY <1>1, <2>1 DEF Climbing, Waiting, PointersOK
  <2>3. up[t] = {ppid[t]} \cup up[ppid[t]]
    BY <1>1, <2>2 DEF PlainTree
  <2>4. Cardinality(up[ppid[t]]) < Cardinality(up[t])
    BY <1>1, <2>3, HigherHasLess
  <2>5. ppid[t] \in Pids /\ Cardinality(up[ppid[t]]) \in Nat
    BY <1>1, FS_CardinalityType DEF TypeOK, FiniteUp
  <2> QED BY <2>1, <2>2, <2>3, <2>4, <2>5 DEF Climbs, Kin
<1> QED BY <1>2, <1>3

(* A step or a row changes one entry, and neither its parent nor its target.*)
LEMMA CollectChange ==
  ASSUME TypeOK, Untargeted, NEW t \in Pids, CollectStep(t) \/ CollectRow(t)
  PROVE  /\ \A u \in Pids : u # t => stats'[u] = stats[u]
         /\ stats[t] # None /\ stats'[t] # None
         /\ UNCHANGED <<alive, gen, ppid, tgid, up, world, target, phase>>
         /\ Untargeted'
         /\ CollectStep(t) => stats'[t].ancestor \in NextUp(stats[t].ancestor)
<1>1. PICK e \in Stats :
        /\ stats' = [stats EXCEPT ![t] = e]
        /\ e.real_ppid = stats[t].real_ppid /\ e.last_target = stats[t].last_target
  BY CollectEntry
<1>2. stats'[t] = e /\ e # None /\ \A u \in Pids : u # t => stats'[u] = stats[u]
  BY <1>1, EntryType, EntryAssumption
<1>3. stats[t] # None
  BY DEF CollectStep, CollectRow, TypeOK
<1>4. UNCHANGED <<alive, gen, ppid, tgid, up, world, target, phase>>
  BY DEF CollectStep, CollectRow, kernelVars
<1>5. Untargeted'
  BY <1>1, <1>2, <1>3, <1>4 DEF Untargeted
<1>6. ASSUME CollectStep(t) PROVE stats'[t].ancestor \in NextUp(stats[t].ancestor)
  <2>1. PICK a \in NextUp(stats[t].ancestor) : stats' = [stats EXCEPT ![t].ancestor = a]
    BY <1>6 DEF CollectStep
  <2>2. PICK s \in Stats : s = stats[t]
    BY <1>3 DEF TypeOK
  <2>3. stats'[t] = [s EXCEPT !.ancestor = a]
    BY <2>1, <2>2 DEF TypeOK
  <2>4. stats'[t].ancestor = a
    BY <2>3 DEF Stats
  <2> QED BY <2>4
<1> QED BY <1>2, <1>3, <1>4, <1>5, <1>6

LEMMA CollectStepClimbs ==
  ASSUME CollectInv, FiniteUp, NEW t \in Pids, CollectStep(t)
  PROVE  Untargeted' /\ Climbing'
<1>1. TypeOK /\ TreeOK /\ PointersOK /\ PlainTree /\ Untargeted /\ Climbing /\ target # InitPid
  BY DEF CollectInv, AncestryInv
<1>2. /\ phase = "cycle" /\ t \in todo /\ climb.tid \in {None, t} /\ ~Rooted(stats[t])
      /\ climb' = [tid |-> t, steps |-> climb.steps + 1] /\ UNCHANGED todo
  BY DEF CollectStep
<1>3. /\ \A u \in Pids : u # t => stats'[u] = stats[u]
      /\ stats[t] # None /\ stats'[t] # None
      /\ UNCHANGED <<alive, gen, ppid, tgid, up, world, target, phase>>
      /\ Untargeted'
      /\ stats'[t].ancestor \in NextUp(stats[t].ancestor)
  BY <1>1, CollectChange
<1>4. PICK a \in Kin(t) : a = stats[t].ancestor /\ a # InitPid /\ a # target
  BY <1>1, <1>2, <1>3 DEF Rooted, PointersOK
<1>5. PICK x : x = stats'[t].ancestor /\ x \in NextUp(a)
  BY <1>3, <1>4
<1>6. Climbs(t)
  <2>1. t # InitPid
    BY <1>1, <1>4 DEF TreeOK, Kin
  <2> QED BY <1>2, <2>1, NotPassed
<1>7. a \in Pids /\ gen[a] # 0 /\ Kin(a) \subseteq Kin(t)
  BY <1>1, KinTrans
<1>8. x \in Kin(a) /\ x \in up[a] /\ x \in Kin(t) /\ x \in Pids
  <2>1. x \in Kin(a)
    BY <1>1, <1>5, <1>7, NextUpKin
  <2>2. InitPid \in up[a]
    BY <1>1, <1>4, <1>7 DEF TreeOK
  <2>3. up[a] \in SUBSET Pids
    BY <1>1, <1>7 DEF TypeOK
  <2> QED BY <1>7, <2>1, <2>2, <2>3 DEF Kin
<1>9. target \in up[t] => x = target \/ target \in up[x]
  <2>1. target \in up[t] => target \in up[a]
    BY <1>4, <1>6 DEF Climbs
  <2>2. PointersComplete
    BY <1>1, UntargetedComplete
  <2> QED BY <1>1, <1>4, <1>5, <1>7, <2>1, <2>2, NextUpComplete
<1>10. climb.steps + 1 + Cardinality(up[x]) < Cardinality(up[t])
  <2>1. Cardinality(up[x]) < Cardinality(up[a])
    BY <1>1, <1>7, <1>8, HigherHasLess
  <2>2. climb.steps + Cardinality(up[a]) < Cardinality(up[t])
    BY <1>4, <1>6 DEF Climbs
  <2>3. /\ Cardinality(up[x]) \in Nat /\ Cardinality(up[a]) \in Nat
        /\ Cardinality(up[t]) \in Nat /\ climb.steps \in Nat
    BY <1>1, <1>7, <1>8, FS_CardinalityType, PidAssumption DEF FiniteUp, TypeOK
  <2> QED BY <2>1, <2>2, <2>3
<1>11. climb'.tid = t /\ climb'.steps = climb.steps + 1
  BY <1>2
<1>12. Climbs(t)'
  BY <1>3, <1>5, <1>8, <1>9, <1>10, <1>11 DEF Climbs, Kin
<1>13. ASSUME NEW u \in Pids, Waiting(u)', stats'[u] # None, climb'.tid # u
       PROVE  stats'[u].ancestor = ppid'[u]
  <2>1. u # t /\ Waiting(u) /\ stats'[u] = stats[u] /\ climb.tid # u
    BY <1>2, <1>3, <1>11, <1>13, PidAssumption DEF Waiting
  <2> QED BY <1>1, <1>3, <1>13, <2>1 DEF Climbing
<1>14. t # None
  BY PidAssumption
<1> QED BY <1>2, <1>3, <1>11, <1>12, <1>13, <1>14 DEF Climbing

LEMMA CollectRowClimbs ==
  ASSUME CollectInv, NEW t \in Pids, CollectRow(t)
  PROVE  Untargeted' /\ Climbing'
<1>1. TypeOK /\ Untargeted /\ Climbing
  BY DEF CollectInv, AncestryInv
<1>2. /\ phase = "cycle" /\ climb.tid \in {None, t} /\ todo' = todo \ {t} /\ climb' = NoClimb
  BY DEF CollectRow
<1>3. /\ \A u \in Pids : u # t => stats'[u] = stats[u]
      /\ UNCHANGED <<alive, gen, ppid, tgid, up, world, target, phase>>
      /\ Untargeted'
  BY <1>1, CollectChange
<1>4. climb'.tid = None /\ climb'.steps = 0
  BY <1>2 DEF NoClimb
<1>5. ASSUME NEW u \in Pids, Waiting(u)', stats'[u] # None
      PROVE  stats'[u].ancestor = ppid'[u]
  <2>1. u # t /\ Waiting(u) /\ stats'[u] = stats[u] /\ climb.tid # u
    BY <1>2, <1>3, <1>5, PidAssumption DEF Waiting
  <2> QED BY <1>1, <1>3, <1>5, <2>1 DEF Climbing
<1> QED BY <1>3, <1>4, <1>5 DEF Climbing

LEMMA CollectInvStep ==
  ASSUME OnlyForks', OneCsv, CollectInv, FiniteUp, AncestryInv', [Next]_vars
  PROVE  PlainTree' /\ Untargeted' /\ Climbing'
<1> USE DEF kernelVars
<1>1. TypeOK /\ TreeOK /\ PointersOK /\ PlainTree /\ Untargeted /\ Climbing
  BY DEF CollectInv, AncestryInv
<1>2. ASSUME UNCHANGED <<alive, gen, ppid, tgid, up>> PROVE PlainTree'
  BY <1>1, <1>2 DEF PlainTree
<1>3. ASSUME UNCHANGED <<ppid, stats>> PROVE Untargeted'
  BY <1>1, <1>3 DEF Untargeted
<1>4. phase = "poll" => climb.tid = None
  BY <1>1 DEF Climbing
<1>5. ASSUME NEW p \in Pids, NEW c \in Pids, Fork(p, c)
      PROVE  PlainTree' /\ Untargeted' /\ Climbing'
  <2>1. PlainTree' /\ gen[c] = 0
        /\ \A t \in Pids : t # c => up'[t] = up[t] /\ ppid'[t] = ppid[t] /\ gen'[t] = gen[t]
    BY <1>1, <1>5, PlainTreeStep DEF OnlyForks
  <2>2. UNCHANGED <<stats, target, phase, todo, climb>> /\ stats[c] = None
    BY <1>1, <1>5, <2>1 DEF Fork, Birth, PointersOK
  <2>3. Untargeted'
    BY <1>1, <2>1, <2>2 DEF Untargeted
  <2>4. ASSUME NEW t \in Pids, Climbs(t) PROVE Climbs(t)'
    <3>1. stats[t] # None /\ stats[t].ancestor \in Kin(t) /\ t # c
      BY <2>2, <2>4 DEF Climbs
    <3>2. stats[t].ancestor \in Pids /\ stats[t].ancestor # c
      BY <1>1, <2>1, <3>1, KinTrans
    <3>3. up'[t] = up[t] /\ up'[stats[t].ancestor] = up[stats[t].ancestor] /\ Kin(t)' = Kin(t)
      BY <2>1, <3>1, <3>2 DEF Kin
    <3> QED BY <2>2, <2>4, <3>3 DEF Climbs
  <2>5. \A t \in Pids : Waiting(t)' = Waiting(t)
    BY <2>2 DEF Waiting
  <2>6. climb.tid # None => climb.tid \in Pids
    BY <1>1 DEF TypeOK
  <2>7. Climbing'
    BY <1>1, <2>1, <2>2, <2>4, <2>5, <2>6 DEF Climbing
  <2> QED BY <2>1, <2>3, <2>7
<1>6. ASSUME NEW t \in Pids, Event(t) PROVE PlainTree' /\ Untargeted' /\ Climbing'
  <2>1. UNCHANGED <<alive, gen, ppid, tgid, up, target, phase, todo, climb>> /\ phase = "poll"
    BY <1>6 DEF Event
  <2>2. PICK e \in Stats :
           /\ stats' = [stats EXCEPT ![t] = e]
           /\ stats[t] = None => /\ e.real_ppid = ppid[t] /\ e.ancestor = ppid[t]
                                 /\ e.last_target = None
           /\ stats[t] # None => /\ e.real_ppid = stats[t].real_ppid
                                 /\ e.ancestor = stats[t].ancestor
                                 /\ e.last_target = stats[t].last_target
    BY <1>1, <1>6, EventEntry
  <2>3. stats'[t] = e /\ \A u \in Pids : u # t => stats'[u] = stats[u]
    BY <1>1, <2>2, EntryType
  <2>4. Untargeted'
    BY <1>1, <2>1, <2>2, <2>3 DEF Untargeted
  <2>5. \A u \in Pids : stats[u] # None => stats[u].ancestor = ppid[u]
    BY <1>1, <1>4, <2>1, PidAssumption DEF Climbing, Waiting
  <2>6. \A u \in Pids : stats'[u] # None => stats'[u].ancestor = ppid'[u]
    BY <2>1, <2>2, <2>3, <2>5
  <2>7. Climbing'
    BY <1>1, <1>4, <2>1, <2>6 DEF Climbing
  <2> QED BY <1>2, <2>1, <2>4, <2>7
<1>7. ASSUME NEW p \in Pids \cup {None}, SetTarget(p)
      PROVE  PlainTree' /\ Untargeted' /\ Climbing'
  <2>1. UNCHANGED <<alive, gen, ppid, tgid, up, stats, phase, todo, climb>> /\ phase = "poll"
    BY <1>7 DEF SetTarget
  <2>2. Climbing'
    BY <1>1, <1>4, <2>1 DEF Climbing, Waiting
  <2> QED BY <1>2, <1>3, <2>1, <2>2
<1>8. CASE BeginCycle
  <2>1. UNCHANGED <<alive, gen, ppid, tgid, up, stats, target, climb>> /\ phase = "poll"
    BY <1>8 DEF BeginCycle
  <2>2. Climbing'
    BY <1>1, <1>4, <2>1 DEF Climbing, Waiting
  <2> QED BY <1>2, <1>3, <2>1, <2>2
<1>9. CASE EndCycle
  <2>1. UNCHANGED <<alive, gen, ppid, tgid, up, stats, target, climb>>
    BY <1>9 DEF EndCycle
  <2>2. todo = {} /\ todo' = {} /\ phase' = "done" /\ climb.tid = None
    BY <1>1, <1>9 DEF EndCycle, OneCsv, Climbing
  <2>3. Climbing'
    BY <1>1, <2>1, <2>2 DEF Climbing, Waiting
  <2> QED BY <1>2, <1>3, <2>1, <2>3
<1>10. ASSUME NEW t \in Pids, CollectStep(t) \/ CollectRow(t)
       PROVE  PlainTree' /\ Untargeted' /\ Climbing'
  <2>1. Untargeted' /\ Climbing'
    BY <1>10, CollectStepClimbs, CollectRowClimbs
  <2>2. UNCHANGED <<alive, gen, ppid, tgid, up>>
    BY <1>10 DEF CollectStep, CollectRow
  <2> QED BY <1>2, <2>1, <2>2
<1>11. CASE UNCHANGED vars
  <2>1. UNCHANGED <<alive, gen, ppid, tgid, up, stats, target, phase, todo, climb>>
    BY <1>11 DEF vars
  <2>2. Climbing'
    BY <1>1, <2>1 DEF Climbing, Waiting, Climbs, Kin
  <2> QED BY <1>2, <1>3, <2>1, <2>2
<1>12. \A t \in Pids : ~Visit(t) /\ ~SelfBorrow(t)
  BY NoSelfBorrow DEF Visit, OneCsv, CollectInv
<1> QED BY <1>1, <1>5, <1>6, <1>7, <1>8, <1>9, <1>10, <1>11, <1>12, ForksStep DEF Next

(* What is collected under the target: the row of a task that descends from *)
(* it, if the climb can be as long as the task is deep.                     *)
LEMMA RowNamesTarget ==
  ASSUME CollectInv, FiniteUp, NEW t \in Pids, CollectRow(t), target \in up[t],
         Cardinality(up[t]) <= MaxSteps
  PROVE  marked'[t] = target
<1>1. TypeOK /\ TreeOK /\ PointersOK /\ Climbing
  BY DEF CollectInv, AncestryInv
<1>2. /\ t \in todo /\ climb.tid \in {None, t} /\ stats[t] # None
      /\ Rooted(stats[t]) \/ climb.steps = MaxSteps
      /\ marked' = [marked EXCEPT ![t] = IF climb.steps < MaxSteps THEN stats[t].ancestor ELSE InitPid]
  BY <1>1 DEF CollectRow, TypeOK
<1>3. t # InitPid
  BY <1>1, <1>2 DEF TreeOK
<1>4. Climbs(t)
  BY <1>2, <1>3, NotPassed
<1>5. climb.steps < MaxSteps
  <2>1. stats[t].ancestor \in Pids
    BY <1>1, <1>4, KinTrans DEF Climbs
  <2>2. /\ Cardinality(up[t]) \in Nat /\ Cardinality(up[stats[t].ancestor]) \in Nat
        /\ climb.steps \in Nat /\ MaxSteps \in Nat
    BY <1>1, <2>1, FS_CardinalityType, PidAssumption DEF FiniteUp, TypeOK
  <2> QED BY <1>4, <2>2 DEF Climbs
<1>6. Rooted(stats[t]) /\ marked'[t] = stats[t].ancestor
  BY <1>1, <1>2, <1>5, PidAssumption DEF TypeOK
<1>7. up[InitPid] = {}
  BY <1>1 DEF TreeOK
<1> QED BY <1>4, <1>6, <1>7 DEF Climbs, Rooted

(* The CSV at the end of a collect run names the target for every task that *)
(* descends from it and is no deeper than a climb is long, while processes  *)
(* have one thread and none exits, for any tree and any number of tasks.    *)
THEOREM CsvNamesTarget == Spec => CollectedUnderTarget
<1> DEFINE CsvInv == OnceInv /\ FiniteUp /\ (OnlyForks /\ OneCsv => CollectInv)
           Named == \A t \in Pids :
                      OnlyForks /\ ~world.checkpoint /\ CollectRow(t)
                        /\ target \in up[t] /\ Cardinality(up[t]) <= MaxSteps
                      => marked'[t] = target
<1>1. Init => CsvInv
  <2> SUFFICES ASSUME Init PROVE CsvInv
    OBVIOUS
  <2>1. PlainTree
    <3>1. \A t \in Pids : gen[t] = 0 <=> t # InitPid
      BY DEF Init
    <3>2. \A t \in Pids : alive[t] <=> t = InitPid
      BY Zenon DEF Init
    <3>3. \A t \in Pids : tgid[t] = t
      BY DEF Init
    <3> QED BY <3>1, <3>2, <3>3 DEF PlainTree
  <2>2. \A t \in Pids : stats[t] = None /\ up[t] = {}
    BY DEF Init
  <2>3. climb.tid = None /\ climb.steps = 0
    BY DEF Init, NoClimb
  <2>4. Untargeted /\ Climbing
    BY <2>2, <2>3 DEF Untargeted, Climbing
  <2>5. FiniteUp
    BY <2>2, FS_EmptySet DEF FiniteUp
  <2> QED BY <2>1, <2>4, <2>5, AncestryInit DEF CollectInv, OnceInv, AncestryInv
<1>2. CsvInv /\ OnceInv' /\ [Next]_vars => CsvInv'
  <2> SUFFICES ASSUME CsvInv, OnceInv', [Next]_vars PROVE CsvInv'
    OBVIOUS
  <2>1. FiniteUp'
    BY FiniteUpStep DEF OnceInv
  <2>2. ASSUME OnlyForks', OneCsv' PROVE CollectInv'
    <3>1. UsedOnce' /\ UsedOnce /\ AncestryInv /\ AncestryInv'
      BY <2>2, UsedOnceBefore DEF OnceInv, OnlyForks
    <3>2. world' = world
      BY DEF Next, vars, kernelVars, Fork, Clone, Birth, Exit, Event, Visit, CollectStep,
             CollectRow, SelfBorrow, SetTarget, BeginCycle, EndCycle
    <3>3. OneCsv /\ OnlyForks
      BY <2>2, <3>1, <3>2, OnlyForksBefore DEF OneCsv
    <3> QED BY <2>2, <3>1, <3>3, CollectInvStep DEF CollectInv
  <2> QED BY <2>1, <2>2
<1>3. CsvInv => Named
  <2> SUFFICES ASSUME CsvInv, NEW t \in Pids,
                      OnlyForks, ~world.checkpoint, CollectRow(t), target \in up[t],
                      Cardinality(up[t]) <= MaxSteps
               PROVE  marked'[t] = target
    OBVIOUS
  <2>1. OneCsv
    BY DEF OneCsv, CollectRow
  <2> QED BY <2>1, RowNamesTarget
<1>4. Spec => []OnceInv
  BY AncestryInvariant
<1> QED BY <1>1, <1>2, <1>3, <1>4, PTL DEF Spec, CollectedUnderTarget
=============================================================================
