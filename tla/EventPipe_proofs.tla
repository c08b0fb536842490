-------------------------- MODULE EventPipe_proofs --------------------------
(***************************************************************************)
(* Proofs about EventPipe, for any number of tids, any ring size, any      *)
(* minimum of events and any bounds: type correctness, conservation of     *)
(* events, the min_events gate, that the pipe implements EventLog, and     *)
(* that a cycle classifies what it should.                                 *)
(***************************************************************************)
EXTENDS EventPipe, Integers, SequenceTheorems, TLAPS

(* b is a running total of the events of t from the statistics to the       *)
(* context, and grows along the ring.                                       *)
Runs(b, t) ==
  /\ b \in [0 .. Len(ring) -> 0 .. made[t]]
  /\ b[0] = Known(t)
  /\ \A i \in 1 .. Len(ring) : b[i] = b[i - 1] + Adds(t, i)
  /\ \A i \in 0 .. Len(ring) : b[i] <= b[Len(ring)]
  /\ b[Len(ring)] + event_cnt[t] + lost[t] = made[t]

TodoKnown == \A t \in todo : stats[t] # None

(* The main thread's life, as its setting sees it: nothing is pending before *)
(* the seed, what stopping is about to delete is in force, and the context  *)
(* that holds it is never replaced.                                         *)
OwnLife ==
  /\ phase = "seed" => update_map[Own] = None
  /\ pc[Own] # "out" => alive[Own]
  /\ pc[Own] = "delete" => ctx[Own] = Seed
  /\ ~alive[Own] => ctx[Own] = None

(* The inductive invariant *)
PipeInv ==
  /\ TypeOK
  /\ TodoKnown
  /\ OwnLife
  /\ SettingEarned
  /\ \A t \in Tids : \E b : Runs(b, t)

(* The statistics of a tid count a natural number of events. *)
LEMMA KnownType ==
  ASSUME TypeOK, NEW t \in Tids
  PROVE  Known(t) \in Nat
BY DEF TypeOK, Known, Stats

(* what an event adds to the statistics of t *)
Share(e, t) == IF e.tid = t THEN e.cnt ELSE 0

(* Appending an event of e.cnt events of e.tid, taken from the context or   *)
(* empty, keeps the running total.                                          *)
LEMMA RunsAppend ==
  ASSUME TypeOK, TypeOK', NEW t \in Tids, NEW b, Runs(b, t),
         NEW e \in Events, ring' = Append(ring, e),
         stats' = stats, made' = made,
         Share(e, t) + event_cnt'[t] + lost'[t] = event_cnt[t] + lost[t]
  PROVE  \E d : Runs(d, t)'
<1>0. PICK n \in Nat : n = Len(ring)
  BY LenProperties DEF TypeOK
<1>1. PICK k \in Nat : k = Share(e, t)
  BY DEF Events, Share
<1> DEFINE d == [i \in 0 .. n + 1 |-> IF i <= n THEN b[i] ELSE b[n] + k]
<1>2. /\ Len(ring') = n + 1
      /\ \A i \in 1 .. n : ring'[i] = ring[i]
      /\ ring'[n + 1] = e
  <2>1. ring \in Seq(Events)
    BY DEF TypeOK
  <2> QED BY <2>1, <1>0, AppendProperties
<1>3. /\ event_cnt[t] \in Nat /\ lost[t] \in Nat /\ made[t] \in Nat
      /\ event_cnt'[t] \in Nat /\ lost'[t] \in Nat
      /\ k + event_cnt'[t] + lost'[t] = event_cnt[t] + lost[t]
  BY <1>1 DEF TypeOK
<1>4. /\ \A i \in 0 .. n : b[i] \in 0 .. made[t]
      /\ b[0] = Known(t)
      /\ \A i \in 1 .. n : b[i] = b[i - 1] + Adds(t, i)
      /\ \A i \in 0 .. n : b[i] <= b[n]
      /\ b[n] + event_cnt[t] + lost[t] = made[t]
  BY <1>0 DEF Runs
<1>5. \A i \in 1 .. n : Adds(t, i)' = Adds(t, i)
  BY <1>2 DEF Adds
<1>6. Adds(t, n + 1)' = k
  BY <1>1, <1>2 DEF Adds, Share
<1>7. b[n] \in Nat /\ b[n] + k + event_cnt'[t] + lost'[t] = made[t]
  <2>1. PICK x \in Nat : x = b[n]
    BY <1>3, <1>4
  <2>2. PICK y \in Nat, z \in Nat : y = event_cnt[t] /\ z = lost[t]
    BY <1>3
  <2>3. PICK u \in Nat, v \in Nat : u = event_cnt'[t] /\ v = lost'[t]
    BY <1>3
  <2>4. x + y + z = made[t] /\ k + u + v = y + z
    BY <1>3, <1>4, <2>1, <2>2, <2>3
  <2>5. x + k + u + v = x + y + z
    BY ONLY <2>4, k \in Nat, x \in Nat, y \in Nat, z \in Nat, u \in Nat, v \in Nat
  <2> QED BY <2>1, <2>3, <2>4, <2>5
<1>8. b[n] + k \in 0 .. made[t]
  <2>1. \A x, u, v, m \in Nat : x + k + u + v = m => x + k \in 0 .. m
    OBVIOUS
  <2> QED BY <1>3, <1>7, <2>1
<1>9. /\ \A i \in 0 .. n : d[i] = b[i]
      /\ d[n + 1] = b[n] + k
      /\ d \in [0 .. n + 1 -> 0 .. made[t]]
  BY <1>4, <1>8
<1> HIDE DEF d
<1>10. \A i \in 1 .. n + 1 : d[i] = d[i - 1] + Adds(t, i)'
  <2>1. ASSUME NEW i \in 1 .. n PROVE d[i] = d[i - 1] + Adds(t, i)'
    <3>1. i \in 0 .. n /\ i - 1 \in 0 .. n
      BY <2>1
    <3>2. d[i] = b[i] /\ d[i - 1] = b[i - 1]
      BY <3>1, <1>9
    <3> QED BY <2>1, <3>2, <1>4, <1>5
  <2>2. d[n + 1] = d[n] + Adds(t, n + 1)'
    BY <1>6, <1>9
  <2>3. ASSUME NEW i \in 1 .. n + 1, i # n + 1 PROVE i \in 1 .. n
    BY <2>3
  <2> QED BY <2>1, <2>2, <2>3, SMTT(30)
<1>11. \A i \in 0 .. n + 1 : d[i] <= d[n + 1]
  <2>1. ASSUME NEW i \in 0 .. n PROVE d[i] <= d[n + 1]
    <3>1. b[i] \in 0 .. made[t] /\ b[i] <= b[n]
      BY <2>1, <1>4
    <3>2. d[i] = b[i] /\ d[n + 1] = b[n] + k
      BY <2>1, <1>9
    <3>3. b[i] \in Nat /\ b[n] \in Nat
      BY <3>1, <1>3, <1>7
    <3> QED BY <3>1, <3>2, <3>3
  <2>2. d[n + 1] \in Int
    BY <1>7, <1>9
  <2>3. ASSUME NEW i \in 0 .. n + 1, i # n + 1 PROVE i \in 0 .. n
    BY <2>3
  <2> QED BY <2>1, <2>2, <2>3
<1>12. d[n + 1] + event_cnt'[t] + lost'[t] = made'[t]
  BY <1>7, <1>9
<1>13. d[0] = Known(t)'
  BY <1>4, <1>9 DEF Known
<1> QED BY <1>2, <1>9, <1>10, <1>11, <1>12, <1>13 DEF Runs

(* Taking the head of the ring into the statistics keeps it. *)
LEMMA RunsTail ==
  ASSUME TypeOK, NEW t \in Tids, NEW b, Runs(b, t),
         ring # <<>>, ring' = Tail(ring),
         Known(t)' = Known(t) + Adds(t, 1),
         made' = made, event_cnt' = event_cnt, lost' = lost
  PROVE  /\ \E d : Runs(d, t)'
         /\ Known(t) + Adds(t, 1) + lost[t] <= made[t]
<1> DEFINE n == Len(ring)
           d == [i \in 0 .. n - 1 |-> b[i + 1]]
<1>1. /\ n \in Nat \ {0} /\ Len(ring') = n - 1
      /\ \A i \in 1 .. n - 1 : ring'[i] = ring[i + 1]
  BY HeadTailProperties, EmptySeq DEF TypeOK
<1>2. event_cnt[t] \in Nat /\ lost[t] \in Nat /\ made[t] \in Nat
  BY DEF TypeOK
<1>3. /\ \A i \in 0 .. n : b[i] \in 0 .. made[t]
      /\ b[0] = Known(t)
      /\ \A i \in 1 .. n : b[i] = b[i - 1] + Adds(t, i)
      /\ \A i \in 0 .. n : b[i] <= b[n]
      /\ b[n] + event_cnt[t] + lost[t] = made[t]
  BY DEF Runs
<1>4. \A i \in 1 .. n - 1 : Adds(t, i)' = Adds(t, i + 1)
  BY <1>1 DEF Adds
<1>5. b[1] = Known(t) + Adds(t, 1) /\ b[1] <= b[n] /\ b[1] \in Nat
  BY <1>1, <1>2, <1>3
<1>6. d \in [0 .. n - 1 -> 0 .. made[t]] /\ d[0] = Known(t)' /\ d[n - 1] = b[n]
  BY <1>1, <1>3, <1>5
<1>7. \A i \in 1 .. n - 1 : d[i] = d[i - 1] + Adds(t, i)'
  BY <1>1, <1>3, <1>4
<1>8. \A i \in 0 .. n - 1 : d[i] <= d[n - 1]
  BY <1>1, <1>3
<1>9. d[n - 1] + event_cnt'[t] + lost'[t] = made'[t]
  BY <1>3, <1>6
<1> HIDE DEF d
<1>10. \E c : Runs(c, t)'
  BY <1>1, <1>6, <1>7, <1>8, <1>9 DEF Runs
<1>11. Known(t) + Adds(t, 1) + lost[t] <= made[t]
  <2>1. b[n] \in Nat
    BY <1>1, <1>3
  <2> QED BY <1>2, <1>3, <1>5, <2>1
<1> QED BY <1>10, <1>11

(* Steps that move no events keep it. *)
LEMMA RunsSame ==
  ASSUME TypeOK, NEW t \in Tids, NEW b, Runs(b, t),
         ring' = ring, Known(t)' = Known(t),
         made' = made, event_cnt'[t] = event_cnt[t], lost' = lost
  PROVE  \E d : Runs(d, t)'
BY DEF Runs, Adds

-----------------------------------------------------------------------------
(* The steps of the inductive invariant.                                   *)

(* what the fields of an event hold *)
LEMMA EventType ==
  ASSUME NEW e \in Events
  PROVE  e.tid \in Tids /\ e.cnt \in Nat /\ (e.exit => e.cnt = 0)
<1>1. CASE e \in [tid : Tids, exit : {FALSE}, cnt : Nat]
  BY <1>1
<1>2. CASE e \in [tid : Tids, exit : {TRUE}, cnt : {0}]
  BY <1>2
<1> QED BY <1>1, <1>2 DEF Events

(* process_event keeps the statistics well typed, and adds the event. *)
LEMMA UpdatedType ==
  ASSUME NEW s \in Stats, NEW e \in Events
  PROVE  /\ Updated(s, e) \in Stats
         /\ Updated(s, e).event_count = s.event_count + e.cnt
<1>1. s.event_count + e.cnt \in Nat
  <2>1. s.event_count \in Nat
    BY DEF Stats
  <2>2. e.cnt \in Nat
    BY EventType
  <2> QED BY <2>1, <2>2
<1>2. Updated(s, e) = [s EXCEPT !.event_count = s.event_count + e.cnt, !.need_update = TRUE]
  BY DEF Updated, Stats
<1> QED BY <1>1, <1>2 DEF Stats

(* Type correctness is inductive with TodoKnown. *)
LEMMA TypeStep ==
  ASSUME TypeOK, TodoKnown, [Next]_vars
  PROVE  TypeOK' /\ TodoKnown'
<1> USE DEF kernelVars, loopVars
<1>0. /\ RingSize \in Nat /\ MaxGen \in Nat
      /\ None \notin Tids /\ None \notin Settings /\ None \notin Stats
  BY SizeAssumption, ValueAssumption
<1>raced. raced' \subseteq Tids
  BY DEF TypeOK, Next, vars, Start, Stop, Send, Lookup, Delete, ExitTask, Visit, PollControl,
         SeedOwn, BeginCycle, SkipCycle, EndCycle, ProcessEvent, PollReturns
<1>1. ASSUME NEW t \in Tids, Start(t) PROVE TypeOK' /\ TodoKnown'
  <2>1. /\ UNCHANGED <<pc, event_cnt, ring, pause, update_map, stats, loopVars, made, lost>>
        /\ alive' = [alive EXCEPT ![t] = TRUE]
        /\ gen' = [gen EXCEPT ![t] = @ + 1] /\ gen[t] < MaxGen
        /\ ctx' = [ctx EXCEPT ![t] = Default]
    BY <1>1 DEF Start
  <2>2. gen' \in [Tids -> 0 .. MaxGen]
    <3>1. gen[t] + 1 \in 0 .. MaxGen
      BY <1>0, <2>1 DEF TypeOK
    <3> QED BY <2>1, <3>1 DEF TypeOK
  <2>3. alive' \in [Tids -> BOOLEAN]
    BY <2>1 DEF TypeOK
  <2>4. ctx' \in [Tids -> Settings \cup {Seed, Default, None}]
    BY <2>1 DEF TypeOK
  <2> QED BY <1>raced, <2>1, <2>2, <2>3, <2>4 DEF TypeOK, TodoKnown
<1>2. ASSUME NEW t \in Tids, Stop(t) PROVE TypeOK' /\ TodoKnown'
  <2>1. /\ UNCHANGED <<alive, gen, ctx, ring, pause, update_map, stats, loopVars, lost>>
        /\ pc' = [pc EXCEPT ![t] = "lookup"] \/ pc' = [pc EXCEPT ![t] = "send"]
        /\ event_cnt' = event_cnt \/ event_cnt' = [event_cnt EXCEPT ![t] = @ + 1]
        /\ made' = made \/ made' = [made EXCEPT ![t] = @ + 1]
    BY <1>2 DEF Stop
  <2>2. pc' \in [Tids -> {"out", "send", "lookup", "delete"}]
    BY <2>1 DEF TypeOK
  <2>3. event_cnt' \in [Tids -> Nat]
    <3>1. event_cnt \in [Tids -> Nat] /\ event_cnt[t] + 1 \in Nat
      BY DEF TypeOK
    <3> QED BY ONLY <2>1, <3>1
  <2>4. made' \in [Tids -> Nat]
    <3>1. made \in [Tids -> Nat] /\ made[t] + 1 \in Nat
      BY DEF TypeOK
    <3> QED BY ONLY <2>1, <3>1
  <2> QED BY <1>raced, <2>1, <2>2, <2>3, <2>4 DEF TypeOK, TodoKnown
<1>3. ASSUME NEW t \in Tids, Send(t) PROVE TypeOK' /\ TodoKnown'
  <2>1. /\ UNCHANGED <<alive, gen, ctx, pause, update_map, stats, loopVars, made, lost>>
        /\ pc' = [pc EXCEPT ![t] = "lookup"]
        /\ \/ /\ Len(ring) < RingSize
              /\ ring' = Append(ring, Event(t, event_cnt[t]))
              /\ event_cnt' = [event_cnt EXCEPT ![t] = 0]
           \/ UNCHANGED <<ring, event_cnt>>
    BY <1>3 DEF Send
  <2>2. ring' \in Seq(Events) /\ Len(ring') <= RingSize
    <3>1. Event(t, event_cnt[t]) \in Events
      BY DEF Event, Events, TypeOK
    <3>2. ring \in Seq(Events) /\ Len(ring) <= RingSize
      BY DEF TypeOK
    <3>3. /\ Append(ring, Event(t, event_cnt[t])) \in Seq(Events)
          /\ Len(Append(ring, Event(t, event_cnt[t]))) = Len(ring) + 1
      BY <3>1, <3>2, AppendProperties
    <3>4. Len(ring) \in Nat
      BY <3>2, LenProperties
    <3> QED BY <1>0, <2>1, <3>2, <3>3, <3>4
  <2>3. pc' \in [Tids -> {"out", "send", "lookup", "delete"}]
    BY <2>1 DEF TypeOK
  <2>4. event_cnt' \in [Tids -> Nat]
    BY <2>1 DEF TypeOK
  <2> QED BY <1>raced, <2>1, <2>2, <2>3, <2>4 DEF TypeOK, TodoKnown
<1>4. ASSUME NEW t \in Tids, Lookup(t) PROVE TypeOK' /\ TodoKnown'
  <2>1. /\ UNCHANGED <<alive, gen, event_cnt, ring, pause, update_map, stats, loopVars, made, lost>>
        /\ pc' = [pc EXCEPT ![t] = IF update_map[t] = None THEN "out" ELSE "delete"]
        /\ ctx' = [ctx EXCEPT ![t] = IF update_map[t] = None THEN @ ELSE update_map[t]]
    BY <1>4 DEF Lookup
  <2>2. pc' \in [Tids -> {"out", "send", "lookup", "delete"}]
    BY <2>1 DEF TypeOK
  <2>3. ctx' \in [Tids -> Settings \cup {Seed, Default, None}]
    <3>1. (IF update_map[t] = None THEN ctx[t] ELSE update_map[t]) \in Settings \cup {Seed, Default, None}
      BY DEF TypeOK
    <3> QED BY <2>1, <3>1 DEF TypeOK
  <2> QED BY <1>raced, <2>1, <2>2, <2>3 DEF TypeOK, TodoKnown
<1>5. ASSUME NEW t \in Tids, Delete(t) PROVE TypeOK' /\ TodoKnown'
  <2>1. /\ UNCHANGED <<alive, gen, event_cnt, ctx, ring, pause, stats, loopVars, made, lost>>
        /\ pc' = [pc EXCEPT ![t] = "out"]
        /\ update_map' = [update_map EXCEPT ![t] = None]
    BY <1>5 DEF Delete
  <2>2. /\ pc' \in [Tids -> {"out", "send", "lookup", "delete"}]
        /\ update_map' \in [Tids -> Settings \cup {Seed, None}]
    BY <2>1 DEF TypeOK
  <2> QED BY <1>raced, <2>1, <2>2 DEF TypeOK, TodoKnown
<1>6. ASSUME NEW t \in Tids, ExitTask(t) PROVE TypeOK' /\ TodoKnown'
  <2>1. /\ UNCHANGED <<gen, pc, pause, update_map, stats, loopVars, made>>
        /\ alive' = [alive EXCEPT ![t] = FALSE]
        /\ ctx' = [ctx EXCEPT ![t] = None]
        /\ lost' = [lost EXCEPT ![t] = @ + event_cnt[t]]
        /\ event_cnt' = [event_cnt EXCEPT ![t] = 0]
        /\ ring' = IF ~pause /\ Len(ring) < RingSize THEN Append(ring, Exit(t)) ELSE ring
    BY <1>6 DEF ExitTask
  <2>2. ring' \in Seq(Events) /\ Len(ring') <= RingSize
    <3>1. Exit(t) \in Events
      BY DEF Exit, Events
    <3>2. ring \in Seq(Events) /\ Len(ring) <= RingSize
      BY DEF TypeOK
    <3>3. /\ Append(ring, Exit(t)) \in Seq(Events)
          /\ Len(Append(ring, Exit(t))) = Len(ring) + 1
      BY <3>1, <3>2, AppendProperties
    <3>4. Len(ring) \in Nat
      BY <3>2, LenProperties
    <3> QED BY <1>0, <2>1, <3>2, <3>3, <3>4
  <2>3. lost' \in [Tids -> Nat]
    <3>1. lost \in [Tids -> Nat] /\ lost[t] + event_cnt[t] \in Nat
      BY DEF TypeOK
    <3> QED BY ONLY <2>1, <3>1
  <2>4. event_cnt' \in [Tids -> Nat]
    BY <2>1 DEF TypeOK
  <2>5. alive' \in [Tids -> BOOLEAN] /\ ctx' \in [Tids -> Settings \cup {Seed, Default, None}]
    BY <2>1 DEF TypeOK
  <2> QED BY <1>raced, <2>1, <2>2, <2>3, <2>4, <2>5 DEF TypeOK, TodoKnown
<1>7. ASSUME NEW t \in Tids, Visit(t) PROVE TypeOK' /\ TodoKnown'
  <2>1. /\ UNCHANGED <<kernelVars, ring, pause, target, phase>>
        /\ t \in todo /\ todo' = todo \ {t}
        /\ \/ /\ stats' = [stats EXCEPT ![t].need_update = FALSE]
              /\ \E s \in Settings : update_map' = [update_map EXCEPT ![t] = s]
           \/ UNCHANGED <<stats, update_map>>
    BY <1>7 DEF Visit
  <2>2. stats' \in [Tids -> Stats \cup {None}] /\ \A u \in todo' : stats'[u] # None
    <3>1. /\ stats \in [Tids -> Stats \cup {None}] /\ todo \subseteq Tids
          /\ \A u \in todo : stats[u] # None
      BY DEF TypeOK, TodoKnown
    <3>2. PICK s \in Stats : s = stats[t]
      BY <2>1, <3>1
    <3>3. [s EXCEPT !.need_update = FALSE] \in Stats
      BY DEF Stats
    <3>4. stats' = stats \/ stats' = [stats EXCEPT ![t] = [s EXCEPT !.need_update = FALSE]]
      BY <2>1, <3>2
    <3>5. todo' \subseteq todo /\ t \in todo
      BY <2>1
    <3>6. CASE stats' = stats
      BY <3>1, <3>5, <3>6
    <3>7. CASE stats' = [stats EXCEPT ![t] = [s EXCEPT !.need_update = FALSE]]
      <4>1. \A u \in Tids : stats'[u] = IF u = t THEN [s EXCEPT !.need_update = FALSE]
                                                ELSE stats[u]
        BY <3>1, <3>7
      <4>2. stats' \in [Tids -> Stats \cup {None}]
        BY <3>1, <3>3, <3>7
      <4> QED BY ONLY <1>0, <3>1, <3>3, <3>5, <4>1, <4>2
    <3> QED BY <3>4, <3>6, <3>7
  <2>3. update_map' \in [Tids -> Settings \cup {Seed, None}]
    BY <2>1 DEF TypeOK
  <2>4. todo' \subseteq Tids
    BY <2>1 DEF TypeOK
  <2> QED BY <1>raced, <2>1, <2>2, <2>3, <2>4 DEF TypeOK, TodoKnown
<1>8. ASSUME NEW p \in Tids \cup {None}, PollControl(p) PROVE TypeOK' /\ TodoKnown'
  BY <1>8 DEF PollControl, TypeOK, TodoKnown
<1>9. CASE BeginCycle
  BY <1>9 DEF BeginCycle, TypeOK, TodoKnown
<1>10. CASE SkipCycle
  BY <1>10 DEF SkipCycle, TypeOK, TodoKnown
<1>11. CASE EndCycle
  BY <1>11 DEF EndCycle, TypeOK, TodoKnown
<1>12. CASE ProcessEvent
  <2>1. PICK e \in Events : e = Head(ring)
    BY <1>12, HeadTailProperties, EmptySeq DEF ProcessEvent, TypeOK
  <2>2. PICK t \in Tids : t = e.tid
    BY DEF Events
  <2>3. PICK old : old = IF stats[t] = None THEN NewStats ELSE stats[t]
    OBVIOUS
  <2>4. /\ UNCHANGED <<kernelVars, pause, update_map, phase, todo>>
        /\ ring # <<>> /\ ring' = Tail(ring)
        /\ \/ stats' = [stats EXCEPT ![t] = Updated(old, e)] /\ target' = target
           \/ /\ target' = TargetAfterExit(t)
              /\ \/ stats' = stats
                 \/ stats[t] # None /\ stats' = [stats EXCEPT ![t].exit = TRUE]
    BY <1>12, <2>1, <2>2, <2>3 DEF ProcessEvent
  <2>5. ring' \in Seq(Events) /\ Len(ring') <= RingSize
    <3>1. ring \in Seq(Events) /\ Len(ring) <= RingSize
      BY DEF TypeOK
    <3>2. Tail(ring) \in Seq(Events) /\ Len(Tail(ring)) = Len(ring) - 1
      BY <2>4, <3>1, HeadTailProperties, EmptySeq
    <3>3. Len(ring) \in Nat
      BY <3>1, LenProperties
    <3> QED BY <1>0, <2>4, <3>1, <3>2, <3>3
  <2>6. Updated(old, e) \in Stats
    <3>1. old \in Stats
      BY <2>3 DEF NewStats, Stats, TypeOK
    <3> QED BY <3>1, UpdatedType
  <2>7. stats' = stats \/ \E s \in Stats : stats' = [stats EXCEPT ![t] = s]
    <3>1. ASSUME stats[t] # None PROVE [stats[t] EXCEPT !.exit = TRUE] \in Stats
      <4>1. stats[t] \in Stats
        BY <3>1 DEF TypeOK
      <4> QED BY <4>1 DEF Stats
    <3> QED BY <2>4, <2>6, <3>1
  <2>8. stats' \in [Tids -> Stats \cup {None}] /\ \A u \in todo' : stats'[u] # None
    <3>1. /\ stats \in [Tids -> Stats \cup {None}] /\ todo \subseteq Tids
          /\ \A u \in todo : stats[u] # None
      BY DEF TypeOK, TodoKnown
    <3> QED BY <1>0, <2>4, <2>7, <3>1
  <2>9. target' \in Tids \cup {None}
    BY <2>4 DEF TypeOK, TargetAfterExit
  <2> QED BY <1>raced, <2>4, <2>5, <2>8, <2>9 DEF TypeOK, TodoKnown
<1>13. CASE PollReturns
  BY <1>13 DEF PollReturns, TypeOK, TodoKnown
<1>14. CASE SeedOwn
  <2>1. update_map' \in [Tids -> Settings \cup {Seed, None}]
    BY <1>14 DEF SeedOwn, TypeOK
  <2> QED BY <1>raced, <1>14, <2>1 DEF SeedOwn, TypeOK, TodoKnown
<1>15. CASE UNCHANGED vars
  BY <1>15 DEF vars, TypeOK, TodoKnown
<1> QED BY <1>1, <1>2, <1>3, <1>4, <1>5, <1>6, <1>7, <1>8, <1>9, <1>10, <1>11, <1>12,
           <1>13, <1>14, <1>15 DEF Next

-----------------------------------------------------------------------------
(* What each step does to the number of events known per tid.               *)

(* A cycle leaves the counts of the statistics alone. *)
LEMMA VisitKnown ==
  ASSUME TypeOK, TodoKnown, NEW t \in Tids, NEW u \in Tids, Visit(u)
  PROVE  Known(t)' = Known(t)
<1>1. PICK s \in Stats : s = stats[u] /\ s # None
  BY DEF Visit, TodoKnown, TypeOK
<1>2. stats' = stats \/ stats' = [stats EXCEPT ![u] = [s EXCEPT !.need_update = FALSE]]
  BY <1>1 DEF Visit
<1>3. [s EXCEPT !.need_update = FALSE] \in Stats
  BY DEF Stats
<1>4. [s EXCEPT !.need_update = FALSE].event_count = s.event_count
  BY DEF Stats
<1>5. stats \in [Tids -> Stats \cup {None}] /\ None \notin Stats
  BY ValueAssumption DEF TypeOK
<1> QED BY <1>1, <1>2, <1>3, <1>4, <1>5 DEF Known

(* process_event adds the event to the statistics of its tid only. *)
LEMMA ProcessKnown ==
  ASSUME TypeOK, NEW t \in Tids, ProcessEvent
  PROVE  Known(t)' = Known(t) + Adds(t, 1)
<1>1. PICK e \in Events : e = Head(ring) /\ e = ring[1]
  BY HeadTailProperties, EmptySeq DEF ProcessEvent, TypeOK
<1>2. PICK u \in Tids : u = e.tid
  BY DEF Events
<1>3. stats \in [Tids -> Stats \cup {None}] /\ None \notin Stats
  BY ValueAssumption DEF TypeOK
<1>4. CASE ~e.exit
  <2>1. PICK old \in Stats : old = IF stats[u] = None THEN NewStats ELSE stats[u]
    <3>1. NewStats \in Stats
      BY DEF NewStats, Stats
    <3> QED BY <1>3, <3>1
  <2>2. stats' = [stats EXCEPT ![u] = Updated(old, e)]
    BY <1>1, <1>2, <1>4, <2>1 DEF ProcessEvent
  <2>3. /\ Updated(old, e) \in Stats
        /\ Updated(old, e).event_count = old.event_count + e.cnt
    BY UpdatedType
  <2>4. old.event_count = Known(u)
    BY <2>1 DEF Known, NewStats
  <2>5. Known(u)' = Known(u) + e.cnt
    BY <1>3, <2>2, <2>3, <2>4 DEF Known
  <2>6. Adds(t, 1) = IF u = t THEN e.cnt ELSE 0
    BY <1>1, <1>2 DEF Adds
  <2>7. t # u => Known(t)' = Known(t)
    BY <1>3, <2>2 DEF Known
  <2> QED BY <2>5, <2>6, <2>7, KnownType
<1>5. CASE e.exit
  <2>1. Adds(t, 1) = 0
    BY <1>1, <1>5 DEF Adds, Events
  <2>2. stats' = stats \/ (stats[u] # None /\ stats' = [stats EXCEPT ![u].exit = TRUE])
    <3>1. Head(ring).exit /\ Head(ring).tid = u
      BY <1>1, <1>2, <1>5
    <3>2. stats' = IF stats[u] = None THEN stats ELSE [stats EXCEPT ![u].exit = TRUE]
      BY <3>1 DEF ProcessEvent
    <3>3. CASE stats[u] = None
      BY <3>2, <3>3
    <3>4. CASE stats[u] # None
      BY <3>2, <3>4
    <3> QED BY <3>3, <3>4
  <2>3. Known(t)' = Known(t)
    <3>1. ASSUME stats[u] # None
          PROVE  /\ [stats[u] EXCEPT !.exit = TRUE] \in Stats
                 /\ [stats[u] EXCEPT !.exit = TRUE].event_count = stats[u].event_count
      <4>1. stats[u] \in Stats
        BY <1>3, <3>1
      <4> QED BY <4>1 DEF Stats
    <3> QED BY <1>3, <2>2, <3>1 DEF Known
  <2> QED BY <2>1, <2>3, KnownType
<1> QED BY <1>4, <1>5

(* Running totals exist after every step. *)
LEMMA RunsStep ==
  ASSUME PipeInv, TypeOK', Next, NEW t \in Tids
  PROVE  \E d : Runs(d, t)'
<1> USE DEF kernelVars, loopVars
<1>1. TypeOK /\ TodoKnown
  BY DEF PipeInv
<1>2. PICK b : Runs(b, t)
  BY DEF PipeInv
<1>3. ASSUME UNCHANGED <<event_cnt, ring, stats, made, lost>> PROVE \E d : Runs(d, t)'
  BY <1>1, <1>2, <1>3, RunsSame DEF Known
<1>4. ASSUME NEW u \in Tids, Start(u) PROVE \E d : Runs(d, t)'
  BY <1>3, <1>4 DEF Start
<1>5. ASSUME NEW u \in Tids, Stop(u) PROVE \E d : Runs(d, t)'
  <2>1. UNCHANGED <<ring, stats, lost>>
    BY <1>5 DEF Stop
  <2>2. \/ event_cnt' = event_cnt /\ made' = made
        \/ event_cnt' = [event_cnt EXCEPT ![u] = @ + 1] /\ made' = [made EXCEPT ![u] = @ + 1]
    BY <1>5 DEF Stop
  <2>3. CASE event_cnt' = event_cnt /\ made' = made
    BY <1>3, <2>1, <2>3
  <2>4. CASE event_cnt' = [event_cnt EXCEPT ![u] = @ + 1] /\ made' = [made EXCEPT ![u] = @ + 1]
    <3>1. CASE t # u
      <4>1. event_cnt'[t] = event_cnt[t] /\ made'[t] = made[t]
        BY <1>1, <2>4, <3>1 DEF TypeOK
      <4> QED BY <1>2, <2>1, <4>1 DEF Runs, Known, Adds
    <3>2. CASE t = u
      <4>1. /\ event_cnt'[t] = event_cnt[t] + 1 /\ made'[t] = made[t] + 1
            /\ made[t] \in Nat /\ event_cnt[t] \in Nat /\ lost[t] \in Nat
        BY <1>1, <2>4, <3>2 DEF TypeOK
      <4>2. b \in [0 .. Len(ring) -> 0 .. made'[t]]
        BY <1>2, <4>1 DEF Runs
      <4>3. b[Len(ring)] + event_cnt'[t] + lost'[t] = made'[t]
        <5>1. Len(ring) \in Nat
          BY <1>1, LenProperties DEF TypeOK
        <5>2. b[Len(ring)] \in Nat /\ b[Len(ring)] + event_cnt[t] + lost[t] = made[t]
          BY <1>2, <4>1, <5>1 DEF Runs
        <5>3. ring' = ring /\ lost'[t] = lost[t]
          BY <2>1
        <5> QED BY ONLY <4>1, <5>2, <5>3
      <4> QED BY <1>2, <2>1, <4>2, <4>3 DEF Runs, Known, Adds
    <3> QED BY <3>1, <3>2
  <2> QED BY <2>2, <2>3, <2>4
<1>6. ASSUME NEW u \in Tids, Send(u) PROVE \E d : Runs(d, t)'
  <2>1. UNCHANGED <<stats, made, lost>>
    BY <1>6 DEF Send
  <2>2. CASE UNCHANGED <<ring, event_cnt>>
    BY <1>3, <2>1, <2>2
  <2>3. CASE ring' = Append(ring, Event(u, event_cnt[u])) /\ event_cnt' = [event_cnt EXCEPT ![u] = 0]
    <3>1. PICK k \in Nat : k = event_cnt[u]
      BY <1>1 DEF TypeOK
    <3>2. Event(u, k) \in Events
      BY DEF Event, Events
    <3>3. Share(Event(u, k), t) + event_cnt'[t] + lost'[t] = event_cnt[t] + lost[t]
      <4>1. event_cnt[t] \in Nat /\ lost[t] \in Nat
        BY <1>1 DEF TypeOK
      <4>2. CASE t = u
        <5>1. event_cnt'[t] = 0 /\ Share(Event(u, k), t) = event_cnt[t]
          BY <1>1, <2>3, <3>1, <4>2 DEF Share, Event, TypeOK
        <5> QED BY <2>1, <4>1, <5>1
      <4>3. CASE t # u
        <5>1. event_cnt'[t] = event_cnt[t] /\ Share(Event(u, k), t) = 0
          BY <1>1, <2>3, <3>1, <4>3 DEF Share, Event, TypeOK
        <5> QED BY <2>1, <4>1, <5>1
      <4> QED BY <4>2, <4>3
    <3> QED BY <1>1, <1>2, <2>1, <2>3, <3>1, <3>2, <3>3, RunsAppend
  <2> QED BY <1>6, <2>2, <2>3 DEF Send
<1>7. ASSUME NEW u \in Tids, Lookup(u) PROVE \E d : Runs(d, t)'
  BY <1>3, <1>7 DEF Lookup
<1>8. ASSUME NEW u \in Tids, Delete(u) PROVE \E d : Runs(d, t)'
  BY <1>3, <1>8 DEF Delete
<1>9. ASSUME NEW u \in Tids, ExitTask(u) PROVE \E d : Runs(d, t)'
  <2>1. /\ UNCHANGED <<stats, made>>
        /\ lost' = [lost EXCEPT ![u] = @ + event_cnt[u]]
        /\ event_cnt' = [event_cnt EXCEPT ![u] = 0]
        /\ ring' = Append(ring, Exit(u)) \/ ring' = ring
    BY <1>9 DEF ExitTask
  <2>2. /\ event_cnt[t] \in Nat /\ lost[t] \in Nat /\ made[t] \in Nat
        /\ event_cnt'[t] + lost'[t] = event_cnt[t] + lost[t]
        /\ event_cnt'[t] \in Nat /\ lost'[t] \in Nat
    BY <1>1, <2>1 DEF TypeOK
  <2>3. CASE ring' = Append(ring, Exit(u))
    <3>1. Exit(u) \in Events /\ Share(Exit(u), t) = 0
      BY DEF Exit, Events, Share
    <3>2. Share(Exit(u), t) + event_cnt'[t] + lost'[t] = event_cnt[t] + lost[t]
      BY <2>2, <3>1
    <3> QED BY <1>1, <1>2, <2>1, <2>3, <3>1, <3>2, RunsAppend
  <2>4. CASE ring' = ring
    <3>1. b[Len(ring)] \in Nat
      <4>1. Len(ring) \in Nat
        BY <1>1, LenProperties DEF TypeOK
      <4> QED BY <1>2, <2>2, <4>1 DEF Runs
    <3>2. b[Len(ring)] + event_cnt'[t] + lost'[t] = made[t]
      BY <1>2, <2>2, <3>1 DEF Runs
    <3> QED BY <1>2, <2>1, <2>4, <3>2 DEF Runs, Known, Adds
  <2> QED BY <2>1, <2>3, <2>4
<1>10. ASSUME NEW u \in Tids, Visit(u) PROVE \E d : Runs(d, t)'
  BY <1>1, <1>2, <1>10, VisitKnown, RunsSame DEF Visit
<1>11. ASSUME NEW p \in Tids \cup {None}, PollControl(p) PROVE \E d : Runs(d, t)'
  BY <1>3, <1>11 DEF PollControl
<1>12. CASE SeedOwn \/ BeginCycle \/ SkipCycle \/ EndCycle \/ PollReturns
  BY <1>3, <1>12 DEF SeedOwn, BeginCycle, SkipCycle, EndCycle, PollReturns
<1>13. CASE ProcessEvent
  <2>1. Known(t)' = Known(t) + Adds(t, 1)
    BY <1>1, <1>13, ProcessKnown
  <2>2. ring # <<>> /\ ring' = Tail(ring) /\ UNCHANGED <<made, event_cnt, lost>>
    BY <1>13 DEF ProcessEvent
  <2> QED BY <1>1, <1>2, <2>1, <2>2, RunsTail
<1> QED BY <1>4, <1>5, <1>6, <1>7, <1>8, <1>9, <1>10, <1>11, <1>12, <1>13 DEF Next

(* The main thread keeps its seed: only its own stopping takes the entry,   *)
(* once copied, and no cycle writes another.                                *)
LEMMA OwnStep ==
  ASSUME TypeOK, OwnLife, OwnKeepsSeed, Next
  PROVE  OwnLife' /\ OwnKeepsSeed'
<1> USE ValueAssumption DEF kernelVars, loopVars, OwnLife, OwnKeepsSeed
<1>1. ASSUME UNCHANGED <<alive, pc, ctx, update_map, phase>> PROVE OwnLife' /\ OwnKeepsSeed'
  BY <1>1
<1>2. ASSUME alive'[Own] = alive[Own], pc'[Own] = pc[Own], ctx'[Own] = ctx[Own],
             update_map'[Own] = update_map[Own], phase' = phase
      PROVE  OwnLife' /\ OwnKeepsSeed'
  BY <1>2
<1>3. ASSUME NEW u \in Tids \ {Own},
             \/ Start(u) \/ Stop(u) \/ Send(u) \/ Lookup(u) \/ Delete(u)
             \/ ExitTask(u) \/ Visit(u)
      PROVE  OwnLife' /\ OwnKeepsSeed'
  <2>1. /\ phase' = phase
        /\ alive'[Own] = alive[Own] /\ pc'[Own] = pc[Own] /\ ctx'[Own] = ctx[Own]
    BY <1>3 DEF Start, Stop, Send, Lookup, Delete, ExitTask, Visit, TypeOK
  <2>2. update_map'[Own] = update_map[Own]
    BY <1>3 DEF Start, Stop, Send, Lookup, Delete, ExitTask, Visit, TypeOK
  <2> QED BY <1>2, <2>1, <2>2
<1>4. CASE Start(Own)
  <2>1. /\ ~alive[Own] /\ alive'[Own] /\ ctx'[Own] = Default
        /\ UNCHANGED <<pc, update_map, phase>>
    BY <1>4 DEF Start, TypeOK
  <2> QED BY <2>1
<1>5. CASE Stop(Own) \/ Send(Own)
  <2>1. /\ pc'[Own] \in {"send", "lookup"} /\ (pc[Own] = "send" \/ alive[Own])
        /\ UNCHANGED <<alive, ctx, update_map, phase>>
    BY <1>5 DEF Stop, Send, TypeOK
  <2> QED BY <2>1
<1>6. CASE Lookup(Own)
  <2>1. /\ pc[Own] = "lookup" /\ UNCHANGED <<alive, update_map, phase>>
        /\ pc'[Own] = IF update_map[Own] = None THEN "out" ELSE "delete"
        /\ ctx'[Own] = IF update_map[Own] = None THEN ctx[Own] ELSE update_map[Own]
    BY <1>6 DEF Lookup, TypeOK
  <2> QED BY <2>1
<1>7. CASE Delete(Own)
  <2>1. /\ pc[Own] = "delete" /\ UNCHANGED <<alive, ctx, phase>>
        /\ pc'[Own] = "out" /\ update_map'[Own] = None
    BY <1>7 DEF Delete, TypeOK
  <2> QED BY <2>1
<1>8. CASE Visit(Own)
  BY <1>1, <1>8 DEF Visit
<1>9. CASE SeedOwn
  <2>1. /\ phase' = "top" /\ UNCHANGED <<alive, pc, ctx>> /\ update_map'[Own] = Seed
    BY <1>9 DEF SeedOwn, TypeOK
  <2> QED BY <2>1
<1>10. ASSUME NEW p \in Tids \cup {None}, PollControl(p) PROVE OwnLife' /\ OwnKeepsSeed'
  BY <1>1, <1>10 DEF PollControl
<1>11. CASE BeginCycle \/ SkipCycle \/ EndCycle \/ ProcessEvent \/ PollReturns
  <2>1. /\ UNCHANGED <<alive, pc, ctx, update_map>>
        /\ phase # "seed" /\ phase' # "seed"
    BY <1>11 DEF BeginCycle, SkipCycle, EndCycle, ProcessEvent, PollReturns
  <2> QED BY <2>1
<1>12. ~ExitTask(Own)
  BY DEF ExitTask
<1> QED BY <1>3, <1>4, <1>5, <1>6, <1>7, <1>8, <1>9, <1>10, <1>11, <1>12 DEF Next

(* A setting is only ever given after MinEvents events, and no step takes   *)
(* events back.                                                             *)
LEMMA EarnedStep ==
  ASSUME PipeInv, Next
  PROVE  SettingEarned'
<1> USE DEF kernelVars, loopVars
<1>1. TypeOK /\ TodoKnown /\ SettingEarned
  BY DEF PipeInv
<1>own. OwnKeepsSeed'
  BY OwnStep DEF PipeInv, SettingEarned
<1> SUFFICES ASSUME NEW t \in Tids \ {Own},
                    update_map'[t] # None \/ ctx'[t] \notin {Default, None}
             PROVE  Known(t)' >= MinEvents
  BY <1>own DEF SettingEarned
<1>2. ASSUME UNCHANGED <<ctx, update_map, stats>> PROVE Known(t)' >= MinEvents
  BY <1>1, <1>2 DEF SettingEarned, Known
<1>3. ASSUME stats' = stats, update_map[t] # None \/ ctx[t] \notin {Default, None}
      PROVE  Known(t)' >= MinEvents
  BY <1>1, <1>3 DEF SettingEarned, Known
<1>4. ASSUME NEW u \in Tids, Start(u) PROVE Known(t)' >= MinEvents
  BY <1>1, <1>3, <1>4 DEF Start, TypeOK
<1>5. ASSUME NEW u \in Tids, Stop(u) PROVE Known(t)' >= MinEvents
  BY <1>2, <1>5 DEF Stop
<1>6. ASSUME NEW u \in Tids, Send(u) PROVE Known(t)' >= MinEvents
  BY <1>2, <1>6 DEF Send
<1>7. ASSUME NEW u \in Tids, Lookup(u) PROVE Known(t)' >= MinEvents
  BY <1>1, <1>3, <1>7 DEF Lookup, TypeOK
<1>8. ASSUME NEW u \in Tids, Delete(u) PROVE Known(t)' >= MinEvents
  BY <1>1, <1>3, <1>8 DEF Delete, TypeOK
<1>9. ASSUME NEW u \in Tids, ExitTask(u) PROVE Known(t)' >= MinEvents
  BY <1>1, <1>3, <1>9 DEF ExitTask, TypeOK
<1>10. ASSUME NEW u \in Tids, Visit(u) PROVE Known(t)' >= MinEvents
  <2>1. Known(t)' = Known(t)
    BY <1>1, <1>10, VisitKnown
  <2>2. CASE update_map'[t] = update_map[t]
    BY <1>1, <1>10, <2>1, <2>2 DEF SettingEarned, Visit
  <2>3. CASE update_map'[t] # update_map[t]
    <3>1. t = u /\ Eligible(stats[t])
      BY <1>1, <1>10, <2>3 DEF Visit, TypeOK
    <3>2. stats[t] # None
      BY <1>1, <1>10, <3>1 DEF Visit, TodoKnown
    <3> QED BY <2>1, <3>1, <3>2 DEF Known, Eligible
  <2> QED BY <2>2, <2>3
<1>11. ASSUME NEW p \in Tids \cup {None}, PollControl(p) PROVE Known(t)' >= MinEvents
  BY <1>2, <1>11 DEF PollControl
<1>12. CASE SeedOwn
  <2>1. UNCHANGED <<ctx, stats>> /\ update_map'[t] = update_map[t]
    BY <1>1, <1>12 DEF SeedOwn, TypeOK
  <2> QED BY <1>3, <2>1
<1>13. CASE BeginCycle \/ SkipCycle \/ EndCycle \/ PollReturns
  BY <1>2, <1>13 DEF BeginCycle, SkipCycle, EndCycle, PollReturns
<1>14. CASE ProcessEvent
  <2>1. Known(t)' = Known(t) + Adds(t, 1)
    BY <1>1, <1>14, ProcessKnown
  <2>2. Known(t) >= MinEvents
    BY <1>1, <1>14 DEF ProcessEvent, SettingEarned
  <2>3. PICK e \in Events : e = ring[1]
    BY <1>1, <1>14, HeadTailProperties, EmptySeq DEF ProcessEvent, TypeOK
  <2>4. Adds(t, 1) \in Nat
    <3>1. e.cnt \in Nat
      BY EventType
    <3> QED BY <2>3, <3>1 DEF Adds
  <2>5. Known(t) \in Nat /\ MinEvents \in Nat
    BY <1>1, KnownType, SizeAssumption
  <2> QED BY <2>1, <2>2, <2>4, <2>5
<1> QED BY <1>4, <1>5, <1>6, <1>7, <1>8, <1>9, <1>10, <1>11, <1>12, <1>13, <1>14 DEF Next

(* The inductive invariant holds of every behaviour. *)
THEOREM PipeInvariant == Spec => []PipeInv
<1>1. Init => PipeInv
  <2> SUFFICES ASSUME Init PROVE PipeInv
    OBVIOUS
  <2>1. ring = <<>> /\ Len(ring) = 0 /\ ring \in Seq(Events)
    BY EmptySeq DEF Init
  <2>2. TypeOK
    <3>1. RingSize \in Nat /\ MaxGen \in Nat
      BY SizeAssumption
    <3>2. gen \in [Tids -> 0 .. MaxGen]
      BY <3>1 DEF Init
    <3>3. Len(ring) <= RingSize
      BY <2>1, <3>1
    <3>4. /\ event_cnt \in [Tids -> Nat] /\ made \in [Tids -> Nat] /\ lost \in [Tids -> Nat]
          /\ alive \in [Tids -> BOOLEAN] /\ todo \subseteq Tids
          /\ pc \in [Tids -> {"out", "send", "lookup", "delete"}]
          /\ ctx \in [Tids -> Settings \cup {Seed, Default, None}]
      BY DEF Init
    <3>5. /\ update_map \in [Tids -> Settings \cup {Seed, None}]
          /\ stats \in [Tids -> Stats \cup {None}]
      BY DEF Init
    <3>6. pause \in BOOLEAN /\ target \in Tids \cup {None}
          /\ phase \in {"seed", "top", "cycle", "poll"} /\ (pause <=> phase = "cycle")
          /\ raced \subseteq Tids
      BY DEF Init
    <3> QED BY <2>1, <3>2, <3>3, <3>4, <3>5, <3>6 DEF TypeOK
  <2>3. TodoKnown
    BY DEF Init, TodoKnown
  <2>4. SettingEarned
    BY ValueAssumption DEF Init, SettingEarned, OwnKeepsSeed
  <2>6. OwnLife
    BY ValueAssumption DEF Init, OwnLife
  <2>5. ASSUME NEW t \in Tids PROVE \E b : Runs(b, t)
    <3>1. /\ Known(t) = 0 /\ made[t] = 0 /\ event_cnt[t] = 0 /\ lost[t] = 0
      BY <2>5 DEF Init, Known
    <3>2. Runs([i \in 0 .. 0 |-> 0], t)
      BY <2>1, <3>1 DEF Runs
    <3> QED BY <3>2
  <2> QED BY <2>2, <2>3, <2>4, <2>5, <2>6 DEF PipeInv
<1>2. PipeInv /\ [Next]_vars => PipeInv'
  <2> SUFFICES ASSUME PipeInv, [Next]_vars PROVE PipeInv'
    OBVIOUS
  <2>1. TypeOK' /\ TodoKnown'
    BY TypeStep DEF PipeInv
  <2>2. CASE Next
    <3>1. OwnLife'
      BY <2>2, OwnStep DEF PipeInv, SettingEarned
    <3> QED BY <2>1, <2>2, <3>1, RunsStep, EarnedStep DEF PipeInv
  <2>3. CASE UNCHANGED vars
    <3>1. SettingEarned' /\ OwnLife'
      BY <2>3 DEF PipeInv, SettingEarned, OwnKeepsSeed, OwnLife, Known, vars
    <3>2. \A t \in Tids : \E b : Runs(b, t)'
      BY <2>3 DEF PipeInv, Runs, Known, Adds, vars
    <3> QED BY <2>1, <3>1, <3>2 DEF PipeInv
  <2> QED BY <2>2, <2>3
<1> QED BY <1>1, <1>2, PTL DEF Spec

(* Every variable keeps its type; the ring never holds more than RingSize   *)
(* events, and the pause flag is set exactly while a cycle runs.            *)
THEOREM PipeTypeCorrect == Spec => []TypeOK
<1>1. PipeInv => TypeOK
  BY DEF PipeInv
<1> QED BY <1>1, PipeInvariant, PTL

(* Pauses, the send interval, full rings and exits neither lose nor         *)
(* duplicate the events of a living task.                                   *)
THEOREM EventsAreConserved == Spec => []EventsConserved
<1>1. PipeInv => EventsConserved
  BY DEF PipeInv, EventsConserved, Runs
<1> QED BY <1>1, PipeInvariant, PTL

(* The main thread keeps the seed it is given; no other tid has a setting   *)
(* before MinEvents of its events are known.                                *)
THEOREM SettingsAreEarned == Spec => []SettingEarned
<1>1. PipeInv => SettingEarned
  BY DEF PipeInv
<1> QED BY <1>1, PipeInvariant, PTL

(* What is known, lost and still in the context of a tid was made.          *)
LEMMA KnownBound ==
  ASSUME PipeInv, NEW t \in Tids
  PROVE  /\ Known(t) \in Nat /\ lost[t] \in Nat /\ made[t] \in Nat /\ event_cnt[t] \in Nat
         /\ Known(t) + event_cnt[t] + lost[t] <= made[t]
<1>1. TypeOK
  BY DEF PipeInv
<1>2. PICK b : Runs(b, t)
  BY DEF PipeInv
<1>3. PICK n \in Nat : n = Len(ring)
  BY <1>1, LenProperties DEF TypeOK
<1>4. lost[t] \in Nat /\ made[t] \in Nat /\ event_cnt[t] \in Nat /\ Known(t) \in Nat
  BY <1>1, KnownType DEF TypeOK
<1>5. /\ b[n] \in 0 .. made[t] /\ Known(t) <= b[n]
      /\ b[n] + event_cnt[t] + lost[t] = made[t]
  BY <1>2, <1>3 DEF Runs
<1> QED BY <1>4, <1>5

(* Each step of the pipe is a step of the event log or leaves it alone:     *)
(* stopping makes events, process_event sees those of the head of the ring, *)
(* an exit loses those still in the context.                                *)
LEMMA LogStep ==
  ASSUME PipeInv, [Next]_vars
  PROVE  [Log!Next]_(Log!logVars)
<1> DEFINE known == [t \in Tids |-> Known(t)]
<1> USE DEF kernelVars, loopVars
<1>1. TypeOK /\ TodoKnown
  BY DEF PipeInv
<1>2. ASSUME UNCHANGED <<made, lost>>, \A t \in Tids : Known(t)' = Known(t)
      PROVE  UNCHANGED Log!logVars
  <2>1. known' = known
    BY <1>2
  <2> QED BY <1>2, <2>1 DEF Log!logVars
<1>3. ASSUME UNCHANGED <<made, lost, stats>> PROVE UNCHANGED Log!logVars
  BY <1>2, <1>3 DEF Known
<1>4. ASSUME NEW u \in Tids,
             \/ Start(u) \/ Send(u) \/ Lookup(u) \/ Delete(u)
      PROVE  UNCHANGED Log!logVars
  BY <1>3, <1>4 DEF Start, Send, Lookup, Delete
<1>5. ASSUME NEW u \in Tids, Stop(u) PROVE [Log!Next]_(Log!logVars)
  <2>1. /\ UNCHANGED <<stats, lost>>
        /\ made' = made \/ made' = [made EXCEPT ![u] = @ + 1]
    BY <1>5 DEF Stop
  <2>2. CASE made' = made
    BY <1>3, <2>1, <2>2
  <2>3. CASE made' = [made EXCEPT ![u] = @ + 1]
    <3>1. known' = known
      BY <2>1 DEF Known
    <3>2. Log!Make(u)
      BY <2>1, <2>3, <3>1 DEF Log!Make
    <3> QED BY <3>2 DEF Log!Next
  <2> QED BY <2>1, <2>2, <2>3
<1>6. ASSUME NEW u \in Tids, ExitTask(u) PROVE Log!Next
  <2>1. /\ UNCHANGED <<stats, made>>
        /\ lost' = [lost EXCEPT ![u] = @ + event_cnt[u]]
    BY <1>6 DEF ExitTask
  <2>2. known' = known
    BY <2>1 DEF Known
  <2>3. /\ Known(u) \in Nat /\ lost[u] \in Nat /\ made[u] \in Nat /\ event_cnt[u] \in Nat
        /\ Known(u) + event_cnt[u] + lost[u] <= made[u]
    BY KnownBound
  <2>4. Log!UnderWay(u) = made[u] - (Known(u) + lost[u])
    BY DEF Log!UnderWay
  <2>5. event_cnt[u] <= Log!UnderWay(u) /\ event_cnt[u] \in 0 .. Log!UnderWay(u)
    BY <2>3, <2>4
  <2>6. Log!Lose(u, event_cnt[u])
    BY <2>1, <2>2, <2>5 DEF Log!Lose
  <2> QED BY <2>5, <2>6 DEF Log!Next
<1>7. ASSUME NEW u \in Tids, Visit(u) PROVE UNCHANGED Log!logVars
  <2>1. UNCHANGED <<made, lost>>
    BY <1>7 DEF Visit
  <2> QED BY <1>1, <1>2, <1>7, <2>1, VisitKnown
<1>8. ASSUME NEW p \in Tids \cup {None}, PollControl(p) PROVE UNCHANGED Log!logVars
  BY <1>3, <1>8 DEF PollControl
<1>9. CASE SeedOwn \/ BeginCycle \/ SkipCycle \/ EndCycle \/ PollReturns
  BY <1>3, <1>9 DEF SeedOwn, BeginCycle, SkipCycle, EndCycle, PollReturns
<1>10. CASE ProcessEvent
  <2>1. PICK e \in Events : e = ring[1]
    BY <1>1, <1>10, HeadTailProperties, EmptySeq DEF ProcessEvent, TypeOK
  <2>2. PICK u \in Tids, k \in Nat : u = e.tid /\ k = e.cnt
    BY EventType
  <2>3. \A t \in Tids : Known(t)' = Known(t) + Adds(t, 1)
    BY <1>1, <1>10, ProcessKnown
  <2>4. \A t \in Tids : Adds(t, 1) = IF t = u THEN k ELSE 0
    BY <2>1, <2>2 DEF Adds
  <2>5. ring # <<>> /\ ring' = Tail(ring) /\ UNCHANGED <<made, event_cnt, lost>>
    BY <1>10 DEF ProcessEvent
  <2>6. \A t \in Tids : Known(t) \in Nat
    BY <1>1, KnownType
  <2>7. known' = [known EXCEPT ![u] = @ + k]
    <3>1. \A t \in Tids : Known(t)' = IF t = u THEN Known(t) + k ELSE Known(t)
      BY <2>3, <2>4, <2>6
    <3> QED BY <3>1
  <2>8. Known(u) + k + lost[u] <= made[u]
    <3>1. PICK b : Runs(b, u)
      BY DEF PipeInv
    <3>2. Known(u) + Adds(u, 1) + lost[u] <= made[u]
      BY <1>1, <2>3, <2>5, <3>1, RunsTail
    <3> QED BY <2>4, <3>2
  <2>9. k <= Log!UnderWay(u) /\ k \in 0 .. Log!UnderWay(u)
    <3>1. Log!UnderWay(u) = made[u] - (Known(u) + lost[u])
      BY DEF Log!UnderWay
    <3>2. Known(u) \in Nat /\ lost[u] \in Nat /\ made[u] \in Nat
      BY KnownBound
    <3> QED BY <2>8, <3>1, <3>2
  <2>10. Log!See(u, k)
    BY <2>5, <2>7, <2>9 DEF Log!See
  <2> QED BY <2>9, <2>10 DEF Log!Next
<1>11. CASE UNCHANGED vars
  BY <1>3, <1>11 DEF vars
<1> QED BY <1>4, <1>5, <1>6, <1>7, <1>8, <1>9, <1>10, <1>11 DEF Next

(* The pipe implements the event log, whatever the ring size, the pauses    *)
(* and the order of stops, exits, cycles and polls.                         *)
THEOREM PipeImplementsLog == Spec => ImplementsLog
<1>1. Init => Log!Init
  <2> SUFFICES ASSUME Init PROVE Log!Init
    OBVIOUS
  <2>1. [t \in Tids |-> Known(t)] = [t \in Tids |-> 0]
    BY DEF Init, Known
  <2> QED BY <2>1 DEF Init, Log!Init
<1>2. PipeInv /\ [Next]_vars => [Log!Next]_(Log!logVars)
  BY LogStep
<1> QED BY <1>1, <1>2, PipeInvariant, PTL DEF Spec, ImplementsLog, Log!Spec

-----------------------------------------------------------------------------
(* Every cycle classifies what it should.                                  *)

(* no exit of t is in the ring, and none has been processed *)
ExitFree(t) ==
  /\ \A i \in 1 .. Len(ring) : ring[i].tid = t => ~ring[i].exit
  /\ stats[t] # None => ~stats[t].exit

(* the first task with a tid has not exited, and its tid was counted *)
FirstLife(t) ==
  /\ alive[t] => gen[t] # 0
  /\ gen[t] = 0 \/ (gen[t] = 1 /\ alive[t]) => ExitFree(t)
FirstLives == \A t \in Tids : FirstLife(t)

(* what the cycle has visited has nothing left to classify *)
Visited ==
  phase = "cycle" =>
    \A t \in Tids \ todo : t # Own /\ stats[t] # None => ~Eligible(stats[t])

CycleInv == PipeInv /\ FirstLives /\ Visited

(* Steps that leave the ring and the statistics alone keep a tid exit-free. *)
LEMMA ExitFreeSame ==
  ASSUME NEW t \in Tids, ExitFree(t), UNCHANGED <<ring, stats>>
  PROVE  ExitFree(t)'
BY DEF ExitFree

(* So does an event appended to the ring, if it is not an exit of t. *)
LEMMA ExitFreeAppend ==
  ASSUME TypeOK, NEW t \in Tids, ExitFree(t), stats' = stats,
         NEW e \in Events, ring' = Append(ring, e), e.tid = t => ~e.exit
  PROVE  ExitFree(t)'
<1>1. PICK n \in Nat : n = Len(ring)
  BY LenProperties DEF TypeOK
<1>2. /\ Len(ring') = n + 1
      /\ \A i \in 1 .. n : ring'[i] = ring[i]
      /\ ring'[n + 1] = e
  <2>1. ring \in Seq(Events)
    BY DEF TypeOK
  <2> QED BY <2>1, <1>1, AppendProperties
<1>3. ASSUME NEW i \in 1 .. n + 1, ring'[i].tid = t PROVE ~ring'[i].exit
  <2>1. CASE i = n + 1
    BY <1>2, <1>3, <2>1
  <2>2. CASE i # n + 1
    <3>1. i \in 1 .. n
      BY <2>2
    <3> QED BY <1>1, <1>2, <1>3, <3>1 DEF ExitFree
  <2> QED BY <2>1, <2>2
<1> QED BY <1>2, <1>3 DEF ExitFree

(* process_event marks as exited only the tid of an exit event. *)
LEMMA ExitFreeProcess ==
  ASSUME TypeOK, NEW t \in Tids, ExitFree(t), ProcessEvent
  PROVE  ExitFree(t)'
<1>1. PICK e \in Events : e = Head(ring) /\ e = ring[1]
  BY HeadTailProperties, EmptySeq DEF ProcessEvent, TypeOK
<1> DEFINE n == Len(ring)
<1>2. /\ n \in Nat \ {0} /\ Len(ring') = n - 1
      /\ \A i \in 1 .. n - 1 : ring'[i] = ring[i + 1]
  BY HeadTailProperties, EmptySeq DEF ProcessEvent, TypeOK
<1>3. ASSUME NEW i \in 1 .. n - 1, ring'[i].tid = t PROVE ~ring'[i].exit
  <2>1. i + 1 \in 1 .. n /\ ring'[i] = ring[i + 1]
    BY <1>2
  <2> QED BY <1>2, <1>3, <2>1 DEF ExitFree
<1>4. e.tid = t => ~e.exit
  <2>1. 1 \in 1 .. n
    BY <1>2
  <2> QED BY <1>1, <1>2, <2>1 DEF ExitFree
<1>5. ASSUME stats'[t] # None PROVE ~stats'[t].exit
  <2> DEFINE u == e.tid
             old == IF stats[u] = None THEN NewStats ELSE stats[u]
  <2>1. u \in Tids /\ stats \in [Tids -> Stats \cup {None}]
    BY EventType DEF TypeOK
  <2>2. CASE u # t
    BY <1>1, <1>5, <2>1, <2>2 DEF ProcessEvent, ExitFree
  <2>3. CASE u = t
    <3>1. stats' = [stats EXCEPT ![t] = Updated(old, e)]
      BY <1>1, <1>4, <2>3 DEF ProcessEvent
    <3>2. old \in Stats /\ ~old.exit
      BY <2>1, <2>3 DEF ExitFree, NewStats, Stats
    <3> HIDE DEF old
    <3>3. Updated(old, e).exit = old.exit
      BY <3>2 DEF Updated, Stats
    <3> QED BY <2>1, <3>1, <3>2, <3>3
  <2> QED BY <2>2, <2>3
<1> QED BY <1>2, <1>3, <1>5 DEF ExitFree

(* Only an exit makes the first task with a tid exit. *)
LEMMA FirstLivesStep ==
  ASSUME TypeOK, TodoKnown, FirstLives, Next
  PROVE  FirstLives'
<1> USE DEF kernelVars, loopVars
<1> SUFFICES ASSUME NEW t \in Tids PROVE FirstLife(t)'
  BY DEF FirstLives
<1>1. FirstLife(t)
  BY DEF FirstLives
<1>2. ASSUME UNCHANGED <<alive, gen>>, ExitFree(t) => ExitFree(t)' PROVE FirstLife(t)'
  BY <1>1, <1>2 DEF FirstLife
<1>3. ASSUME UNCHANGED <<alive, gen, ring, stats>> PROVE FirstLife(t)'
  BY <1>2, <1>3, ExitFreeSame
<1>4. ASSUME NEW u \in Tids, Start(u) PROVE FirstLife(t)'
  <2>1. /\ UNCHANGED <<ring, stats>>
        /\ ExitFree(t) => ExitFree(t)'
        /\ alive' = [alive EXCEPT ![u] = TRUE]
        /\ gen' = [gen EXCEPT ![u] = @ + 1]
    BY <1>4, ExitFreeSame DEF Start
  <2>2. CASE t # u
    <3>1. alive'[t] = alive[t] /\ gen'[t] = gen[t]
      BY <2>1, <2>2 DEF TypeOK
    <3> QED BY <1>1, <2>1, <3>1 DEF FirstLife
  <2>3. CASE t = u
    <3>1. gen'[t] = gen[t] + 1 /\ gen[t] \in Nat
      BY <2>1, <2>3, SizeAssumption DEF TypeOK
    <3>2. gen'[t] # 0 /\ (gen'[t] = 1 => gen[t] = 0)
      BY <3>1
    <3> QED BY <1>1, <2>1, <3>2 DEF FirstLife
  <2> QED BY <2>2, <2>3
<1>5. ASSUME NEW u \in Tids, Stop(u) PROVE FirstLife(t)'
  BY <1>3, <1>5 DEF Stop
<1>6. ASSUME NEW u \in Tids, Send(u) PROVE FirstLife(t)'
  <2>1. UNCHANGED <<alive, gen, stats>>
    BY <1>6 DEF Send
  <2>2. CASE ring' = ring
    BY <1>3, <2>1, <2>2
  <2>3. CASE ring' = Append(ring, Event(u, event_cnt[u]))
    <3>1. Event(u, event_cnt[u]) \in Events /\ ~Event(u, event_cnt[u]).exit
      BY DEF Event, Events, TypeOK
    <3> QED BY <1>2, <2>1, <2>3, <3>1, ExitFreeAppend
  <2> QED BY <1>6, <2>2, <2>3 DEF Send
<1>7. ASSUME NEW u \in Tids, Lookup(u) \/ Delete(u) PROVE FirstLife(t)'
  BY <1>3, <1>7 DEF Lookup, Delete
<1>8. ASSUME NEW u \in Tids, ExitTask(u) PROVE FirstLife(t)'
  <2>1. /\ UNCHANGED <<gen, stats>> /\ alive[u]
        /\ alive' = [alive EXCEPT ![u] = FALSE]
        /\ ring' = Append(ring, Exit(u)) \/ ring' = ring
    BY <1>8 DEF ExitTask
  <2>2. CASE t = u
    <3>1. ~alive'[t] /\ gen'[t] = gen[t] /\ gen[t] # 0
      BY <1>1, <2>1, <2>2 DEF FirstLife, TypeOK
    <3> QED BY <3>1 DEF FirstLife
  <2>3. CASE t # u
    <3>1. alive'[t] = alive[t] /\ gen'[t] = gen[t]
      BY <2>1, <2>3 DEF TypeOK
    <3>2. Exit(u) \in Events /\ Exit(u).tid # t
      BY <2>3 DEF Exit, Events
    <3>3. ExitFree(t) => ExitFree(t)'
      BY <2>1, <3>2, ExitFreeAppend, ExitFreeSame
    <3> QED BY <1>1, <3>1, <3>3 DEF FirstLife
  <2> QED BY <2>2, <2>3
<1>9. ASSUME NEW u \in Tids, Visit(u) PROVE FirstLife(t)'
  <2>1. /\ UNCHANGED <<alive, gen, ring>> /\ u \in todo
        /\ stats' = [stats EXCEPT ![u].need_update = FALSE] \/ stats' = stats
    BY <1>9 DEF Visit
  <2>2. CASE stats' = stats
    BY <1>3, <2>1, <2>2
  <2>3. CASE stats' = [stats EXCEPT ![u].need_update = FALSE]
    <3>1. PICK s \in Stats : s = stats[u]
      BY <2>1 DEF TodoKnown, TypeOK
    <3>2. stats' = [stats EXCEPT ![u] = [s EXCEPT !.need_update = FALSE]]
      BY <2>3, <3>1
    <3>3. [s EXCEPT !.need_update = FALSE].exit = s.exit /\ s # None
      BY ValueAssumption DEF Stats
    <3>4. ASSUME stats[t] # None => ~stats[t].exit, stats'[t] # None
          PROVE  ~stats'[t].exit
      <4>1. stats'[t] = IF t = u THEN [s EXCEPT !.need_update = FALSE] ELSE stats[t]
        BY <3>2 DEF TypeOK
      <4> QED BY <3>1, <3>3, <3>4, <4>1
    <3>5. ExitFree(t) => ExitFree(t)'
      BY <2>1, <3>4 DEF ExitFree
    <3> QED BY <1>2, <2>1, <3>5
  <2> QED BY <2>1, <2>2, <2>3
<1>10. ASSUME NEW p \in Tids \cup {None}, PollControl(p) PROVE FirstLife(t)'
  BY <1>3, <1>10 DEF PollControl
<1>11. CASE SeedOwn \/ BeginCycle \/ SkipCycle \/ EndCycle \/ PollReturns
  BY <1>3, <1>11 DEF SeedOwn, BeginCycle, SkipCycle, EndCycle, PollReturns
<1>12. CASE ProcessEvent
  <2>1. UNCHANGED <<alive, gen>>
    BY <1>12 DEF ProcessEvent
  <2> QED BY <1>2, <1>12, <2>1, ExitFreeProcess
<1> QED BY <1>4, <1>5, <1>6, <1>7, <1>8, <1>9, <1>10, <1>11, <1>12 DEF Next

(* A visit leaves its entry with nothing to classify, and nothing but the   *)
(* cycle touches the statistics while it runs.                              *)
LEMMA VisitedStep ==
  ASSUME TypeOK, TodoKnown, Visited, Next
  PROVE  Visited'
<1> USE DEF kernelVars, loopVars
<1>1. ASSUME UNCHANGED <<phase, todo, stats>> PROVE Visited'
  BY <1>1 DEF Visited
<1>2. ASSUME NEW u \in Tids,
             \/ Start(u) \/ Stop(u) \/ Send(u) \/ Lookup(u) \/ Delete(u) \/ ExitTask(u)
      PROVE  Visited'
  BY <1>1, <1>2 DEF Start, Stop, Send, Lookup, Delete, ExitTask
<1>3. ASSUME NEW u \in Tids, Visit(u) PROVE Visited'
  <2>1. /\ phase = "cycle" /\ u \in todo /\ todo' = todo \ {u}
        /\ \/ stats' = [stats EXCEPT ![u].need_update = FALSE]
           \/ (u = Own \/ ~Eligible(stats[u])) /\ stats' = stats
    BY <1>3 DEF Visit
  <2>2. ASSUME NEW t \in Tids \ todo', t # Own, stats'[t] # None
        PROVE  ~Eligible(stats'[t])
    <3>1. PICK s \in Stats : s = stats[u]
      BY <2>1 DEF TodoKnown, TypeOK
    <3>2. ~Eligible([s EXCEPT !.need_update = FALSE])
      BY DEF Eligible, Stats
    <3>3. CASE t = u
      <4>1. stats'[t] = [s EXCEPT !.need_update = FALSE] \/ ~Eligible(stats'[t])
        BY <2>1, <2>2, <3>1, <3>3 DEF TypeOK
      <4> QED BY <3>2, <4>1
    <3>4. CASE t # u
      <4>1. t \notin todo /\ stats'[t] = stats[t]
        BY <2>1, <2>2, <3>4 DEF TypeOK
      <4> QED BY <2>1, <2>2, <4>1 DEF Visited
    <3> QED BY <3>3, <3>4
  <2> QED BY <2>2 DEF Visited
<1>4. ASSUME NEW p \in Tids \cup {None}, PollControl(p) PROVE Visited'
  BY <1>4, <1>1 DEF PollControl
<1>5. CASE BeginCycle
  BY <1>5 DEF BeginCycle, Visited
<1>6. CASE SeedOwn \/ SkipCycle \/ EndCycle \/ PollReturns
  BY <1>6 DEF SeedOwn, SkipCycle, EndCycle, PollReturns, Visited
<1>7. CASE ProcessEvent
  BY <1>7 DEF ProcessEvent, Visited
<1> QED BY <1>2, <1>3, <1>4, <1>5, <1>6, <1>7 DEF Next

(* The strengthened invariant holds of every behaviour. *)
LEMMA CycleInvariant == Spec => []CycleInv
<1>1. Init => FirstLives /\ Visited
  <2> SUFFICES ASSUME Init PROVE FirstLives /\ Visited
    OBVIOUS
  <2>1. Len(ring) = 0
    BY EmptySeq DEF Init
  <2>2. \A t \in Tids : ~alive[t] /\ stats[t] = None /\ phase = "seed"
    BY DEF Init
  <2> QED BY <2>1, <2>2 DEF Init, FirstLives, FirstLife, ExitFree, Visited
<1>2. PipeInv /\ FirstLives /\ Visited /\ [Next]_vars => (FirstLives /\ Visited)'
  <2> SUFFICES ASSUME PipeInv, FirstLives, Visited, [Next]_vars
               PROVE  (FirstLives /\ Visited)'
    OBVIOUS
  <2>1. TypeOK /\ TodoKnown
    BY DEF PipeInv
  <2>2. CASE Next
    BY <2>1, <2>2, FirstLivesStep, VisitedStep
  <2>3. CASE UNCHANGED vars
    BY <2>3 DEF vars, FirstLives, FirstLife, ExitFree, Visited
  <2> QED BY <2>2, <2>3
<1>3. PipeInv /\ FirstLives /\ Visited <=> CycleInv
  BY DEF CycleInv
<1> QED BY <1>1, <1>2, <1>3, PipeInvariant, PTL DEF Spec

(* When a classify cycle ends, no live task other than the main thread that *)
(* is the first with its tid, and has enough events, is left with events    *)
(* the cycle should have classified.                                        *)
THEOREM CyclesClassifyAll == Spec => CycleClassifiesAll
<1> DEFINE Complete == \A t \in Tids \ {Own} :
                         alive[t] /\ gen[t] = 1 /\ stats[t] # None /\ Known(t) >= MinEvents
                           => ~stats[t].need_update
<1>1. CycleInv /\ EndCycle => Complete
  <2> SUFFICES ASSUME CycleInv, EndCycle,
                      NEW t \in Tids \ {Own}, alive[t], gen[t] = 1, stats[t] # None,
                      Known(t) >= MinEvents
               PROVE  ~stats[t].need_update
    OBVIOUS
  <2>1. ~Eligible(stats[t])
    BY DEF CycleInv, EndCycle, Visited
  <2>2. ~stats[t].exit
    BY DEF CycleInv, FirstLives, FirstLife, ExitFree
  <2> QED BY <2>1, <2>2 DEF Eligible, Known
<1>2. CycleInv /\ [Next]_vars => [EndCycle => Complete]_vars
  BY <1>1
<1> QED BY <1>2, CycleInvariant, PTL DEF Spec, CycleClassifiesAll

(* A cycle clears an update flag only with a setting written. *)
LEMMA ClearedWithSetting ==
  ASSUME PipeInv, Next, NEW t \in Tids, FlagCleared(t)
  PROVE  update_map'[t] # None
<1> USE DEF kernelVars, loopVars, FlagCleared
<1>1. TypeOK /\ TodoKnown
  BY DEF PipeInv
<1>2. stats' # stats
  OBVIOUS
<1>3. ASSUME NEW u \in Tids, Visit(u) PROVE update_map'[t] # None
  <2>1. PICK s \in Settings : /\ stats' = [stats EXCEPT ![u].need_update = FALSE]
                              /\ update_map' = [update_map EXCEPT ![u] = s]
    BY <1>2, <1>3 DEF Visit
  <2>2. t = u
    BY <1>1, <2>1 DEF TypeOK
  <2> QED BY <1>1, <2>1, <2>2, ValueAssumption DEF TypeOK
<1>4. CASE ProcessEvent
  <2>1. PICK e \in Events : e = Head(ring)
    BY <1>1, <1>4, HeadTailProperties, EmptySeq DEF ProcessEvent, TypeOK
  <2>2. PICK u \in Tids : u = e.tid
    BY EventType
  <2>3. PICK s \in Stats : s = stats[t]
    BY <1>1 DEF TypeOK
  <2>4. Updated(s, e).need_update /\ [s EXCEPT !.exit = TRUE].need_update = s.need_update
    BY DEF Updated, Stats
  <2>5. \/ stats' = [stats EXCEPT ![u] = Updated(IF stats[u] = None THEN NewStats ELSE stats[u], e)]
        \/ stats' = stats
        \/ stats' = [stats EXCEPT ![u].exit = TRUE]
    BY <1>4, <2>1, <2>2 DEF ProcessEvent
  <2>6. \/ stats'[t] = stats[t] \/ stats'[t] = Updated(s, e)
        \/ stats'[t] = [s EXCEPT !.exit = TRUE]
    BY <1>1, <2>3, <2>5 DEF TypeOK
  <2> QED BY <2>3, <2>4, <2>6
<1>5. CASE SeedOwn \/ BeginCycle \/ SkipCycle \/ EndCycle \/ PollReturns
  BY <1>2, <1>5 DEF SeedOwn, BeginCycle, SkipCycle, EndCycle, PollReturns
<1>6. ASSUME NEW u \in Tids,
             \/ Start(u) \/ Stop(u) \/ Send(u) \/ Lookup(u) \/ Delete(u) \/ ExitTask(u)
      PROVE  update_map'[t] # None
  BY <1>2, <1>6 DEF Start, Stop, Send, Lookup, Delete, ExitTask
<1>7. ASSUME NEW p \in Tids \cup {None}, PollControl(p) PROVE update_map'[t] # None
  BY <1>2, <1>7 DEF PollControl
<1> QED BY <1>3, <1>4, <1>5, <1>6, <1>7 DEF Next

(* stopping deletes what it has copied into the context, or a setting that  *)
(* was written since.                                                       *)
LEMMA CopiedStep ==
  ASSUME TypeOK, OwnLife, DeletesWhatItCopied, Next, NEW t \in Tids
  PROVE  /\ pc'[t] # "out" => alive'[t]
         /\ pc'[t] = "delete"
              => update_map'[t] # None /\ (ctx'[t] = update_map'[t] \/ t \in raced')
<1> USE DEF kernelVars, loopVars, DeletesWhatItCopied
<1>1. ASSUME NEW u \in Tids, Start(u) \/ Stop(u) \/ Send(u) \/ ExitTask(u)
      PROVE  /\ pc'[t] # "out" => alive'[t]
             /\ pc'[t] = "delete"
                  => update_map'[t] # None /\ (ctx'[t] = update_map'[t] \/ t \in raced')
  <2>1. update_map' = update_map /\ raced' = raced
    BY <1>1 DEF Start, Stop, Send, ExitTask
  <2>2. pc'[t] # "out" => alive'[t]
    BY <1>1 DEF Start, Stop, Send, ExitTask, TypeOK
  <2>3. pc'[t] = "delete" => pc[t] = "delete" /\ ctx'[t] = ctx[t]
    BY <1>1 DEF Start, Stop, Send, ExitTask, TypeOK
  <2> QED BY <2>1, <2>2, <2>3
<1>2. ASSUME NEW u \in Tids, Lookup(u) \/ Delete(u)
      PROVE  /\ pc'[t] # "out" => alive'[t]
             /\ pc'[t] = "delete"
                  => update_map'[t] # None /\ (ctx'[t] = update_map'[t] \/ t \in raced')
  <2>1. CASE t = u
    BY <1>2, <2>1 DEF Lookup, Delete, TypeOK
  <2>2. CASE t # u
    <3>1. /\ pc'[t] = pc[t] /\ alive'[t] = alive[t] /\ ctx'[t] = ctx[t]
          /\ update_map'[t] = update_map[t] /\ (t \in raced => t \in raced')
      BY <1>2, <2>2 DEF Lookup, Delete, TypeOK
    <3> QED BY <3>1
  <2> QED BY <2>1, <2>2
<1>3. ASSUME NEW u \in Tids, Visit(u)
      PROVE  /\ pc'[t] # "out" => alive'[t]
             /\ pc'[t] = "delete"
                  => update_map'[t] # None /\ (ctx'[t] = update_map'[t] \/ t \in raced')
  <2>1. pc' = pc /\ alive' = alive /\ ctx' = ctx
    BY <1>3 DEF Visit
  <2>2. CASE u # Own /\ Eligible(stats[u])
    <3>1. PICK s \in Settings : /\ update_map' = [update_map EXCEPT ![u] = s]
                                /\ raced' = IF pc[u] = "delete" THEN raced \cup {u} ELSE raced
      BY <1>3, <2>2 DEF Visit
    <3>2. s # None
      BY ValueAssumption
    <3> QED BY <2>1, <3>1, <3>2 DEF TypeOK
  <2>3. CASE u = Own \/ ~Eligible(stats[u])
    BY <1>3, <2>1, <2>3 DEF Visit
  <2> QED BY <2>2, <2>3
<1>4. CASE SeedOwn
  <2>1. pc[Own] # "delete"
    BY <1>4, ValueAssumption DEF SeedOwn, OwnLife
  <2>2. /\ UNCHANGED <<pc, alive, ctx, raced>>
        /\ t # Own => update_map'[t] = update_map[t]
    BY <1>4 DEF SeedOwn, TypeOK
  <2> QED BY <2>1, <2>2
<1>5. ASSUME UNCHANGED <<pc, alive, ctx, update_map, raced>>
      PROVE  /\ pc'[t] # "out" => alive'[t]
             /\ pc'[t] = "delete"
                  => update_map'[t] # None /\ (ctx'[t] = update_map'[t] \/ t \in raced')
  BY <1>5
<1>6. \/ UNCHANGED <<pc, alive, ctx, update_map, raced>> \/ SeedOwn
      \/ \E u \in Tids : \/ Start(u) \/ Stop(u) \/ Send(u) \/ ExitTask(u)
                         \/ Lookup(u) \/ Delete(u) \/ Visit(u)
  BY DEF Next, PollControl, BeginCycle, SkipCycle, EndCycle, ProcessEvent, PollReturns
<1> QED BY <1>1, <1>2, <1>3, <1>4, <1>5, <1>6

(* What is being deleted was copied, in every behaviour. *)
LEMMA CopiedInvariant == Spec => [](PipeInv /\ DeletesWhatItCopied)
<1>1. Init => DeletesWhatItCopied
  BY DEF Init, DeletesWhatItCopied
<1>2. PipeInv /\ DeletesWhatItCopied /\ [Next]_vars => DeletesWhatItCopied'
  <2> SUFFICES ASSUME PipeInv, DeletesWhatItCopied, [Next]_vars PROVE DeletesWhatItCopied'
    OBVIOUS
  <2>1. CASE Next
    BY <2>1, CopiedStep DEF PipeInv, DeletesWhatItCopied
  <2>2. CASE UNCHANGED vars
    BY <2>2 DEF vars, DeletesWhatItCopied
  <2> QED BY <2>1, <2>2
<1> QED BY <1>1, <1>2, PipeInvariant, PTL DEF Spec

(* No prediction is dropped on its way to the task: the flag of a tid is    *)
(* only cleared by a visit that leaves a setting in update_map, and only    *)
(* stopping takes a setting out of it, once it is in force -- or when a     *)
(* cycle has replaced it between the lookup and the deletion.               *)
THEOREM ResultsAreUsed == Spec => EveryResultUsed
<1> DEFINE Used ==
      \A t \in Tids :
        /\ FlagCleared(t) => update_map'[t] # None
        /\ update_map[t] # None /\ update_map'[t] = None
             => ctx[t] = update_map[t] \/ t \in raced
<1>1. PipeInv /\ DeletesWhatItCopied /\ Next => Used
  <2> SUFFICES ASSUME PipeInv, DeletesWhatItCopied, Next, NEW t \in Tids,
                      update_map[t] # None, update_map'[t] = None
               PROVE  ctx[t] = update_map[t] \/ t \in raced
    BY ClearedWithSetting
  <2>1. update_map \in [Tids -> Settings \cup {Seed, None}] /\ None \notin Settings \cup {Seed}
    BY ValueAssumption DEF PipeInv, TypeOK
  <2>2. ASSUME NEW u \in Tids, Delete(u) PROVE ctx[t] = update_map[t] \/ t \in raced
    <3>1. t = u /\ pc[u] = "delete"
      BY <2>1, <2>2 DEF Delete
    <3> QED BY <3>1 DEF DeletesWhatItCopied
  <2>3. ASSUME NEW u \in Tids, Visit(u) PROVE update_map'[t] # None
    BY <2>1, <2>3 DEF Visit
  <2>4. ASSUME SeedOwn PROVE update_map'[t] # None
    BY <2>1, <2>4, ValueAssumption DEF SeedOwn
  <2>5. update_map' = update_map \/ SeedOwn \/ \E u \in Tids : Delete(u) \/ Visit(u)
    BY DEF Next, kernelVars, loopVars, Start, Stop, Send, Lookup, ExitTask, PollControl,
           BeginCycle, SkipCycle, EndCycle, ProcessEvent, PollReturns
  <2> QED BY <2>2, <2>3, <2>4, <2>5
<1>2. PipeInv /\ DeletesWhatItCopied /\ [Next]_vars => [Used]_vars
  BY <1>1
<1> QED BY <1>2, CopiedInvariant, PTL DEF Spec, EveryResultUsed
=============================================================================
