----------------------------- MODULE EventPipe ------------------------------
(***************************************************************************)
(* The loop between the BPF side of scx_teddy and its userspace: stopping  *)
(* counts events per task and sends them through a bounded ring buffer,    *)
(* unless userspace has paused it; process_event adds them to the          *)
(* statistics of the tid; the classify cycle writes a setting per task     *)
(* into update_map; a later stopping applies and deletes it.  Tasks exit,  *)
(* and the kernel gives their tids to new tasks.  The thread of userspace  *)
(* is itself such a task: its tid gets a setting before the loop starts,   *)
(* and the cycle passes over it.                                           *)
(*                                                                         *)
(* The callbacks of different tasks run on different CPUs and interleave   *)
(* with the main loop; everything in userspace runs on one thread.  The    *)
(* eight counters of a context are sent and cleared together, event_cnt    *)
(* stands for them.  The 100 ms limit between two sends is a choice.       *)
(***************************************************************************)
EXTENDS Naturals, Sequences

CONSTANTS Tids,
          Own,         \* own_tid: the main thread of scx_teddy
          None,        \* no entry, no target
          Settings,    \* what the clusters of the policy are mapped to
          Seed,        \* prio 0, kind 0, slow CPUs: what own_tid is given
          Default,     \* the setting of a fresh context
          RingSize,    \* how many events the ring buffer holds
          MinEvents,   \* --min-events
          MaxEvents,   \* bound: events made by each tid
          MaxGen       \* bound: tasks that get the same tid, one after another

ASSUME SizeAssumption ==
  /\ RingSize \in Nat \ {0} /\ MinEvents \in Nat
  /\ MaxEvents \in [Tids -> Nat] /\ MaxGen \in Nat

VARIABLES
  alive,     \* tid belongs to a task scheduled by scx_teddy
  gen,       \* how many tasks have had the tid
  pc,        \* where the task's CPU is in teddy_stopping, "out" if elsewhere
  event_cnt, \* task_ctx: events counted and not sent
  ctx,       \* task_ctx: the setting in force, None without a task
  ring,      \* the ring buffer
  pause,     \* scheduler_config[CONFIG_STOP_RINGBUF]
  update_map,
  stats,     \* TaskStats of a tid, None before its first event
  target,    \* target_ppid, None for 0
  phase,     \* the main thread: "seed" before the loop, "top", "cycle" or "poll" in it
  todo,      \* the entries run_classify_cycle has yet to visit
  made,      \* history: events counted per tid
  lost,      \* history: events not sent when their task exited
  raced      \* history: tids whose setting was written after its lookup

kernelVars == <<alive, gen, pc, event_cnt, ctx, made, lost>>
loopVars   == <<target, phase, todo>>
vars == <<alive, gen, pc, event_cnt, ctx, ring, pause, update_map, stats,
          target, phase, todo, made, lost, raced>>

Event(t, k) == [tid |-> t, exit |-> FALSE, cnt |-> k]
Exit(t)     == [tid |-> t, exit |-> TRUE, cnt |-> 0]
Events == [tid : Tids, exit : {FALSE}, cnt : Nat] \cup [tid : Tids, exit : {TRUE}, cnt : {0}]
Stats  == [event_count : Nat, exit : BOOLEAN, need_update : BOOLEAN]

ASSUME ValueAssumption ==
  /\ Own \in Tids
  /\ None \notin Tids /\ None \notin Settings /\ None \notin Stats
  /\ Default \notin Settings /\ None # Default /\ Seed # None

(* TaskStats::new *)
NewStats == [event_count |-> 0, exit |-> FALSE, need_update |-> FALSE]

TypeOK ==
  /\ alive \in [Tids -> BOOLEAN] /\ gen \in [Tids -> 0 .. MaxGen]
  /\ pc \in [Tids -> {"out", "send", "lookup", "delete"}]
  /\ event_cnt \in [Tids -> Nat]
  /\ ctx \in [Tids -> Settings \cup {Seed, Default, None}]
  /\ ring \in Seq(Events) /\ Len(ring) <= RingSize
  /\ pause \in BOOLEAN
  /\ update_map \in [Tids -> Settings \cup {Seed, None}]
  /\ stats \in [Tids -> Stats \cup {None}]
  /\ target \in Tids \cup {None}
  /\ phase \in {"seed", "top", "cycle", "poll"} /\ (pause <=> phase = "cycle")
  /\ todo \subseteq Tids
  /\ made \in [Tids -> Nat] /\ lost \in [Tids -> Nat] /\ raced \subseteq Tids

Init ==
  /\ alive = [t \in Tids |-> FALSE] /\ gen = [t \in Tids |-> 0]
  /\ pc = [t \in Tids |-> "out"]
  /\ event_cnt = [t \in Tids |-> 0]
  /\ ctx = [t \in Tids |-> None]
  /\ ring = <<>> /\ pause = FALSE
  /\ update_map = [t \in Tids |-> None]
  /\ stats = [t \in Tids |-> None]
  /\ target = None /\ phase = "seed" /\ todo = {}
  /\ made = [t \in Tids |-> 0] /\ lost = [t \in Tids |-> 0] /\ raced = {}

(* A task gets the tid; get_target_storage gives it the default setting. *)
Start(t) ==
  /\ ~alive[t] /\ gen[t] < MaxGen
  /\ alive' = [alive EXCEPT ![t] = TRUE]
  /\ gen' = [gen EXCEPT ![t] = @ + 1]
  /\ ctx' = [ctx EXCEPT ![t] = Default]
  /\ UNCHANGED <<pc, event_cnt, ring, pause, update_map, stats, loopVars, made, lost, raced>>

(***************************************************************************)
(* teddy_stopping, in the steps other CPUs and userspace can see.          *)
(***************************************************************************)
(* The task gives up the CPU.  A sleep after the first one, or enough       *)
(* runtime, is an event: it is counted, and try_data_to_user goes on to     *)
(* send if it is not paused and the last send is long enough ago.           *)
Stop(t) ==
  /\ alive[t] /\ pc[t] = "out"
  /\ \/ /\ pc' = [pc EXCEPT ![t] = "lookup"]
        /\ UNCHANGED <<event_cnt, made>>
     \/ /\ made[t] < MaxEvents[t]
        /\ event_cnt' = [event_cnt EXCEPT ![t] = @ + 1]
        /\ made' = [made EXCEPT ![t] = @ + 1]
        /\ \/ pc' = [pc EXCEPT ![t] = "lookup"]
           \/ ~pause /\ pc' = [pc EXCEPT ![t] = "send"]
  /\ UNCHANGED <<alive, gen, ctx, ring, pause, update_map, stats, loopVars, lost, raced>>

(* slip: the counters are cleared although the reservation failed *)
SendAlwaysClears(t) ==
  /\ pc[t] = "send"
  /\ pc' = [pc EXCEPT ![t] = "lookup"]
  /\ ring' = IF Len(ring) < RingSize THEN Append(ring, Event(t, event_cnt[t])) ELSE ring
  /\ event_cnt' = [event_cnt EXCEPT ![t] = 0]
  /\ UNCHANGED <<alive, gen, ctx, pause, update_map, stats, loopVars, made, lost, raced>>

(* slip: the counters are not cleared after the submission *)
SendNeverClears(t) ==
  /\ pc[t] = "send"
  /\ pc' = [pc EXCEPT ![t] = "lookup"]
  /\ ring' = IF Len(ring) < RingSize THEN Append(ring, Event(t, event_cnt[t])) ELSE ring
  /\ UNCHANGED <<alive, gen, event_cnt, ctx, pause, update_map, stats, loopVars, made, lost, raced>>

(* try_data_to_user: reserve, submit, clear; a full ring leaves the         *)
(* counters as they are                                                     *)
Send(t) ==
  /\ pc[t] = "send"
  /\ pc' = [pc EXCEPT ![t] = "lookup"]
  /\ \/ /\ Len(ring) < RingSize
        /\ ring' = Append(ring, Event(t, event_cnt[t]))
        /\ event_cnt' = [event_cnt EXCEPT ![t] = 0]
     \/ /\ Len(ring) >= RingSize
        /\ UNCHANGED <<ring, event_cnt>>
  /\ UNCHANGED <<alive, gen, ctx, pause, update_map, stats, loopVars, made, lost, raced>>

(* slip: the setting of a task that has one already is not copied *)
LookupOnlyOnce(t) ==
  /\ pc[t] = "lookup"
  /\ pc' = [pc EXCEPT ![t] = IF update_map[t] = None THEN "out" ELSE "delete"]
  /\ ctx' = [ctx EXCEPT ![t] = IF update_map[t] = None \/ @ # Default THEN @ ELSE update_map[t]]
  /\ UNCHANGED <<alive, gen, event_cnt, ring, pause, update_map, stats, loopVars, made, lost, raced>>

(* the pending setting is looked up and copied into the context ... *)
Lookup(t) ==
  /\ pc[t] = "lookup"
  /\ pc' = [pc EXCEPT ![t] = IF update_map[t] = None THEN "out" ELSE "delete"]
  /\ ctx' = [ctx EXCEPT ![t] = IF update_map[t] = None THEN @ ELSE update_map[t]]
  /\ UNCHANGED <<alive, gen, event_cnt, ring, pause, update_map, stats, loopVars, made, lost, raced>>

(* ... and whatever entry the tid has by then is deleted *)
Delete(t) ==
  /\ pc[t] = "delete"
  /\ pc' = [pc EXCEPT ![t] = "out"]
  /\ update_map' = [update_map EXCEPT ![t] = None]
  /\ raced' = raced \ {t}
  /\ UNCHANGED <<alive, gen, event_cnt, ctx, ring, pause, stats, loopVars, made, lost>>

(* teddy_exit_task, and the kernel frees the context: no exit event is sent *)
(* while paused or when the ring is full; update_map keeps its entry.  The  *)
(* main thread of scx_teddy lives as long as its scheduler does.            *)
ExitTask(t) ==
  /\ t # Own /\ alive[t] /\ pc[t] = "out"
  /\ alive' = [alive EXCEPT ![t] = FALSE]
  /\ ctx' = [ctx EXCEPT ![t] = None]
  /\ lost' = [lost EXCEPT ![t] = @ + event_cnt[t]]
  /\ event_cnt' = [event_cnt EXCEPT ![t] = 0]
  /\ ring' = IF ~pause /\ Len(ring) < RingSize THEN Append(ring, Exit(t)) ELSE ring
  /\ UNCHANGED <<gen, pc, pause, update_map, stats, loopVars, made, raced>>

(***************************************************************************)
(* The main loop: control poll, then a cycle if the period is over, then   *)
(* the ring buffer until it is empty.                                      *)
(***************************************************************************)
(* The policy is attached; write_sched_info for own_tid, then the loop.     *)
SeedOwn ==
  /\ phase = "seed" /\ phase' = "top"
  /\ update_map' = [update_map EXCEPT ![Own] = Seed]
  /\ UNCHANGED <<kernelVars, raced, ring, pause, stats, target, todo>>

(* The scanner published a live process, or 0. *)
PollControl(p) ==
  /\ phase = "top" /\ p # target
  /\ p = None \/ p \in {t \in Tids : alive[t]}
  /\ target' = p
  /\ UNCHANGED <<kernelVars, raced, ring, pause, update_map, stats, phase, todo>>

BeginCycle ==
  /\ phase = "top"
  /\ pause' = TRUE /\ phase' = "cycle"
  /\ todo' = {t \in Tids : stats[t] # None}
  /\ UNCHANGED <<kernelVars, raced, ring, update_map, stats, target>>

SkipCycle ==
  /\ phase = "top" /\ phase' = "poll"
  /\ UNCHANGED <<kernelVars, raced, ring, pause, update_map, stats, target, todo>>

(* slip: the minimum number of events is not asked for *)
EligibleAnyCount(s) == ~s.exit /\ s.need_update

(* slip: a task needs one event more than the minimum *)
EligibleOffByOne(s) == ~s.exit /\ s.event_count > MinEvents /\ s.need_update

(* the entries a cycle classifies: not exited, enough events, new events *)
Eligible(s) == ~s.exit /\ s.event_count >= MinEvents /\ s.need_update

(* slip: need_update is cleared before min_events is looked at, and the     *)
(* task is not classified                                                   *)
VisitForgets(t) ==
  /\ phase = "cycle" /\ t \in todo
  /\ todo' = todo \ {t}
  /\ stats' = IF t = Own THEN stats ELSE [stats EXCEPT ![t].need_update = FALSE]
  /\ IF t # Own /\ Eligible(stats[t]) /\ stats[t].event_count > MinEvents
     THEN \E s \in Settings : update_map' = [update_map EXCEPT ![t] = s]
     ELSE UNCHANGED update_map
  /\ UNCHANGED <<kernelVars, raced, ring, pause, target, phase>>

(* slip: the cycle does not pass over own_tid *)
VisitOwn(t) ==
  /\ phase = "cycle" /\ t \in todo
  /\ todo' = todo \ {t}
  /\ IF Eligible(stats[t])
     THEN /\ stats' = [stats EXCEPT ![t].need_update = FALSE]
          /\ \E s \in Settings : update_map' = [update_map EXCEPT ![t] = s]
     ELSE UNCHANGED <<stats, update_map>>
  /\ UNCHANGED <<kernelVars, raced, ring, pause, target, phase>>

(* run_classify_cycle, one entry: predict some cluster, write its setting.  *)
(* The entry of own_tid is passed over.                                     *)
Visit(t) ==
  /\ phase = "cycle" /\ t \in todo
  /\ todo' = todo \ {t}
  /\ \/ /\ t # Own /\ Eligible(stats[t])
        /\ stats' = [stats EXCEPT ![t].need_update = FALSE]
        /\ \E s \in Settings : update_map' = [update_map EXCEPT ![t] = s]
        /\ raced' = IF pc[t] = "delete" THEN raced \cup {t} ELSE raced
     \/ /\ t = Own \/ ~Eligible(stats[t])
        /\ UNCHANGED <<stats, update_map, raced>>
  /\ UNCHANGED <<kernelVars, ring, pause, target, phase>>

EndCycle ==
  /\ phase = "cycle" /\ todo = {}
  /\ pause' = FALSE /\ phase' = "poll"
  /\ UNCHANGED <<kernelVars, raced, ring, update_map, stats, target, todo>>

(* TaskStats::update *)
Updated(s, e) == [s EXCEPT !.event_count = @ + e.cnt, !.need_update = TRUE]

(* slip: only an exit of a tid with statistics clears the target *)
TargetAfterExitOfKnown(t) == IF target = t /\ stats[t] # None THEN None ELSE target

(* the target dies with its process *)
TargetAfterExit(t) == IF target = t THEN None ELSE target

(* process_event *)
ProcessEvent ==
  /\ phase = "poll" /\ ring # <<>>
  /\ LET e == Head(ring)
         t == e.tid
         old == IF stats[t] = None THEN NewStats ELSE stats[t]
     IN  \/ /\ ~e.exit
            /\ stats' = [stats EXCEPT ![t] = Updated(old, e)]
            /\ UNCHANGED target
         \/ /\ e.exit
            /\ target' = TargetAfterExit(t)
            /\ stats' = IF stats[t] = None THEN stats ELSE [stats EXCEPT ![t].exit = TRUE]
  /\ ring' = Tail(ring)
  /\ UNCHANGED <<kernelVars, raced, pause, update_map, phase, todo>>

(* ringbuf.poll returns once the ring is empty *)
PollReturns ==
  /\ phase = "poll" /\ ring = <<>>
  /\ phase' = "top"
  /\ UNCHANGED <<kernelVars, raced, ring, pause, update_map, stats, target, todo>>

Next ==
  \/ \E t \in Tids : \/ Start(t) \/ Stop(t) \/ Send(t) \/ Lookup(t) \/ Delete(t)
                     \/ ExitTask(t) \/ Visit(t)
  \/ \E p \in Tids \cup {None} : PollControl(p)
  \/ SeedOwn \/ BeginCycle \/ SkipCycle \/ EndCycle \/ ProcessEvent \/ PollReturns

Spec == Init /\ [][Next]_vars

(* The main thread is scheduled (it runs at priority 0); a poll of the      *)
(* control files happens every few seconds, not at every turn of the loop.  *)
LoopStep == SeedOwn \/ BeginCycle \/ SkipCycle \/ (\E t \in Tids : Visit(t)) \/ EndCycle
            \/ ProcessEvent \/ PollReturns
FairSpec == Spec /\ WF_vars(LoopStep)

-----------------------------------------------------------------------------
(* Events are neither lost nor duplicated by the pause, the send interval,  *)
(* a full ring or an exit: from the statistics of a tid through the ring to *)
(* the counter in its context there is a running total that ends in what    *)
(* was counted.  b[i] is the total up to the i-th event of the ring.        *)
Known(t) == IF stats[t] = None THEN 0 ELSE stats[t].event_count
Adds(t, i) == IF ring[i].tid = t THEN ring[i].cnt ELSE 0
EventsConserved ==
  \A t \in Tids : \E b \in [0 .. Len(ring) -> 0 .. made[t]] :
    /\ b[0] = Known(t)
    /\ \A i \in 1 .. Len(ring) : b[i] = b[i - 1] + Adds(t, i)
    /\ b[Len(ring)] + event_cnt[t] + lost[t] = made[t]

(* The pipe implements the event log: what userspace sees was made, once.   *)
Log == INSTANCE EventLog WITH seen <- [t \in Tids |-> Known(t)]
ImplementsLog == Log!Spec

(* "Never starved by its own policy": once seeded, the main thread has its  *)
(* seed in force or about to be, and never anything else than that and the  *)
(* default, however many events its tid collects and cycles run.            *)
OwnKeepsSeed ==
  /\ update_map[Own] \in {Seed, None} /\ ctx[Own] \in {Seed, Default, None}
  /\ phase # "seed" => Seed \in {update_map[Own], ctx[Own]}

(* Where settings come from.  That of the main thread is its seed; that of  *)
(* any other tid, pending or in force, was predicted from at least          *)
(* MinEvents events of the tid.  The tid's, not the task's: what is still   *)
(* pending when a task exits goes to the next task with its tid.            *)
SettingEarned ==
  /\ OwnKeepsSeed
  /\ \A t \in Tids \ {Own} :
       update_map[t] # None \/ ctx[t] \notin {Default, None} => Known(t) >= MinEvents

(* A cycle classifies every live task that has enough events and new ones,  *)
(* if it is not the main thread and the first with its tid: none is         *)
(* forgotten, and no update flag is cleared without a prediction.  (A later *)
(* task with the tid stays marked as exited, and is never classified.)      *)
CycleClassifiesAll ==
  [][EndCycle =>
       \A t \in Tids \ {Own} :
         alive[t] /\ gen[t] = 1 /\ stats[t] # None /\ Known(t) >= MinEvents
           => ~stats[t].need_update]_vars

(* The results of a cycle are used.  An update flag is cleared only with a  *)
(* setting written, and a setting leaves update_map only once it is in      *)
(* force.  The lookup, the copy and the deletion are three steps: the one   *)
(* exception is a setting that a cycle writes in between, which is deleted  *)
(* unseen.                                                                  *)
FlagCleared(t) ==
  stats[t] # None /\ stats'[t] # None /\ stats[t].need_update /\ ~stats'[t].need_update
EveryResultUsed ==
  [][\A t \in Tids :
       /\ FlagCleared(t) => update_map'[t] # None
       /\ update_map[t] # None /\ update_map'[t] = None
            => ctx[t] = update_map[t] \/ t \in raced]_vars

(* why: what stopping is about to delete is what it copied *)
DeletesWhatItCopied ==
  \A t \in Tids :
    /\ pc[t] # "out" => alive[t]
    /\ pc[t] = "delete"
         => update_map[t] # None /\ (ctx[t] = update_map[t] \/ t \in raced)

(* An exit event of the target that made it into the ring clears the        *)
(* target, whatever cycles run in between.                                  *)
ExitInRing(t) == \E i \in 1 .. Len(ring) : ring[i] = Exit(t)
ExitClearsTarget ==
  \A t \in Tids : (target = t /\ ExitInRing(t)) ~> target # t

(* "Reliable self-death signal": while a dead process is still the target,  *)
(* its exit event is on the way.                                            *)
TargetDeathSignalled ==
  \A t \in Tids : target = t /\ ~alive[t] => ExitInRing(t)

=============================================================================
