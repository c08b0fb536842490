------------------------------ MODULE Accounting ------------------------------
(* How the times of one thread get from its callbacks to its features: the    *)
(* context main.bpf.c keeps for it, the sums it sends through the ring        *)
(* buffer, and the TaskStats the scheduler adds them to.  A sleep lasts from  *)
(* a block to a wakeup; both are only time stamps until the next event        *)
(* counts them.  Runtimes are scaled by the frequency of the CPU.  The thread *)
(* lives on: EventPipe has the exits, the reuse of tids and the cycles.       *)
(* Left out: the sums of squares and in_iowait_cnt, which are added, sent and *)
(* cleared with the sums modelled here.                                       *)
EXTENDS Integers, Sequences

CONSTANTS
  Boot,               \* the clock, in ticks since boot, when the scheduler attaches
  MaxClock,           \* bound: the clock stops here
  Steps,              \* how far the clock moves at a time
  Grain,              \* ticks in a unit of sleep (a nanosecond is >> 10)
  MaxSleep,           \* the longest sleep counted, in units (2^31)
  Cores,              \* the CPUs
  Freq,               \* their frequencies: freq_n of the CPU, freq_d of the fastest
  RUNTIME_MAX_TIME, MIN_SEND_INTERVAL,
  RingSize,           \* bound: events of this thread in the ring
  MaxFutex            \* bound: futex waits

ASSUME ClockAssumption ==
  /\ Boot \in Nat \ {0} /\ MaxClock \in Nat /\ Steps \subseteq Nat \ {0}
  /\ Grain \in Nat \ {0} /\ MaxSleep \in Nat
ASSUME CoreAssumption ==
  /\ Cores \cap {"asleep", "ready"} = {}
  /\ \A c \in Cores : Freq[c].n \in Nat /\ Freq[c].d \in Nat \ {0} /\ Freq[c].n <= Freq[c].d
ASSUME IntervalAssumption == RUNTIME_MAX_TIME \in Nat /\ MIN_SEND_INTERVAL \in Nat

VARIABLES
  now,      \* the clock
  place,    \* "asleep", "ready" or the CPU it runs on
  ctx,      \* its target_ctx_t, once made
  ring,     \* its events in the ring buffer
  pause,    \* CONFIG_STOP_RINGBUF: a cycle is running
  stats,    \* its TaskStats
  seen      \* history: what really happened while it had a context

vars == <<now, place, ctx, ring, pause, stats, seen>>

Zero == [event_cnt |-> 0, sleep_sum |-> 0, runtime_sum |-> 0,
         sleep_cnt |-> 0, futex_wait_cnt |-> 0]
NewCtx(t) == [made |-> TRUE, start_running |-> 0, sleep_start |-> 0, sleep_end |-> 0,
              runtime_ns |-> 0, last_send_time |-> t, sums |-> Zero]
NoCtx == [NewCtx(0) EXCEPT !.made = FALSE]

(* get_target_storage: the context, or what its creation yields; creation     *)
(* fails when there is no memory                                              *)
Storage == IF ctx = NoCtx THEN {NoCtx, NewCtx(now)} ELSE {ctx}

Init ==
  /\ now = Boot /\ place \in {"asleep", "ready"} /\ ctx = NoCtx
  /\ ring = <<>> /\ pause = FALSE /\ stats = Zero
  /\ seen = [began |-> 0, woke |-> 0, blocked |-> 0, ran |-> 0, slept |-> 0,
             blocks |-> 0, futexes |-> 0, unseenRun |-> 0, unseenSleep |-> 0]

-------------------------------------------------------------------------------
(* The arithmetic of the callbacks                                            *)

AtMost(x, bound) == IF x > bound THEN bound ELSE x
Units(t) == AtMost(t \div Grain, MaxSleep)
Normalized(t, c) == 
  IF Freq[c].n = Freq[c].d THEN t ELSE (t * Freq[c].n) \div Freq[c].d

SleepOf(c) == IF c.sleep_end > c.sleep_start THEN Units(c.sleep_end - c.sleep_start) ELSE 0

(* slip: the wakeup is kept, so the next event counts the sleep once more     *)
UpdateKeepsWakeup(c) ==
  [c EXCEPT !.sums.event_cnt = @ + 1, !.sums.sleep_sum = @ + SleepOf(c),
            !.sums.runtime_sum = @ + c.runtime_ns, !.runtime_ns = 0]

UpdateEventData(c) ==
  [c EXCEPT !.sums.event_cnt = @ + 1, !.sums.sleep_sum = @ + SleepOf(c),
            !.sums.runtime_sum = @ + c.runtime_ns,
            !.runtime_ns = 0, !.sleep_end = 0]

(* try_data_to_user: nothing changes during a pause or too soon after the     *)
(* last try; a full ring (of this thread's events or others') costs the       *)
(* thread another MIN_SEND_INTERVAL                                           *)
TryDataToUser(c) ==
  IF pause \/ now - c.last_send_time < MIN_SEND_INTERVAL
  THEN ctx' = c /\ ring' = ring
  ELSE \/ /\ Len(ring) < RingSize
          /\ ring' = Append(ring, c.sums)
          /\ ctx' = [c EXCEPT !.last_send_time = now, !.sums = Zero]
       \/ ring' = ring /\ ctx' = [c EXCEPT !.last_send_time = now]

-------------------------------------------------------------------------------
(* The callbacks                                                              *)

(* teddy_runnable with SCX_ENQ_WAKEUP *)
Wake ==
  /\ place = "asleep" /\ place' = "ready"
  /\ \E c \in Storage :
       \/ c = NoCtx /\ UNCHANGED <<ctx, seen>>
       \/ /\ c # NoCtx /\ ctx' = [c EXCEPT !.sleep_end = now]
          /\ seen' = [seen EXCEPT !.woke = now,
                        !.slept = @ + IF seen.blocked = 0 THEN 0 ELSE Units(now - seen.blocked)]
  /\ UNCHANGED <<now, ring, pause, stats>>

(* a callback that needs the context and writes no time: teddy_select_cpu,    *)
(* teddy_enqueue, teddy_runnable without a wakeup                             *)
Touch ==
  /\ place = "ready" /\ ctx' \in Storage
  /\ UNCHANGED <<now, place, ring, pause, stats, seen>>

(* teddy_running *)
Running ==
  /\ place = "ready" /\ place' \in Cores
  /\ \E c \in Storage : ctx' = IF c = NoCtx THEN c ELSE [c EXCEPT !.start_running = now]
  /\ seen' = [seen EXCEPT !.began = now]
  /\ UNCHANGED <<now, ring, pause, stats>>

(* trace_futex_wait *)
FutexWait ==
  /\ place \in Cores /\ seen.futexes < MaxFutex
  /\ \E c \in Storage :
       /\ ctx' = IF c = NoCtx THEN c ELSE [c EXCEPT !.sums.futex_wait_cnt = @ + 1]
       /\ seen' = IF c = NoCtx THEN seen ELSE [seen EXCEPT !.futexes = @ + 1]
  /\ UNCHANGED <<now, place, ring, pause, stats>>

(* What a stop of a thread with a context adds to the history: it ran since   *)
(* `began`; if running() had no context, the code counts from the boot of the *)
(* machine.  An event before the first block does so for the sleep.           *)
Saw(c, blocks, event) ==
  LET run == Normalized(now - seen.began, place) IN
  [seen EXCEPT !.ran = @ + run,
               !.unseenRun = @ + IF c.start_running = 0 THEN Normalized(now, place) - run ELSE 0,
               !.blocks = @ + IF blocks THEN 1 ELSE 0,
               !.blocked = IF blocks THEN now ELSE @,
               !.unseenSleep = @ + IF event /\ seen.blocked = 0 THEN Units(seen.woke) ELSE 0,
               !.woke = IF event THEN 0 ELSE @]

(* teddy_stopping(p, runnable), some time after teddy_running *)
Stopping(runnable) ==
  /\ place \in Cores /\ now > seen.began
  /\ place' = IF runnable THEN "ready" ELSE "asleep"
  /\ \E c0 \in Storage :
       IF c0 = NoCtx THEN UNCHANGED <<ctx, ring, seen>>
       ELSE LET run == Normalized(now - c0.start_running, place)
                c1 == [c0 EXCEPT !.runtime_ns = @ + run]
                c2 == IF runnable THEN c1 ELSE [c1 EXCEPT !.sums.sleep_cnt = @ + 1]
                event == IF runnable THEN c2.runtime_ns >= RUNTIME_MAX_TIME
                         ELSE c2.sleep_start # 0
                Slept(c) == IF runnable THEN c ELSE [c EXCEPT !.sleep_start = now]
            IN /\ seen' = Saw(c0, ~runnable, event)
               /\ IF event
                  THEN TryDataToUser(Slept(UpdateEventData(c2)))
                  ELSE ctx' = Slept(c2) /\ ring' = ring
  /\ UNCHANGED <<now, pause, stats>>

-------------------------------------------------------------------------------
(* The scheduler's loop: a cycle with the ring paused, then a poll            *)

Pause ==
  /\ pause' = ~pause
  /\ UNCHANGED <<now, place, ctx, ring, stats, seen>>

(* ringbuf.poll, process_event, TaskStats::update *)
Poll ==
  /\ ~pause /\ ring # <<>>
  /\ stats' = [f \in DOMAIN stats |-> stats[f] + Head(ring)[f]]
  /\ ring' = Tail(ring)
  /\ UNCHANGED <<now, place, ctx, pause, seen>>

Tick ==
  /\ \E d \in Steps : now + d <= MaxClock /\ now' = now + d
  /\ UNCHANGED <<place, ctx, ring, pause, stats, seen>>

Next == Wake \/ Touch \/ Running \/ FutexWait
        \/ Stopping(TRUE) \/ Stopping(FALSE) \/ Pause \/ Poll \/ Tick

Spec == Init /\ [][Next]_vars

-------------------------------------------------------------------------------
(* a field of the events in the ring, summed                                  *)
SumOf(f, events) ==
  LET upto[i \in 0 .. Len(events)] == IF i = 0 THEN 0 ELSE upto[i - 1] + events[i][f]
  IN  upto[Len(events)]

(* Everything of a sum, wherever it is between the callbacks and the features *)
Total(f) == stats[f] + SumOf(f, ring) + ctx.sums[f]

(* What no event has counted yet: the time run since the last event, and the  *)
(* sleep whose wakeup is known                                                *)
LastSleep == IF seen.blocked = 0 THEN 0 ELSE SleepOf(ctx)

(* Every time is counted once: through pauses, full rings, the send interval, *)
(* preemptions and blocks in any order, the time a thread ran (scaled by its  *)
(* CPU's frequency), the time it slept, its blocks and its futex waits are    *)
(* each in exactly one of the context, the ring and the statistics.  Two      *)
(* times are counted that never happened, both on the way in: the time since  *)
(* boot as a sleep, if a thread asleep at the start runs RUNTIME_MAX_TIME     *)
(* before it first blocks, and as a run, if its context was made on the CPU.  *)
TimesConserved ==
  /\ Total("runtime_sum") + ctx.runtime_ns = seen.ran + seen.unseenRun
  /\ Total("sleep_sum") + LastSleep = seen.slept + seen.unseenSleep
  /\ Total("sleep_cnt") = seen.blocks
  /\ Total("futex_wait_cnt") = seen.futexes
===============================================================================
