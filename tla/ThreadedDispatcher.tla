-------------------------- MODULE ThreadedDispatcher --------------------------
(***************************************************************************)
(* The multithreaded dispatcher and its detection of quiescence            *)
(* (crates/gpui/src/platform/threaded_dispatcher.rs).                      *)
(*                                                                         *)
(* Runnables go to the worker pool, to the main thread's queue or into the *)
(* timer heap; each runs once, and dispatches others while it runs.  Main  *)
(* waits in run_until_idle for all of it, or in run_until for what one of  *)
(* its own tasks completes.  Critical sections are single actions, except  *)
(* where a thread holds a lock while it takes another or looks elsewhere:  *)
(*   - Main holds `inflight` from `recheck` to the end of `test`;          *)
(*   - Timer holds the timer state while it waits for `inflight`.          *)
(* The priority queues are sets: PriorityQueue.tla is about their blocking *)
(* pop.                                                                    *)
(***************************************************************************)
EXTENDS Naturals, FiniteSets, FiniteSetsExt

CONSTANTS
  Workers, Main, Timer,
  External,    \* threads that are not the dispatcher's: they send to Main only
  Tasks,       \* runnables, each dispatched at most once
  NoTask,
  ReadyFrom,   \* kinds of task of which any that completes makes run_until ready
  MaxTime      \* bound: the clock

ASSUME ThreadsAssumption ==
  /\ Main # Timer /\ {Main, Timer} \cap (Workers \cup External) = {}
  /\ Workers \cap External = {}
ASSUME TasksAssumption == NoTask \notin Tasks /\ NoTask # Main /\ MaxTime \in Nat
ASSUME FiniteAssumption == IsFiniteSet(Workers \cup External) /\ IsFiniteSet(Tasks)

Threads == Workers \cup External \cup {Main, Timer}
Forever == MaxTime + 1

VARIABLES
  place,     \* where a runnable is
  kind,      \* how it was dispatched
  due, seq,  \* TimerEntry, for runnables in the heap
  inflight,  \* IdleTracker::inflight
  holder,    \* the thread that holds the lock around it across steps
  pc, running,
  arg,       \* the runnable a thread is in the middle of dispatching
  deadline,  \* of the timer thread's wait
  mode,      \* what Main is running: run_until_idle, run_until, run_ready_main_tasks
  ran,       \* drain_main_queue's ran_any
  left,      \* iterations run_ready_main_tasks has left
  now,
  firing     \* history: timers seen running when has_due_timer last looked

tasks == <<place, kind, due, seq>>
main == <<mode, ran, left>>
vars == <<tasks, inflight, holder, pc, running, arg, deadline, main, now, firing>>

Places == {"new", "sending", "bg", "main", "heap", "running", "done", "cancelled"}
Kinds == {"none", "bg", "main", "external", "timer"}
Steps == {"pop", "run", "send", "notify", "decrement",          \* any thread
          "peek", "wait", "count",                              \* Timer
          "outside", "drain", "check", "poll", "polling",       \* Main
          "lock", "recheck", "test", "waiting", "woken", "ready"}

TypeOK ==
  /\ place \in [Tasks -> Places] /\ kind \in [Tasks -> Kinds]
  /\ due \in [Tasks -> 0..MaxTime] /\ seq \in [Tasks -> Nat]
  /\ inflight \in Nat /\ holder \in {Main, NoTask}
  /\ pc \in [Threads -> Steps]
  /\ running \in [Threads -> Tasks \cup {NoTask}] /\ arg \in [Threads -> Tasks \cup {NoTask}]
  /\ deadline \in 0..Forever /\ now \in 0..MaxTime
  /\ mode \in {"none", "idle", "until", "batch"} /\ ran \in BOOLEAN /\ left \in Nat
  /\ firing \subseteq Tasks

-----------------------------------------------------------------------------
In(p) == {t \in Tasks : place[t] = p}
Free == holder = NoTask                  \* the inflight lock

(* Mutant of TimerFree: the timer thread unlocks before it counts. *)
TimerAlwaysFree == TRUE

TimerFree == pc[Timer] # "count"         \* the timer state's lock
Go(u, step) == pc' = [pc EXCEPT ![u] = step]

(* Notifying the idle condvar, while thread u goes on at step. *)
NotifyIdle(u, step) ==
  pc' = [pc EXCEPT ![u] = step,
                   ![Main] = IF @ = "waiting" THEN "woken" ELSE IF u = Main THEN step ELSE @]

(* Code of the program: a task, Main between calls, an external thread. *)
InUserCode(u) == pc[u] \in {"run", "outside"}
UserCode(u) == IF running[u] = NoTask THEN "outside" ELSE "run"

Init ==
  /\ place = [t \in Tasks |-> "new"] /\ kind = [t \in Tasks |-> "none"]
  /\ due = [t \in Tasks |-> 0] /\ seq = [t \in Tasks |-> 0]
  /\ inflight = 0 /\ holder = NoTask
  /\ pc = [u \in Threads |-> CASE u \in Workers -> "pop" [] u = Timer -> "peek"
                               [] OTHER -> "outside"]
  /\ running = [u \in Threads |-> NoTask] /\ arg = [u \in Threads |-> NoTask]
  /\ deadline = Forever /\ now = 0
  /\ mode = "none" /\ ran = FALSE /\ left = 0
  /\ firing = {}

-----------------------------------------------------------------------------
(* PlatformDispatcher *)

(* dispatch counts the runnable ... *)
Dispatch(u, t) ==
  /\ InUserCode(u) /\ u \notin External
  /\ Free
  /\ place[t] = "new"
  /\ inflight' = inflight + 1
  /\ place' = [place EXCEPT ![t] = "sending"] /\ kind' = [kind EXCEPT ![t] = "bg"]
  /\ arg' = [arg EXCEPT ![u] = t]
  /\ Go(u, "send")
  /\ UNCHANGED <<due, seq, holder, running, deadline, main, now, firing>>

(* ... and sends it to the workers. *)
Send(u) ==
  /\ pc[u] = "send"
  /\ place' = [place EXCEPT ![arg[u]] = "bg"]
  /\ arg' = [arg EXCEPT ![u] = NoTask]
  /\ Go(u, UserCode(u))
  /\ UNCHANGED <<kind, due, seq, inflight, holder, running, deadline, main, now, firing>>

(* dispatch_on_main_thread sends first, and then notifies under the lock. *)
DispatchOnMain(u, t) ==
  /\ InUserCode(u)
  /\ place[t] = "new"
  /\ place' = [place EXCEPT ![t] = "main"]
  /\ kind' = [kind EXCEPT ![t] = IF u \in External THEN "external" ELSE "main"]
  /\ Go(u, "notify")
  /\ UNCHANGED <<due, seq, inflight, holder, running, arg, deadline, main, now, firing>>

(* Mutant of NotifyUnderLock: does not take the lock. *)
NotifyNoLock(u) ==
  /\ pc[u] = "notify"
  /\ NotifyIdle(u, UserCode(u))
  /\ UNCHANGED <<tasks, inflight, holder, running, arg, deadline, main, now, firing>>

NotifyUnderLock(u) ==
  /\ pc[u] = "notify"
  /\ Free
  /\ NotifyIdle(u, UserCode(u))
  /\ UNCHANGED <<tasks, inflight, holder, running, arg, deadline, main, now, firing>>

(* Mutant of DispatchAfter: does not notify the timer thread. *)
DispatchAfterQuietly(u, t, d) ==
  /\ InUserCode(u) /\ u \notin External
  /\ TimerFree
  /\ place[t] = "new"
  /\ place' = [place EXCEPT ![t] = "heap"] /\ kind' = [kind EXCEPT ![t] = "timer"]
  /\ due' = [due EXCEPT ![t] = now + d]
  /\ seq' = [seq EXCEPT ![t] = Cardinality({s \in Tasks : kind[s] = "timer"})]
  /\ UNCHANGED <<pc, inflight, holder, running, arg, deadline, main, now, firing>>

(* dispatch_after; a duration below the clock's resolution is due at once. *)
DispatchAfter(u, t, d) ==
  /\ InUserCode(u) /\ u \notin External
  /\ TimerFree
  /\ place[t] = "new"
  /\ place' = [place EXCEPT ![t] = "heap"] /\ kind' = [kind EXCEPT ![t] = "timer"]
  /\ due' = [due EXCEPT ![t] = now + d]
  /\ seq' = [seq EXCEPT ![t] = Cardinality({s \in Tasks : kind[s] = "timer"})]
  /\ pc' = [pc EXCEPT ![Timer] = IF @ = "wait" THEN "peek" ELSE @]
  /\ UNCHANGED <<inflight, holder, running, arg, deadline, main, now, firing>>

(* Mutant of Finish: run_until drains the queue before it asks ready(). *)
FinishDraining(u) ==
  /\ pc[u] = "run"
  /\ place' = [place EXCEPT ![running[u]] = "done"]
  /\ running' = [running EXCEPT ![u] = NoTask]
  /\ Go(u, IF u # Main THEN "decrement" ELSE "drain")
  /\ UNCHANGED <<kind, due, seq, inflight, holder, arg, deadline, main, now, firing>>

(* The thread's runnable returns. *)
Finish(u) ==
  /\ pc[u] = "run"
  /\ place' = [place EXCEPT ![running[u]] = "done"]
  /\ running' = [running EXCEPT ![u] = NoTask]
  /\ Go(u, IF u # Main THEN "decrement" ELSE IF mode = "until" THEN "ready" ELSE "drain")
  /\ UNCHANGED <<kind, due, seq, inflight, holder, arg, deadline, main, now, firing>>

(* Mutant of Decrement: looks for zero before the decrement. *)
DecrementLate(u) ==
  /\ pc[u] = "decrement"
  /\ Free
  /\ inflight' = inflight - 1
  /\ LET next == IF u = Timer THEN "peek" ELSE "pop" IN
       IF inflight = 0 THEN NotifyIdle(u, next) ELSE Go(u, next)
  /\ UNCHANGED <<tasks, holder, running, arg, deadline, main, now, firing>>

(* The guard of decrement_on_drop. *)
Decrement(u) ==
  /\ pc[u] = "decrement"
  /\ Free
  /\ inflight' = inflight - 1
  /\ LET next == IF u = Timer THEN "peek" ELSE "pop" IN
       IF inflight = 1 THEN NotifyIdle(u, next) ELSE Go(u, next)
  /\ UNCHANGED <<tasks, holder, running, arg, deadline, main, now, firing>>

(* A worker's pop. *)
Pop(u, t) ==
  /\ u \in Workers /\ pc[u] = "pop"
  /\ place[t] = "bg"
  /\ place' = [place EXCEPT ![t] = "running"]
  /\ running' = [running EXCEPT ![u] = t]
  /\ Go(u, "run")
  /\ UNCHANGED <<kind, due, seq, inflight, holder, arg, deadline, main, now, firing>>

-----------------------------------------------------------------------------
(* The timer thread *)

Before(s, t) == due[s] < due[t] \/ (due[s] = due[t] /\ seq[s] < seq[t])
First(t) == t \in In("heap") /\ \A s \in In("heap") \ {t} : Before(t, s)

(* Nothing in the heap: a wait for a notification ... *)
AwaitTimer ==
  /\ pc[Timer] = "peek"
  /\ In("heap") = {}
  /\ deadline' = Forever
  /\ Go(Timer, "wait")
  /\ UNCHANGED <<tasks, inflight, holder, running, arg, main, now, firing>>

(* ... or until the first timer is due ... *)
AwaitDue(t) ==
  /\ pc[Timer] = "peek"
  /\ First(t) /\ due[t] > now
  /\ deadline' = due[t]
  /\ Go(Timer, "wait")
  /\ UNCHANGED <<tasks, inflight, holder, running, arg, main, now, firing>>

TimedOut ==
  /\ pc[Timer] = "wait" /\ now >= deadline
  /\ Go(Timer, "peek")
  /\ UNCHANGED <<tasks, inflight, holder, running, arg, deadline, main, now, firing>>

(* ... which is then popped, and counted before the timer state is unlocked. *)
PopTimer(t) ==
  /\ pc[Timer] = "peek"
  /\ First(t) /\ due[t] <= now
  /\ place' = [place EXCEPT ![t] = "running"]
  /\ running' = [running EXCEPT ![Timer] = t]
  /\ Go(Timer, "count")
  /\ UNCHANGED <<kind, due, seq, inflight, holder, arg, deadline, main, now, firing>>

(* Mutant of Count: forgets to count the timer. *)
CountNot ==
  /\ pc[Timer] = "count"
  /\ Free
  /\ Go(Timer, "run")
  /\ UNCHANGED <<tasks, inflight, holder, running, arg, deadline, main, now, firing>>

Count ==
  /\ pc[Timer] = "count"
  /\ Free
  /\ inflight' = inflight + 1
  /\ Go(Timer, "run")
  /\ UNCHANGED <<tasks, holder, running, arg, deadline, main, now, firing>>

Tick ==
  /\ now < MaxTime
  /\ now' = now + 1
  /\ UNCHANGED <<tasks, inflight, holder, pc, running, arg, deadline, main, firing>>

-----------------------------------------------------------------------------
(* Main *)

Start(m, step) ==
  /\ pc[Main] = "outside"
  /\ mode' = m
  /\ Go(Main, step)
  /\ ran' = FALSE
  /\ UNCHANGED <<tasks, inflight, holder, running, arg, deadline, now, firing>>

RunUntilIdle == Start("idle", "drain") /\ UNCHANGED left
RunUntil == ReadyFrom # {} /\ Start("until", "ready") /\ UNCHANGED left
RunReadyMainTasks == Start("batch", "drain") /\ left' = Cardinality(In("main"))

(* cancel_pending_timers *)
CancelPendingTimers ==
  /\ pc[Main] = "outside"
  /\ TimerFree
  /\ In("heap") # {}
  /\ place' = [t \in Tasks |-> IF place[t] = "heap" THEN "cancelled" ELSE place[t]]
  /\ pc' = [pc EXCEPT ![Timer] = IF @ = "wait" THEN "peek" ELSE @]
  /\ UNCHANGED <<kind, due, seq, inflight, holder, running, arg, deadline, main, now, firing>>

(* try_pop of drain_main_queue, run_one_main_task and run_ready_main_tasks *)
PopMain(t) ==
  /\ pc[Main] = "drain"
  /\ mode = "batch" => left > 0
  /\ place[t] = "main"
  /\ place' = [place EXCEPT ![t] = "running"]
  /\ running' = [running EXCEPT ![Main] = t]
  /\ ran' = TRUE
  /\ left' = IF mode = "batch" THEN left - 1 ELSE left
  /\ Go(Main, "run")
  /\ UNCHANGED <<kind, due, seq, inflight, holder, arg, deadline, mode, now, firing>>

(* The queue is empty, or the batch done. *)
Drained ==
  /\ pc[Main] = "drain"
  /\ In("main") = {} \/ (mode = "batch" /\ left = 0)
  /\ Go(Main, CASE mode = "batch" -> "outside" [] mode = "until" -> "lock"
                [] OTHER -> IF ran THEN "drain" ELSE "check")
  /\ mode' = IF mode = "batch" THEN "none" ELSE mode
  /\ ran' = FALSE /\ left' = 0
  /\ UNCHANGED <<tasks, inflight, holder, running, arg, deadline, now, firing>>

(* has_due_timer *)
Check ==
  /\ pc[Main] = "check"
  /\ TimerFree
  /\ Go(Main, IF \E t \in In("heap") : due[t] <= now THEN "poll" ELSE "lock")
  /\ firing' = {t \in In("running") : kind[t] = "timer"}
  /\ UNCHANGED <<tasks, inflight, holder, running, arg, deadline, main, now>>

(* The wait_for of a millisecond, which a notification can only shorten. *)
Poll ==
  /\ pc[Main] = "poll" /\ Free
  /\ Go(Main, "polling")
  /\ UNCHANGED <<tasks, inflight, holder, running, arg, deadline, main, now, firing>>

Polled ==
  /\ pc[Main] = "polling" /\ Free
  /\ Go(Main, "drain")
  /\ UNCHANGED <<tasks, inflight, holder, running, arg, deadline, main, now, firing>>

Lock ==
  /\ pc[Main] = "lock" /\ Free
  /\ holder' = Main
  /\ Go(Main, "recheck")
  /\ UNCHANGED <<tasks, inflight, running, arg, deadline, main, now, firing>>

Again == IF mode = "until" THEN "ready" ELSE "drain"

(* main_queue_has_work, under the lock. *)
Recheck ==
  /\ pc[Main] = "recheck"
  /\ IF In("main") # {} THEN Go(Main, Again) /\ holder' = NoTask
     ELSE Go(Main, "test") /\ UNCHANGED holder
  /\ UNCHANGED <<tasks, inflight, running, arg, deadline, main, now, firing>>

(* run_until_idle returns, or waits; run_until waits. *)
Test ==
  /\ pc[Main] = "test"
  /\ holder' = NoTask
  /\ IF mode = "idle" /\ inflight = 0 THEN Go(Main, "outside") /\ mode' = "none"
     ELSE Go(Main, "waiting") /\ UNCHANGED mode
  /\ UNCHANGED <<tasks, inflight, running, arg, deadline, ran, left, now, firing>>

Woken ==
  /\ pc[Main] = "woken" /\ Free
  /\ Go(Main, Again)
  /\ UNCHANGED <<tasks, inflight, holder, running, arg, deadline, main, now, firing>>

Ready == \E t \in In("done") : kind[t] \in ReadyFrom

(* run_until's ready() *)
AskReady ==
  /\ pc[Main] = "ready"
  /\ IF Ready THEN Go(Main, "outside") /\ mode' = "none"
     ELSE Go(Main, "drain") /\ UNCHANGED mode
  /\ UNCHANGED <<tasks, inflight, holder, running, arg, deadline, ran, left, now, firing>>

MainStep ==
  \/ \E t \in Tasks : PopMain(t)
  \/ Drained \/ Check \/ Poll \/ Polled \/ Lock \/ Recheck \/ Test \/ Woken \/ AskReady

TimerStep ==
  \/ AwaitTimer \/ TimedOut \/ Count
  \/ \E t \in Tasks : AwaitDue(t) \/ PopTimer(t)

(* What a thread does on its own, once its user code has returned. *)
ThreadStep(u) ==
  \/ Send(u) \/ NotifyUnderLock(u) \/ Finish(u) \/ Decrement(u)
  \/ \E t \in Tasks : Pop(u, t)

Next ==
  \/ \E u \in Threads, t \in Tasks :
       \/ Dispatch(u, t) \/ DispatchOnMain(u, t)
       \/ \E d \in 0..(MaxTime - now) : DispatchAfter(u, t, d)
  \/ \E u \in Threads : ThreadStep(u)
  \/ TimerStep
  \/ Tick
  \/ RunUntilIdle \/ RunUntil \/ RunReadyMainTasks \/ CancelPendingTimers
  \/ MainStep

(* Runnables return, and the threads are scheduled. *)
Fairness ==
  /\ \A u \in Threads : WF_vars(ThreadStep(u))
  /\ WF_vars(TimerStep)
  /\ WF_vars(MainStep)

Spec == Init /\ [][Next]_vars
FairSpec == Spec /\ Fairness

-----------------------------------------------------------------------------
(* Properties *)

(* The in-flight count is the number of background runnables from before   *)
(* they are sent until after they have run, and of timers from before the  *)
(* timer state is unlocked until after they have run.                      *)
InflightCount ==
  inflight = Cardinality({t \in Tasks : kind[t] = "bg" /\ place[t] \in {"sending", "bg", "running"}})
           + Cardinality({u \in Threads : pc[u] = "decrement"})
           + (IF running[Timer] # NoTask /\ pc[Timer] # "count" THEN 1 ELSE 0)

(* When run_until_idle returns, no background runnable is queued or        *)
(* running, nothing is left in the main queue but what threads that are    *)
(* not counted sent, and the timers that were due when it looked have run. *)
IdleMeansIdle ==
  [][pc[Main] = "test" /\ pc'[Main] = "outside" =>
       /\ \A t \in Tasks : kind[t] = "bg" => place[t] \in {"done", "cancelled"}
       /\ \A t \in In("main") : kind[t] = "external"
       /\ firing \cap In("running") = {}]_vars

(* run_until_idle returns: no wakeup is lost between its checks and its    *)
(* wait, and the locks are never taken in a cycle.                         *)
IdleReturns == mode = "idle" ~> mode = "none"

(* A timer that is due fires, though the timer thread was waiting for a    *)
(* later one, or for none.                                                 *)
DueTimersFire ==
  \A t \in Tasks :
    (place[t] = "heap" /\ due[t] <= now) ~> place[t] \in {"done", "cancelled"}

(* A runnable sent to the main thread runs while Main is in run_until,     *)
(* also when it comes from a thread the in-flight count knows nothing of.  *)
MainTasksRun ==
  \A t \in Tasks : (place[t] = "main" /\ mode = "until") ~> place[t] = "done" \/ mode = "none"

(* "Drives main-thread work until `ready` returns a value": run_until      *)
(* returns once a main-thread runnable has made ready() return one.        *)
RunUntilReturns == (mode = "until" /\ Ready) ~> mode = "none"
=============================================================================
