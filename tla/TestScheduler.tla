---------------------------- MODULE TestScheduler ----------------------------
(***************************************************************************)
(* The scheduler of tests (crates/scheduler/src/test_scheduler.rs): one    *)
(* thread runs the runnables of all sessions and of the background in a    *)
(* random order, fires timers by moving a clock of its own, and blocks on  *)
(* a future by doing both until the future is ready.  User code runs in    *)
(* the runnables and in the polls of the future that the test is, and      *)
(* blocks, runs the scheduler and moves its clock in turn.                 *)
(***************************************************************************)
EXTENDS Naturals, Sequences, FiniteSets, FiniteSetsExt, SequencesExt

CONSTANTS
  Sessions,
  Background,   \* the session of a runnable, or a block, that has none
  Futures,
  MaxTasks,     \* bounds: runnables ever scheduled,
  MaxTicks,     \* ticks of a block with a timeout,
  MaxClock,     \* how far the clock goes,
  MaxOps        \* operations of user code and of other threads

ASSUME SessionsAssumption == Background \notin Sessions /\ Futures \cap (Sessions \cup {Background}) = {}
ASSUME BoundsAssumption == {MaxTasks, MaxTicks, MaxClock, MaxOps} \subseteq Nat

VARIABLES
  parking,     \* SchedulerState::allow_parking
  session,     \* of each runnable, numbered as they are scheduled
  runnables,   \* SchedulerState::runnables
  timers,      \* SchedulerState::timers: when, and what to wake
  elapsed,     \* what step has still to wake of the timers it has drained
  blocked,     \* SchedulerState::blocked_sessions
  unparked,    \* SchedulerState::unparked
  clock, ready,
  stack,       \* the calls in progress, outermost first
  waking,      \* wakes by other threads: not begun, or with unparked set
  robbed,      \* history: futures of which a nested block has taken the wake
  fuel,
  panicked,    \* "Parking forbidden."
  last         \* history: the latest runnable run of each session

vars == <<parking, session, runnables, timers, elapsed, blocked, unparked, clock, ready, stack,
          waking, robbed, fuel, panicked, last>>

Owners == Sessions \cup {Background}
Queue == <<session, runnables, unparked>>

Test == [at |-> "test"]
Task(s) == [at |-> "task", of |-> s]
Run == [at |-> "run"]
AdvanceTo(t) == [at |-> "advance", to |-> t]
Block(s, f, limited, n) ==
  [at |-> "block", of |-> s, fut |-> f, limited |-> limited, ticks |-> n,
   pc |-> "poll", stepped |-> "none", waker |-> FALSE, awoken |-> FALSE]

Top == stack[Len(stack)]
Under == SubSeq(stack, 1, Len(stack) - 1)
Push(call) == stack' = Append(stack, call)
Become(call) == stack' = Append(Under, call)
Pop == stack' = Under
Blocks == {i \in DOMAIN stack : stack[i].at = "block"}

(* The thread of the test is not in the middle of waking. *)
Free == ~panicked /\ elapsed = <<>>
At(at) == Free /\ Top.at = at
AtBlock(pc) == At("block") /\ Top.pc = pc

Init ==
  /\ parking \in BOOLEAN
  /\ session = <<>> /\ runnables = <<>>
  /\ timers = <<>> /\ elapsed = <<>>
  /\ blocked = <<>> /\ unparked = FALSE
  /\ clock = 0 /\ ready = {}
  /\ stack = <<Test>>
  /\ waking = {} /\ robbed = {}
  /\ fuel = MaxOps
  /\ panicked = FALSE
  /\ last = [s \in Owners |-> 0]

-----------------------------------------------------------------------------
(* Mutant of Schedule: anywhere, in the order of the session or not. *)
ScheduleAnywhere(s) ==
  /\ Len(session) < MaxTasks
  /\ session' = Append(session, s)
  /\ \E i \in 1..Len(runnables) + 1 : runnables' = InsertAt(runnables, i, Len(session) + 1)
  /\ unparked' = TRUE

(* schedule_local and schedule_background: at random, but not before a     *)
(* runnable of the same session.                                           *)
Schedule(s) ==
  /\ Len(session) < MaxTasks
  /\ session' = Append(session, s)
  /\ LET first == IF s = Background THEN 1
                  ELSE 1 + Max({0} \cup {i \in DOMAIN runnables : session[runnables[i]] = s}) IN
       \E i \in first..Len(runnables) + 1 :
         runnables' = InsertAt(runnables, i, Len(session) + 1)
  /\ unparked' = TRUE

(* TracingWaker::wake_by_ref, if a look at f has left a waker with it: it  *)
(* sets unparked, then awoken.                                             *)
Awoken(f, calls) ==
  [i \in DOMAIN calls |-> IF calls[i].at = "block" /\ calls[i].fut = f /\ calls[i].waker
                          THEN [calls[i] EXCEPT !.awoken = TRUE] ELSE calls[i]]
Waiting(f) == \E i \in Blocks : stack[i].fut = f /\ stack[i].waker

(* f completes on the thread of the test. *)
Wake(f) ==
  /\ ready' = ready \cup {f}
  /\ stack' = Awoken(f, stack)
  /\ unparked' = (unparked \/ Waiting(f))

-----------------------------------------------------------------------------
(* Operations of user code *)

OutOfTicks == Top.limited /\ Top.ticks = 0

(* Code of the future that a block polls runs before the look at what the  *)
(* future waits for, and after it.                                         *)
Polling == (AtBlock("poll") /\ ~OutOfTicks) \/ AtBlock("looked")

Operation ==
  /\ Free
  /\ Top.at \in {"test", "task"} \/ Polling
  /\ fuel > 0
  /\ fuel' = fuel - 1

(* Code of the test, that is not in a runnable. *)
InTest == Top.at # "task"

Spawn(s) ==
  /\ Operation
  /\ Schedule(s)
  /\ UNCHANGED <<parking, timers, elapsed, blocked, clock, ready, stack, waking, robbed, panicked, last>>

Complete(f) ==
  /\ Operation
  /\ f \notin ready
  /\ Wake(f)
  /\ UNCHANGED <<parking, session, runnables, timers, elapsed, blocked, clock, waking, robbed, panicked, last>>

(* A timer wakes a future that somebody blocks on, or a task, which is     *)
(* scheduled.  The timers are sorted, later ones after those of their time. *)
StartTimer(d, x) ==
  /\ Operation
  /\ clock + d <= MaxClock
  /\ LET i == 1 + Cardinality({j \in DOMAIN timers : timers[j].when <= clock + d}) IN
       timers' = InsertAt(timers, i, [when |-> clock + d, wakes |-> x])
  /\ UNCHANGED <<parking, Queue, elapsed, blocked, clock, ready, stack, waking, robbed, panicked, last>>

(* block: by the test, in no session or one of its own, or by a runnable   *)
(* of a session, in that, on a future that is nobody else's.  A block with *)
(* a timeout has that many ticks.                                          *)
BlockOn(s, f, limited, n) ==
  /\ Operation
  /\ Top.at = "task" => Top.of \in Sessions /\ s = Top.of
  /\ limited \/ n = 0
  /\ \A i \in Blocks : stack[i].fut # f
  /\ Push(Block(s, f, limited, n))
  /\ blocked' = IF s = Background THEN blocked ELSE Append(blocked, s)
  /\ UNCHANGED <<parking, Queue, timers, elapsed, clock, ready, waking, robbed, panicked, last>>

RunUntilParked ==
  /\ Operation
  /\ InTest
  /\ Push(Run)
  /\ UNCHANGED <<parking, Queue, timers, elapsed, blocked, clock, ready, waking, robbed, panicked, last>>

AdvanceClock(d) ==
  /\ Operation
  /\ InTest
  /\ clock + d <= MaxClock
  /\ stack' = stack \o <<AdvanceTo(clock + d), Run>>
  /\ UNCHANGED <<parking, Queue, timers, elapsed, blocked, clock, ready, waking, robbed, panicked, last>>

Return ==
  /\ At("task")
  /\ Pop
  /\ UNCHANGED <<parking, Queue, timers, elapsed, blocked, clock, ready, waking, robbed, fuel, panicked, last>>

-----------------------------------------------------------------------------
(* step_filtered *)

Expired == {i \in DOMAIN timers : timers[i].when <= clock}

(* Mutant of Candidates: only the innermost blocked session waits. *)
CandidatesOfOthers(backgroundOnly) ==
  {i \in DOMAIN runnables :
     LET s == session[runnables[i]] IN
       \/ s = Background
       \/ /\ ~backgroundOnly
          /\ blocked = <<>> \/ s # blocked[Len(blocked)]
          /\ \A j \in 1..i - 1 : session[runnables[j]] # s}

(* The runnables of the background, and the first of each session that is  *)
(* not blocked.                                                            *)
Candidates(backgroundOnly) ==
  {i \in DOMAIN runnables :
     LET s == session[runnables[i]] IN
       \/ s = Background
       \/ /\ ~backgroundOnly
          /\ s \notin ToSet(blocked)
          /\ \A j \in 1..i - 1 : session[runnables[j]] # s}

(* A step by the call on top, which becomes call: expired timers are       *)
(* drained, or a runnable is run.                                          *)
StepTimers(call) ==
  /\ Expired # {}
  /\ elapsed' = [i \in 1..Max(Expired) |-> timers[i].wakes]
  /\ timers' = SubSeq(timers, Max(Expired) + 1, Len(timers))
  /\ Become(call)
  /\ UNCHANGED <<runnables, last>>

StepRun(call, backgroundOnly) ==
  /\ Expired = {}
  /\ \E i \in Candidates(backgroundOnly) :
       LET s == session[runnables[i]] IN
         /\ runnables' = RemoveAt(runnables, i)
         /\ last' = [last EXCEPT ![s] = runnables[i]]
         /\ stack' = Append(Append(Under, call), Task(s))
  /\ UNCHANGED <<timers, elapsed>>

Step(call, backgroundOnly) == StepTimers(call) \/ StepRun(call, backgroundOnly)
NoStep(backgroundOnly) == Expired = {} /\ Candidates(backgroundOnly) = {}

(* The next of the drained timers is dropped, which wakes. *)
WakeElapsed ==
  /\ ~panicked /\ elapsed # <<>>
  /\ elapsed' = Tail(elapsed)
  /\ LET x == Head(elapsed) IN
       IF x \in Futures THEN Wake(x) /\ UNCHANGED <<session, runnables>>
       ELSE IF Len(session) < MaxTasks THEN Schedule(x) /\ UNCHANGED <<ready, stack>>
       ELSE UNCHANGED <<Queue, ready, stack>>
  /\ UNCHANGED <<parking, timers, blocked, clock, waking, robbed, fuel, panicked, last>>

stepUnchanged == <<parking, session, unparked, blocked, clock, ready, waking, robbed, panicked>>

(* tick and tick_background_only *)
Tick(backgroundOnly) ==
  /\ Operation
  /\ InTest
  /\ Step(Top, backgroundOnly)
  /\ UNCHANGED stepUnchanged

RunStep ==
  /\ At("run")
  /\ Step(Top, FALSE)
  /\ UNCHANGED <<stepUnchanged, fuel>>

EndRun ==
  /\ At("run") /\ NoStep(FALSE)
  /\ Pop
  /\ UNCHANGED <<parking, Queue, timers, elapsed, blocked, clock, ready, waking, robbed, fuel, panicked, last>>

Later(t) == Max({clock, t})

(* advance_clock, after it has run all it could: to the next timer, or to  *)
(* the end.                                                                *)
Advance ==
  /\ At("advance")
  /\ IF timers # <<>> /\ timers[1].when <= Top.to
     THEN clock' = Later(timers[1].when) /\ Push(Run)
     ELSE clock' = Later(Top.to) /\ Pop
  /\ UNCHANGED <<parking, Queue, timers, elapsed, blocked, ready, waking, robbed, fuel, panicked, last>>

-----------------------------------------------------------------------------
(* block *)

Leave ==
  /\ Pop
  /\ blocked' = IF Top.of = Background THEN blocked ELSE Front(blocked)

(* The ticks are used up, or a poll looks at what the future waits for and *)
(* finds it, or leaves the waker with it;                                  *)
Poll ==
  /\ AtBlock("poll")
  /\ IF OutOfTicks \/ Top.fut \in ready
     THEN Leave
     ELSE Become([Top EXCEPT !.pc = "looked", !.waker = TRUE]) /\ UNCHANGED blocked
  /\ UNCHANGED <<parking, Queue, timers, elapsed, clock, ready, waking, robbed, fuel, panicked, last>>

(* and returns some time later. *)
Pending ==
  /\ AtBlock("looked")
  /\ Become([Top EXCEPT !.pc = "step", !.stepped = "none"])
  /\ UNCHANGED <<parking, Queue, timers, elapsed, blocked, clock, ready, waking, robbed, fuel, panicked, last>>

(* The dice say to step, and there is something to do; *)
BlockStep ==
  /\ AtBlock("step")
  /\ Step([Top EXCEPT !.stepped = "some"], FALSE)
  /\ UNCHANGED <<stepUnchanged, fuel>>

(* or there is not; or they say to stop. *)
EndSteps ==
  /\ AtBlock("step")
  /\ \/ NoStep(FALSE) /\ Become([Top EXCEPT !.pc = "check",
                                 !.stepped = IF @ = "none" THEN "nothing" ELSE @])
     \/ Become([Top EXCEPT !.pc = "check"])
  /\ UNCHANGED <<parking, Queue, timers, elapsed, blocked, clock, ready, waking, robbed, fuel, panicked, last>>

NextTick == [Top EXCEPT !.pc = "poll", !.awoken = FALSE,
                        !.ticks = IF Top.limited THEN @ - 1 ELSE @]

(* Mutants of Busy: not to have stepped is to have found nothing; a wake   *)
(* since the look is not noticed.                                          *)
BusyIfStepped == Top.stepped = "some" \/ Top.awoken
BusyUnlessIdle == Top.stepped # "nothing"

(* It did not look for something to do, or did something, or was woken.    *)
Busy == Top.stepped # "nothing" \/ Top.awoken

(* When there was nothing to do and no wake, on to the next timer, or park *)
(* if that is allowed, or give up: at once, if there is a timeout.         *)
Check ==
  /\ AtBlock("check")
  /\ IF Busy
     THEN Become(NextTick) /\ UNCHANGED <<clock, blocked, panicked>>
     ELSE IF ~parking /\ timers # <<>>
     THEN clock' = Later(timers[1].when) /\ Become(NextTick) /\ UNCHANGED <<blocked, panicked>>
     ELSE IF parking
     THEN Become([NextTick EXCEPT !.pc = "park"]) /\ UNCHANGED <<clock, blocked, panicked>>
     ELSE IF Top.limited THEN Leave /\ UNCHANGED <<clock, panicked>>
     ELSE panicked' = TRUE /\ UNCHANGED <<clock, blocked, stack>>
  /\ UNCHANGED <<parking, Queue, timers, elapsed, ready, waking, robbed, fuel, last>>

(* park: an interval of real time is over; *)
ParkTime ==
  /\ AtBlock("park") /\ ~unparked /\ Expired = {}
  /\ clock < MaxClock
  /\ clock' = clock + 1
  /\ UNCHANGED <<parking, Queue, timers, elapsed, blocked, ready, stack, waking, robbed, fuel, panicked, last>>

(* Futures that other threads are waking, and have set unparked for, while *)
(* the polls that have looked at them are not over.                        *)
HalfWoken == {f \in Futures : /\ <<f, "awake">> \in waking
                              /\ \E i \in Blocks : stack[i].fut = f /\ stack[i].pc = "looked"}

(* a timer has expired, or else somebody has unparked the thread, maybe to *)
(* wake another block than the one that takes the flag;                    *)
Unpark ==
  /\ AtBlock("park")
  /\ Expired # {} \/ unparked
  /\ unparked' = (unparked /\ Expired # {})
  /\ robbed' = IF Expired # {} THEN robbed ELSE robbed \cup HalfWoken
  /\ Become([Top EXCEPT !.pc = "poll"])
  /\ UNCHANGED <<parking, session, runnables, timers, elapsed, blocked, clock, ready, waking, fuel, panicked, last>>

(* or the deadline is over. *)
ParkDeadline ==
  /\ AtBlock("park") /\ Top.limited
  /\ Leave
  /\ UNCHANGED <<parking, Queue, timers, elapsed, clock, ready, waking, robbed, fuel, panicked, last>>

-----------------------------------------------------------------------------
(* Other threads, which only a test that allows parking may have *)

Elsewhere == parking /\ ~panicked /\ fuel > 0 /\ fuel' = fuel - 1

SpawnElsewhere(s) ==
  /\ Elsewhere
  /\ Schedule(s)
  /\ UNCHANGED <<parking, timers, elapsed, blocked, clock, ready, stack, waking, robbed, panicked, last>>

(* A future completes, and its waker, if a poll has left one, is called.   *)
CompleteElsewhere(f) ==
  /\ Elsewhere
  /\ f \notin ready
  /\ ready' = ready \cup {f}
  /\ waking' = IF Waiting(f) THEN waking \cup {<<f, "unpark">>} ELSE waking
  /\ UNCHANGED <<parking, Queue, timers, elapsed, blocked, clock, stack, robbed, panicked, last>>

(* Mutant of SetUnparked: does not set it. *)
SetNothing(f) ==
  /\ <<f, "unpark">> \in waking
  /\ waking' = (waking \ {<<f, "unpark">>}) \cup {<<f, "awake">>}
  /\ UNCHANGED <<parking, Queue, timers, elapsed, blocked, clock, ready, stack, robbed, fuel, panicked, last>>

SetUnparked(f) ==
  /\ <<f, "unpark">> \in waking
  /\ unparked' = TRUE
  /\ waking' = (waking \ {<<f, "unpark">>}) \cup {<<f, "awake">>}
  /\ UNCHANGED <<parking, session, runnables, timers, elapsed, blocked, clock, ready, stack, robbed, fuel, panicked, last>>

SetAwoken(f) ==
  /\ <<f, "awake">> \in waking
  /\ stack' = Awoken(f, stack)
  /\ waking' = waking \ {<<f, "awake">>}
  /\ UNCHANGED <<parking, Queue, timers, elapsed, blocked, clock, ready, robbed, fuel, panicked, last>>

-----------------------------------------------------------------------------
UserCode ==
  \/ \E s \in Owners : Spawn(s)
  \/ \E f \in Futures : Complete(f)
  \/ \E d \in 1..MaxClock, x \in Futures \cup Owners : StartTimer(d, x)
  \/ \E s \in Owners, f \in Futures, limited \in BOOLEAN, n \in 0..MaxTicks : BlockOn(s, f, limited, n)
  \/ RunUntilParked
  \/ \E d \in 1..MaxClock : AdvanceClock(d)
  \/ \E backgroundOnly \in BOOLEAN : Tick(backgroundOnly)

Machinery ==
  \/ WakeElapsed \/ Return
  \/ RunStep \/ EndRun \/ Advance
  \/ Poll \/ Pending \/ BlockStep \/ EndSteps \/ Check \/ Unpark

Others ==
  \/ \E s \in Owners : SpawnElsewhere(s)
  \/ \E f \in Futures : CompleteElsewhere(f) \/ SetUnparked(f) \/ SetAwoken(f)

Next == UserCode \/ Machinery \/ ParkTime \/ ParkDeadline \/ Others

Spec == Init /\ [][Next]_vars

-----------------------------------------------------------------------------
(* Properties *)

TypeOK ==
  /\ parking \in BOOLEAN /\ unparked \in BOOLEAN /\ panicked \in BOOLEAN
  /\ session \in Seq(Owners) /\ Len(session) <= MaxTasks
  /\ runnables \in Seq(1..Len(session)) /\ IsInjective(runnables)
  /\ \A i \in DOMAIN timers : /\ timers[i].when \in 0..MaxClock
                              /\ i > 1 => timers[i - 1].when <= timers[i].when
  /\ elapsed \in Seq(Futures \cup Owners)
  /\ clock \in 0..MaxClock /\ ready \subseteq Futures /\ fuel \in 0..MaxOps
  /\ waking \subseteq Futures \X {"unpark", "awake"} /\ robbed \subseteq Futures
  /\ stack[1] = Test
  /\ last \in [Owners -> 0..Len(session)]

(* "Runnables scheduled here run in order": whatever is still queued for a *)
(* session was scheduled after all of it that has run.                     *)
SessionOrder ==
  \A i \in DOMAIN runnables :
    LET s == session[runnables[i]] IN s # Background => last[s] < runnables[i]

(* While a session is blocked, none of its runnables runs. *)
BlockedSessionsWait ==
  \A i \in Blocks : stack[i].of # Background =>
    \A j \in i + 1..Len(stack) : stack[j].at = "task" => stack[j].of # stack[i].of

(* A block gives up, and tells the test that parking is forbidden or that  *)
(* the time is over, only if nothing can ever go on: no timer is set, only *)
(* sessions that are blocked have runnables, and the future is not ready.  *)
GivesUp == AtBlock("check") /\ (panicked' \/ Len(stack') < Len(stack))
NoFalseAlarm ==
  [][GivesUp => /\ timers = <<>>
                /\ \A i \in DOMAIN runnables : session[runnables[i]] \in {stack[j].of : j \in Blocks}
                /\ Top.fut \notin ready]_vars

(* Without parking, time passes only while there is nothing to do at the   *)
(* present time.                                                           *)
TimePassesWhenIdle ==
  [][~parking /\ clock' # clock => Expired = {} /\ Candidates(FALSE) = {}]_vars

(* A parked thread whose future is ready has been unparked, or will be,    *)
(* unless a block within the poll that has looked at the future has taken  *)
(* the flag while the waker had yet to say which block it woke.            *)
ParkedIsWoken ==
  AtBlock("park") /\ Top.fut \in ready =>
    unparked \/ <<Top.fut, "unpark">> \in waking \/ Top.fut \in robbed
=============================================================================
