# A TLA+ model of GPUI

GPUI is a GPU-accelerated UI framework. This directory models, checks and
proves properties of the part of it that every program built on it rests on:
the ownership of entities, the effect cycle that delivers notifications and
events, the life of windows and how they are invalidated and drawn, the dispatch of
keystrokes, and the queues, threads and event loops that run its tasks, in production
and in tests. Paths are relative to
`src/crates/gpui/src/` unless they start with `crates/`.

Contents: [inventory](#inventory) · [modules](#modules) · [runs](#runs) ·
[proofs](#proofs) · [disagreements](#disagreements-with-the-documentation) ·
[not modelled](#what-is-not-modelled) · [plan](#plan)

## Inventory

| Component | State | Operations | Talks to |
|---|---|---|---|
| Entity map, `app/entity_map.rs` | boxes of entities; behind one `RwLock`, a count per entity and the ids whose last handle is gone | reserve, insert, lease, end_lease, read, clone, drop, upgrade, take_dropped | App (main thread); handles on any thread |
| Subscriber set, `subscription.rs` | per emitter a map of subscribers, absent, present or *taken* by a running retain; per subscriber an active and a dropped cell | insert, activate, drop, detach, retain, remove | callbacks, which re-enter it |
| Effect cycle, `app.rs`, `app/context.rs` | pending effects and notifications, nesting of updates, whether a flush runs | update, update_entity, notify, emit, defer, observe, subscribe, observe_release, flush_effects | entity map, subscriber sets, windows |
| Window drawing, `window.rs`, `view.rs`, `app.rs` | per window the rendered frame, a dirty flag and dirty views; tracked entities and invalidators; one set of accessed entities | notify, refresh, on_next_frame, draw, request of a frame, open, remove | effect cycle, entity map, platform |
| Window slots and shutdown, `app.rs:1808`, `951` | a slot per window, empty while a call has the window; handles, close observers, quit mode | update_window, open_window, remove_window, defer, App::new, shutdown | effect cycle, platform |
| Key dispatch, `window.rs`, `key_dispatch.rs`, `keymap.rs` | the keymap, pending input with its focus and timer, observers of it | key down, dispatch_keystroke, focus, blur, bind_keys, the timer | window, effect cycle |
| Priority queue, `queue.rs` | three deques behind a mutex, a condvar, counts of senders and receivers | send, spin_send, pop, try_pop, spin_try_pop, clone, drop | dispatchers' threads |
| Threaded dispatcher, `platform/threaded_dispatcher.rs` | worker queue, main queue, timer heap, in-flight count | dispatch, dispatch_on_main_thread, dispatch_after, run_until_idle, run_until, run_ready_main_tasks, cancel_pending_timers | priority queue, executors |
| Platform dispatchers, `crates/gpui_{web,linux,windows}` | a priority queue for the main thread, a flag and a way to wake its event loop, a pool | dispatch, dispatch_on_main_thread, dispatch_after, dispatch_on_main_thread_when_idle | priority queue, event loops, executors |
| Test scheduler, `crates/scheduler/src/test_scheduler.rs` | runnables of sessions and background, timers, a clock, blocked sessions | schedule, step, run, advance_clock, block, park | futures of tests |
| Executors, `executor.rs`, `platform_scheduler.rs`, `crates/scheduler` | tasks and parked threads | spawn, block, timer | dispatchers |
| Focus order, elements, layout, text, scene, renderers, the rest of the platform backends | per frame | | windows |


What is hard about them:

- *Concurrency.* Strong handles are cloned, dropped and upgraded on any thread
  while the main thread releases entities. Workers, a timer thread, the main
  thread and threads the dispatcher does not know race around two locks and two
  condvars. Each platform wakes its main thread by a protocol of its own, two of them
  without locks.
- *Re-entrancy.* Everything the App calls is user code that may update, notify,
  subscribe, unsubscribe and drop handles, in the middle of a retain, of a
  release or of a flush; open, update and close windows in the middle of another's; move
  the focus and dispatch keystrokes in the middle of a dispatch; block in a test's block.
- *Order.* Effects are queued and observers are activated by a queued effect, so
  who hears what depends on where in the queue things are.
- *Caching.* A cached view is reused on the strength of a chain of bookkeeping: who
  accessed what in which draw, which windows that makes a notify reach, which views
  and ancestors that makes dirty. A break anywhere leaves stale pixels and no error.
- *Termination.* "Idle" and "quiescent" must be neither early nor never.

What makes each correct is stated in [runs](#runs); the hazards, line by line,
are in `PROJECT.json`.

## Modules

`SubscriberTable` is used by `SubscriberSet` and `AppEffects`; `Keymap` by `KeyDispatch`;
`Foreground` joins the three platforms' modules, which share the state of `ForegroundThreads`, and
implements `PlatformDispatcher`; the others stand alone. `MC…` modules add symmetry sets and definitions for TLC, `…Proofs` modules the proofs.
A definition called a *mutant* is not part of the model: it is a plausible bug in
the operation named in its comment, kept to show that a property can fail.

### `EntityMap` — `app/entity_map.rs`, `util.rs`

| Variable | Code |
|---|---|
| `slot`, `count` | `EntityRefCounts::counts`; a SlotMap key is never reused, so a removed key stays removed |
| `droppedIds` | `dropped_entity_ids` |
| `box`, `borrowed` | `EntityMap::entities`; the handle a `Lease` was taken through, which the borrow checker keeps alive |
| `target`, `owner` | the strong handles alive and the threads that own them |
| `pc`, `arg`, `loaded` | where a thread is inside `AnyEntity::drop` or `upgrade` |

An action is one critical section of the `RwLock`, split where others can act
inside: `Drop` decrements under the upgradable lock; `UpgradeLock` sets the
writer bit; `PushDropped` runs once the readers have left. `Load` and
`Exchange`/`Retry` are the compare-exchange loop of `atomic_incr_if_not_zero`
under the shared lock; a spurious failure is a stutter. The release build is
modelled: the leak detector of test builds takes the lock again around these
operations and has no influence on the counts. Leasing an entity twice panics by
contract and is not a step.

### `SubscriberTable`, `SubscriberSet` — `subscription.rs`

The table is a value with operators; `SubscriberSet` adds the calls in progress as
a stack, because a callback may start another retain or remove. `VisitRetained`,
`ReturnRetained` and `EndRetain` are the loop of `retain` and the put-back of what
it kept; `BeginRemove` to `EndRemove` is the caller of `remove` iterating over the
callbacks it was handed (`for release_callback in …` at `app.rs:1687`). The order
of ids is the order of a `BTreeMap<usize, _>`.

### `AppEffects` — `app.rs`, `app/context.rs`, `app/async_context.rs`

The App runs on one thread, so its state is a stack of calls in progress: updates,
leases, the flush, the release of dropped entities, retains, and callbacks that
were given the App. User code is any sequence of `UpdateEntity`, `Notify`, `Emit`,
`Defer`, `Subscribe`, `DropSubscription`, `Detach` and `DropHandle`, of at most
`MaxOps` operations; between updates, an async task may drop a handle it keeps,
subscribe, or begin an update by updating an entity.

| Variable | Code |
|---|---|
| `status` | an entity's count and box: live, dead (in `dropped_entity_ids`), releasing (taken), gone |
| `handles` | strong handles in the fields of an entity, or kept outside |
| `subs`, `table`, `active`, `dropped`, `held` | `observers`, `event_listeners`, `release_listeners` and the Subscriptions alive |
| `pendingUpdates`, `flushing`, `effects`, `notifs` | `pending_updates`, `flushing_effects`, `pending_effects`, `pending_notifications` |
| `owed`, `due`, `ran`, `late` | history for the properties |

Assumptions: all entities exist from the start and their creation has been
flushed; events have one type; no window draws an entity, so `notify` always
queues an effect; a subscription made through a `Context` is kept in a field of
the entity whose context it is, so it is dropped with it, or detached. The counts
are atomic here, as `EntityMap` shows they can be taken to be on one thread.

### `PriorityQueue` — `queue.rs`

`queue` holds the three deques, with items numbered as they are pushed.
`Send` is the check of `receiver_count`, made without the mutex; `Push` is the
critical section with its `notify_one`: an item may be pushed after the last receiver is gone
(`queue.rs:35`) and stays queued. A receiver that is notified is `"woken"`:
it has left the condvar but not got the mutex, and others may pop first. parking_lot
condvars do not wake spuriously. `Mass`, `MayFail` and `Rolls` are the loaded
die: a flip may fail unless its odds are one, so what `Pop` may take is what the
code may take with positive probability.

### `ThreadedDispatcher` — `platform/threaded_dispatcher.rs`

`place` is where a runnable is; a task runs once and dispatches others while it
runs. Main holds the in-flight lock from `Lock` to `Test` (`holder`), the timer
thread holds the timer state while it waits for that lock (`pc[Timer] = "count"`,
`TimerFree`); other critical sections are single actions. `External` threads send
to the main thread only, unknown to the in-flight count (kind `"external"`). The two queues are sets:
their order and blocking are `PriorityQueue`'s. `cancel_pending_timers` marks the
timers cancelled: dropping their runnables may wake tasks, which are dispatched as
any other.

### `WindowDraw` — `window.rs`, `view.rs`, `app.rs`

A frame is the tree of views it shows; a draw builds the next one. `Render` renders
a view, which may embed any views not yet shown, plain or cached: plain ones render
at once (`request_layout`), cached ones are looked at after them (`prepaint`), and
are reused (`Reuse`) or rendered in a block of their own (`Rerender` to
`Rerendered`), inside which no cache serves. `Rerender` is always possible: the
bounds, content mask or text style may differ.

| Variable | Code |
|---|---|
| `dirty`, `views` | `WindowInvalidatorInner::dirty`, `dirty_views` |
| `refreshing`, `callbacks` | `Window::refreshing`, `next_frame_callbacks` |
| `wake` | a request of a frame is pending at the platform (`raf_id` on the web) |
| `frame` | `rendered_frame`: parents in the dispatch tree, element states of cached views and the entities kept with them |
| `tracked`, `invalidators`, `accessed` | `tracked_entities`, `window_invalidators_by_entity`, `accessed_entities` |
| `draws` | calls of `Window::draw` in progress, with `dirty_views` of the window (`marked`) and `next_frame` |
| `serving` | how far the closure of `on_request_frame` is |
| `stale` | history: views on screen that were notified since they rendered |

User code notifies, refreshes, opens and closes windows between frames, in callbacks
and in draws. Assumptions: a view is shown at most once in a window; entities live
throughout; the platform requests frames only when woken, as the web does (others
request more). Forced renders (device loss, deferred requests) are left out. The
refresh effect is taken as done when it is queued.

### `WindowLifecycle` — `app.rs`, `window.rs`

The calls in progress form a stack: updates of the App, of a window, the building of a window's root
view and its first draw, retains over close observers and observers of new entities, the flush, shutdown
and callbacks. User code, on top, is any sequence of at most `MaxOps` operations.

| Variable | Code |
|---|---|
| `slot` | `App::windows`: a key is new, empty while a call has the window, filled, or gone |
| `handles`, `removed` | `window_handles`, `Window::removed` |
| `effects`, `pendingUpdates`, `flushing` | the effect queue, of deferred closures and created entities only |
| `quit`, `panicked` | the platform was asked to quit; `expect` failed |
| `heard`, `closed`, `unheard` | history |

`Enter` and `Trail` are `update_window_id` and its `trail`, `Open`, `Built` and `Drawn` are `open_window`,
which keeps the window on its own stack frame and puts it in the slot at the end. A retain inside a
retain of the same set finds it taken (see `SubscriberSet`), so it has nothing to visit: what it should have
announced is `unheard`. Only code that was handed the window, and no callback in between, can
remove it (`InHand`). `Defer` is `Window::defer`, by code that was handed the window, and `App::defer`, by
any (`NoWindow`), also outside an update: what quit observers defer is still queued when `Shutdown`, which the
platform calls between updates, begins its flush. That flush is not part of an update, so an update in one of
its callbacks flushes within it. Assumptions: the platform gives every window it is asked for; quitting is only
noted; observers stay subscribed.

### `Keymap`, `KeyDispatch` — `keymap.rs`, `key_dispatch.rs`, `window.rs`

`Keymap` is the matching, as functions: a binding has its keystrokes, the depth at which its predicate
matches the contexts of each focus, what it does and its meta. `DispatchKey`, `Flush` and
`ReplayLength` are `dispatch_key`, `flush_dispatch` and `replay_prefix`, the recursion as functions on
how much has been replayed.

`KeyDispatch` is a stack of dispatches. `KeyDown` begins one, `Match` takes the pending input and matches,
`Replay` acts for each replay, then `Hold` stores what pends, or `Act` and `EndAct` run the bindings and
listeners (listeners alone where text input is preferred to the bindings, which is the same to the
properties); between these steps, in an interceptor, a replayed action or an action, user code may move the
focus, blur, change the keymap or dispatch another keystroke. `TimeOut` is the closure of the timer. A
keystroke has a number, so that the history can say which acted (`acted`), which were used up as the
beginning of a binding, intercepted or forgotten with a focus (`gone`), which were dispatched by the
program (`simulated`) and which pended with a timeout (`timed`). An intercepted keystroke still reaches
listeners; it counts as `gone`. The draw that precedes a dispatch is left to `WindowDraw`.

### `PlatformDispatcher`, `ForegroundThreads`, `WebForeground`, `LinuxForeground`, `WindowsForeground`, `Foreground`

`PlatformDispatcher` is what `platform.rs:1017` promises the executors: a runnable that is handed over runs
once, elsewhere than on the main thread only if it was not for it. The three platforms share the state of
`ForegroundThreads`: where each runnable is, where each thread is in a dispatch, the step of the main thread
in its loop, a flag and a bell.

| | Web | Linux | Windows |
|---|---|---|---|
| queue | `MainThreadMailbox` | calloop source | `main_receiver` |
| `flag` | `signal` | | `wake_posted` |
| `bell` | the promise of `Atomics.waitAsync` | the ping | messages posted |
| sender | send, `Store`, `Notify` | send, `Ping` | send, `Swap`, `PostMessage` |
| main thread | `Rearm`, `DrainItem`, `Drained`, `Arm`, `Resume` | `Poll`, `SourceItem`, `SourceEnd`, `RunIdle`, `IdlesEnd` | `Message`, `PopTask`, `TasksDone`, `Clear`, `PopLate`, `SetFlag`, `AgainDone`, `OverBudget`, `Repost`, `SizeMoveTimer` |

Each access of the flag, the bell or the queue is an action of its own; what runs on a thread may dispatch
more (`pc = "run"`). `Callback` is any event the platform calls the program for, `Others` are
threads of the program. On Linux `x11` stands for both display servers, which make runnables idle callbacks of
the loop; the headless client runs them in the source. Assumptions: sequentially consistent atomics (the code
uses `Atomics` on the web and acquire-release on one word on Windows); system calls do not fail;
no nested event loop but that of sizing a window. The macOS dispatcher hands everything to libdispatch.

### `TestScheduler` — `crates/scheduler/src/test_scheduler.rs`

A stack of calls: the future that the test is, runs, advances of the clock, blocks and the runnables they run. A
step drains the expired timers (`StepTimers`, then `WakeElapsed` one by one) or runs a candidate
(`StepRun`). `block` is `Poll`, which looks at what the future waits for and leaves its `waker` there, `Pending`,
any number of `BlockStep`, `EndSteps` with what the dice and the step said
(`stepped`), and `Check`, which goes on, moves the clock, parks, gives up or panics. Code of the future runs
before the look and, as in a join, after it (`Polling`), and may block in turn. With
parking allowed, other threads schedule runnables and complete futures, and a wake is two steps (`SetUnparked`,
`SetAwoken`), between which the test may park; `robbed` is the history of nested blocks that took `unparked`
between the two. Randomness is a choice; a task is only its session, and a
waker that runs in a task schedules it. No two blocks in progress are on one future. `parking` is chosen once; the fixed order of `randomize_order =
false`, the hard limit of 15 seconds, `drain_tasks` and the end of a test are left out.

## Runs

| Run | Instance | Shows |
|---|---|---|
| `entity_map` | 2 threads, 1 entity, 3 handles | counts exact, no live entity released, dead ones recorded once, not resurrected, and released |
| `subscriber_set` | 2 emitters, 3 subscribers, calls 2 deep | nobody lost, doubled, or called by retain after being dropped; no key left taken |
| `app_effects` | 2 entities, 2 subscriptions, 4 operations | seven properties of the flush |
| `priority_queue` | 2 senders, 3 receivers, 4 items | no lost wakeup, no item lost, doubled or overtaken, the die lands |
| `threaded_dispatcher` | 2 workers, 1 external thread, 2 runnables, 1 tick | the in-flight count; idle means idle; run_until_idle and run_until return, due timers fire, runnables sent to the main thread run |
| `foreground` | 1 pool thread, 1 other, 3 runnables, 4 platforms | no lost wakeup; each dispatcher implements `PlatformDispatcher`, its liveness included |
| `window_draw` | 1 window, 3 views | notified views on screen are redrawn; the maps agree; no demand is stranded; a dirty window is drawn |
| `window_draw_reads` | 1 window, 2 views that read each other | **violation**: a cached view that was read before it rendered is forgotten |
| `window_lifecycle` | 2 windows, 1 observer of each kind, 6 operations | windows are in one place, close when asked to, are announced; the App quits with its last |
| `window_created` | the same, fewer operations | **violation**: the flush panics on an entity created in a window that closed |
| `key_dispatch` | 2 keys, 2 focuses, 3 keymaps, short programs | keystrokes act once and in order; observers and timer are up to date |
| `test_scheduler` | 2 sessions, 2 futures, 3 runnables, 2 ticks of the clock, 4 operations | order within sessions, blocked sessions wait, the clock and the alarm wait for work, parked threads wake but for one race |

Why the bounds are enough to be interesting:

- *Entity map.* The races are between two threads inside drop or upgrade of one
  entity: two threads and three handles make a drop race with a drop, with a clone,
  with an upgrade and with a release. With more entities than one, a finite stock of
  handles would keep a thread between load and exchange waiting for one; the proofs
  of the safety properties hold for any number of entities, threads and handles.
- *Subscriber set.* Three subscribers are one that runs, one still to visit and one
  inserted meanwhile; depth two is a call inside a callback of another. Keys of
  subscribers are chosen in the initial state.
- *Effects.* Four operations are, for instance, observe, notify, and two more by the
  callback; an update or a release in progress costs nothing. Two subscriptions and
  two entities let an observer drop the observed, itself or the other observer.
- *Queue.* Two items may arrive between a notification and the moment the notified
  receiver has the mutex, while a third receiver takes one and a fourth item waits.
- *Dispatcher.* Two runnables are one that runs and one that it, or a thread from outside,
  dispatches meanwhile; one tick separates a timer that is due from one that is not. A second worker
  matters to the count. `ReadyFrom` lets `run_until` wait for what the main thread or a thread
  from outside brings about. For more of each, the safety half is proved.
- *Foreground.* A runnable that runs, one that another thread sends at that moment, and one that comes
  just after: the window between the last look at the queue and sleep is met by two senders at once. The
  safety half is proved for any number.
- *Drawing.* Three views are a root, a cached view and a view inside it, plain or cached:
  the deepest chain through which a notify must mark ancestors, and the entities
  of an inner cache must reach the outer. The passing runs let a view read itself only
  and open windows outside draws only: disagreements 2 and 4 are what happens otherwise.

- *Windows.* Two windows are enough for each to be closed by the other's callbacks, at every depth; six
  operations are open, update, remove, and as many again in the callbacks.
- *Keys.* Keymaps of three bindings of one to three keystrokes continue, disable, unbind and outrank each
  other; three keystrokes complete the longest of them, or its beginning and one that fails it, with
  two operations of user code in between, and a fourth binding may be added meanwhile.
- *Test scheduler.* Two sessions nest in each other; the third runnable is the one that must wait. Two
  futures are that of a block and that of another nested in its poll; a third operation completes the first
  future in between, and a fourth lets work or a timer come meanwhile. Sessions are symmetric, and so are futures.

`CHECK_DEADLOCK FALSE` stands where the instance runs out of entities, items, runnables, keystrokes,
operations or subscribers, or has panicked. It is checked in `app_effects` and in the runs of
`WindowDraw`, where the program can always go on. In `threaded_dispatcher` the program may come to rest in
`run_until` with nothing to run; that no two threads wait for each other's lock is `IdleReturns` and
`DueTimersFire`.

### Properties

Entity map. `CountIsHandles`: the count is the number of handles.
`DeadIsRecordedOnce`: the list and the threads about to extend it name exactly the
dead entities, each once, so the `unwrap` and the assertion of `take_dropped` hold.
`NoResurrection`, `DeadIsReleased`.

Subscriber set. `NoneLostNorDoubled`: a subscriber that nobody ended is in exactly one
place, the table or what a running retain keeps, and a key is taken only while a retain of it runs.
`RetainHonoursDrop`.

Effects. `Coalesced`: a pending mark and a queued Notify go together. `Quiescent`: after
the outermost update nothing is left but what came between updates.
`LeasesReturned`: no callback finds its entity leased, no flush inside a flush.
`ObserversNotified`: an observer that was active at a notify is called before the
update returns. `EventsInOrder`, `EventsDelivered`: a listener hears exactly the
events emitted since it subscribed, in order. `ReleaseIsComplete`: release callbacks run
between the last drop and the destruction, none is forgotten, and a released entity leaves no
subscriber.

Queue. `BlockedOnlyWhenServed` (no lost wakeup), `ReceivedOnceInOrder`, `DieAlwaysLands`.

Dispatcher. `InflightCount`, `IdleMeansIdle`, `IdleReturns`, `DueTimersFire`,
`MainTasksRun`, `RunUntilReturns`. `run_until_idle` promises nothing about what a thread from outside
sends, which `IdleMeansIdle` excepts. `RunUntilReturns` is about readiness that a main-thread runnable
brings about, as in `bench_context.rs`, the only caller. Readiness that another thread
brings about without sending anything to the main thread goes unnoticed while `run_until`
sleeps (`threaded_dispatcher.rs:289`), though `ready` is documented without that condition.

Foreground. `Heard`: while the main thread sleeps with something in its queue, it has been woken or somebody is
about to. `Implements`: refinement of `PlatformDispatcher` under the map `Seen`, with fairness.

Windows. `InOnePlace`: each window is in its slot or in the hands of one call, the handles name those that
are there, and no flush begins while a call has a window. `RemovedIsClosed`, `ClosedIsHeard`,
`QuitsWhenLastCloses` are about the App at rest. `ClosedIsHeard` excepts the windows closed while another
is announced, which the code does not announce.

Keys. `KeysActInOrder`: what the user types acts in that order, once, and between dispatches only what is
pending has not. `ObserversUpToDate`, `TimeoutsStand`.

Test scheduler. `SessionOrder`, `BlockedSessionsWait`, `TimePassesWhenIdle`. `NoFalseAlarm`: a block that
gives up, by a panic or, with a timeout, by returning, has a future that is not ready, and nothing is left that
could run. `ParkedIsWoken` excepts one race, that of disagreement 10.

Drawing. `NotifiedViewsRedraw`: a view on screen notified since it rendered has its window
dirty and is noted there; it goes wrong when a reuse, a close, a record or a marking of
ancestors in an earlier frame lost it. A notify in the middle of a draw of the window
is exempt: the code only notes the view then. `TrackedBothWays`, `DemandWakes`, `Redrawn`.

### Fairness

- `EntityMap!Fairness`: a thread inside a drop or an upgrade finishes it, a lease ends,
  and the App keeps flushing. Strong fairness of `TakeDropped` stands for parking_lot's
  fair `RwLock`: a waiting writer keeps new readers out. That the App flushes again is
  a property of a program that is still updated, not of the map.
- `Foreground!Fairness`: threads in a dispatch, runnables and the pool go on, and so does the main thread's
  own loop. The event loop gets to what is ready however many callbacks come between (strong fairness of
  `Start \/ Resume \/ Poll \/ Message \/ Repost` and of a browser's timeouts), except for idle callbacks, which
  a browser may put off for ever. `PopTask` is strongly fair: ten milliseconds do not go by for ever
  before the first runnable is popped.
- `ThreadedDispatcher!Fairness`: weak fairness of each thread, of the timer thread and
  of Main. A runnable that is running returns (`Finish` is one of a thread's own
  steps): a task that never returns would hang `run_until_idle` by its contract. No
  fairness is given to the clock, to user code, nor to any choice between tasks beyond
  what a finite number of them implies.

- `WindowDraw!Fairness`: a draw and the serving of a frame go on; the platform answers a wake
  of a window even if it is asked for other windows all the time (strong fairness of
  `RequestFrame`); throttling is by a minimal interval, so of requests repeated for ever one
  is not throttled (strong fairness of `RunCallbacks`). Nothing is assumed of user code.

## Proofs

What is proved holds for every value of the constants that meets the assumptions named. That is every
invariant and every action property of the passing runs; the properties about what happens in the end are not.

| Module | Of |
|---|---|
| `AppTablesProofs` | `SubscriberSet`, `EntityMap` |
| `AppEffectsProofs` | `AppEffects` |
| `WindowDrawProofs` | `WindowDraw` |
| `WindowLifecycleProofs` | `WindowLifecycle` |
| `KeyDispatchProofs` | `KeyDispatch`, `Keymap` |
| `ThreadedDispatcherProofs` | `ThreadedDispatcher` |
| `DispatchProofs` | `Foreground` and its three platforms, `PriorityQueue` |
| `TestSchedulerProofs` | `TestScheduler` |

Two modules have the proofs of two models each and extend both; so that they can, the parts of the specifications of
`EntityMap` and `PriorityQueue` have a prefix: `EntityInit`, `QueueNext`.

*Entity map.* `CountInv` is the conjunction of `EntityTypeOK`, `CountIsHandles`,
`DeadIsRecordedOnce` and what they need to be inductive: the handles of an entity are
finite and exist only for counted keys (`HandlesCounted`), a released box belongs to a
removed key (`ReleasedIsRemoved`), a lease holds its handle (`LeaseHoldsHandle`), a thread
between load and exchange sees a counted key and a nonzero count (`CasIsLocked`; this is
where the shared lock matters), and a thread inside a drop names an entity
(`DropNamesEntity`). One lemma per action that touches counts, handles or the list shows
that it preserves `CountInv`; `HandlesGained` and `HandlesLost` give the set of handles
after one is made or dropped, and the cardinality theorems of the library turn that
into the count. `CountTypeCorrect`, `CountsAreExact`, `HandlesKeepEntities` and
`DeadAreRecordedOnce` follow from `CountInv`; `DeadStayDead` uses it in the step, since only
a clone or an exchange makes a handle and both start from a nonzero count.

The assumptions are `MainAssumption` (the App's thread owns handles) and
`NoneAssumption` (the null values are no handles or ids).

*Subscriber set.* Four facts about the stack of calls are inductive: what a table or a frame holds is filed under
its key (`Filed`), nobody is in two places (`Apart`), whoever was not ended is somewhere (`Somewhere`), and a key is
taken only while a retain of it is under way, and present while it has subscribers (`Entered`). `NobodyIsLost` follows.
`DroppedStaySilent` is about one step: only `VisitRetained` calls, and it looks at the dropped cell first, wherever in
the stack the Subscription was dropped. That a visit has a next subscriber at all is that a finite set of numbers has a
least one, by the library's well-founded order on its subsets. The assumption is that the bounds are numbers.

*Effects.* All seven properties of the run are proved, for any entities, subscriptions and length of program. A flush is
at the bottom of the stack, and what it has in hand, a retain or the release of entities, lies right on it (`Ordered`); what
user code does, at any depth above, leaves this one call alone. It is `Middle`, and the invariant relates it to the tables,
the queue and the history:

| Conjunct of `IInv` | Says | For |
|---|---|---|
| `Filed` | tables hold subscribers under their own kind and emitter; a key is taken only while `Middle` retains over it | `Quiescent` |
| `Released` | the entities releasing are those `Middle` has yet to do or is at; their release listeners run, are ended, are in the table or in its hands | `ReleaseIsComplete`, `Quiescent` |
| `Placed` | an observer or listener still wanted is in the table or kept by `Middle` | `Called`, `Due` |
| `Pending` | a notification is pending exactly if an effect is queued, and one is | `Coalesced`, `Quiescent` |
| `Called` | an observer owed a call has it coming: a notification is pending, or `Middle` has yet to visit it | `ObserversNotified` |
| `Activated` | the activation of a subscriber that is not active is queued | `Due` |
| `Serials` | events are numbered in the order of the queue, the one being delivered before them | `Due` |
| `Due` | what is due to a listener is what is queued behind its activation, or being delivered and not yet to it | `EventsDelivered`, `EventsInOrder` |

`Due` compares sets of numbers, as both sides are in the order of the numbers (`DeliveredIsFirst`). Events queued when a
listener subscribes are not its own because its activation comes after them (`NewIsDueNothing`). `Cancelled`, which ends
several Subscriptions at once, is written as a function, since the order in which they are ended does not show. That the
App comes to rest only by the end of a flush (`ComesToRest`) rests on the count of updates: one that ends without
flushing is not the last call. The assumptions are that the App and `None` are no entities and that the bounds are numbers.

*Priority queue.* `QueueTypeOK /\ BlockedOnlyWhenServed` is inductive: a push adds one item
and, if anyone waits, one woken receiver; a pop by a woken receiver takes one of each; a
pop by another leaves a notification to spare; a receiver waits only when nothing is
queued. The sum of three lengths is followed by `TotalMoves`. `NoneLostNorOvertaken` needs two more facts: no item is in two
deques (`Unshared`), and what a priority gave last has been taken (`LastWasTaken`). `DieLands` holds of any lengths. The assumption is that there are finitely many receivers.

*Drawing.* `TrackedBothWays` is inductive once the maps are known to be total (`MapsTotal`):
only `Close`, `EndDraw` and `Open` touch them, and `EndDraw` takes the window out of the
invalidators of what it tracked before. What a draw accessed does not matter to it, so it
holds with windows opened out of draws too. `DemandWakes` needs `ServedWhole`: between frame
requests no window is being served, so that a request for one window cannot use up the wake of
another. A window becomes dirty with a wake (`DirtiedWakes`), and the three ways out of a
frame request, throttled, drawn or with nothing to draw, leave demands with one
(`ServingKeeps`). The only assumption is `NoneAssumption`.

`NotifiedViewsRedraw` is proved of views that read only themselves, with no window opened out of a draw; with either
it need not hold (disagreements 2 and 4). The argument is about what a cached subtree keeps. Between
draws, each cached view of a frame has kept exactly its subtree (`FramesWhole`), the window tracks what it shows
(`ShownTracked`), and what is stale is shown (`StaleShown`); so a notify finds the window, and a draw marks the stale
views and all above them. In a draw the stale views that the new frame shows wait to be rendered
(`DrawsStale`), and the blocks in progress are `Sound`:

| Part of `Sound` | Says |
|---|---|
| `Tree` | the parent of each view shown is shown or the window |
| `Known` | what is accessed is what is shown and does not wait |
| `Leaves`, `Once` | a view that waits has nothing below it, and waits once in its block |
| `Nested` | what waits in a block is below its view and those of earlier blocks, and below that of no later block |
| `Since` | what was accessed since a block began is of the subtree of its view |
| `Finished` | a cached view waits, is the view of a block, or has kept its subtree and nothing in it waits |

`Nested`, `Since` and `Known` give what `Rerendered` needs: the accessed entities that are new since the block began are
the subtree of its view. One lemma per form of step on the blocks: a waiting view is rendered or
reused and a tree of new views grows below it (`Grown`), a block begins (`Deeper`), a block ends (`Shallower`).
That a reused subtree holds no stale view is that none of its views was marked. `ViewPath` is the least set with the view
and the parents of its members; that is how paths of any length are reasoned about without induction
(`PathsAgree`, `SubtreesStay`). `KindsAssumption` is needed: no window is an entity, and there are finitely many
entities, so that the views a render embeds can be put in an order.

The types are an invariant of their own, `Typed`, since they hold with nested draws and with views that read others too,
where `Sound` does not. Every frame, and the next frame of every draw in progress, is `Framed`: its views are a forest, each
with the root of the window among its ancestors. A subtree taken over from the rendered frame stays one because
its view is where it was (`SamePlace`), so that a path within the subtree goes on to the root (`FrameGrows`). What
waits in a block is shown and what is cached there is cached in the frame (`Noted`), so that only cached views keep what
they accessed.

*Windows.* `InOnePlace` is inductive with what fixes the shape of the stack. Each call that has a window found it in its
slot and is alone to have it, and a slot is empty only while a call has its window (`Held`); the handles are the windows
in their slots or in the hands of an update (`Handled`). `CountsRight` says that `pending_updates` counts the updates and
the flush on the stack, so `Finish` begins a flush only where nothing else is in progress; that is why a flush is never
above a call that has a window, and never above another flush (`Bottomed`). Shutdown is at the bottom of the stack, so it
clears the slots when no window is in hand. The steps are of few forms, one lemma each: a call begins (`CallBegins`),
ends (`CallEnds`) or turns into another (`CallTurns`).

`CInv` adds what the properties of the App at rest need. The outermost call flushes before it returns, so nothing is
queued when no call is left (`Grounded`). A window that asked to be removed is in the hands of the update that will close
it, or of a call that builds it, or an effect is queued that will (`Owing`, `Deferred`): `open_window` leaves one
for a window whose root view or first draw asked for it when it was not yet in its slot. The observers that a closed
window has not been announced to are those that its retain has yet to visit (`Told`), and the retain after which no window
is left asks to quit (`LastAsks`). The assumptions are that `NoWindow` is no window and that the
bounds are numbers; nothing is assumed of user code but that it nests.

*Threaded dispatcher.* `InflightCount` says that the count is the number of runnables queued for workers, running
there or being timed out. It is inductive together with what fixes who has a runnable: `Runs` and
`RunsAlone` (a thread in user code has a runnable that is placed there, and no two have the same), `Sends`
and `Holding` (what a thread that sends, or a worker that decrements, has in hand), `PlacedByKind` (where each kind
of runnable can be), `SentMeanwhile` and `FiringIsCounted` (a timer that has left the heap is counted before the
timer thread gives up its lock). One lemma per action, with the cardinality theorems for those that move a
runnable in or out of the counted set. `IdleIsIdle` follows in the one step that returns (`ReturnsByTest`): the
main thread holds the in-flight lock, finds the count zero, and the timer thread is not between heap and
count. The assumptions are that the threads are distinct, that there are finitely many threads and
runnables, and that the null values are none of them.

*Foreground.* `Heard` needs, on the web, that a set signal or a sender follows whatever is posted after
the re-arm; on Linux, that the ping follows each send and each drain that found something; on Windows, that while
the flag is set, a message is posted or about to be, or the main thread is yet to look again. Their
conjunction with `TypeOK` is inductive. `DispatchersRefine` needs `TypeOK` only in the form that a runnable
in a queue was handed over with a call that may end there: every action is a step of
`PlatformDispatcher` on the one runnable it moves, or a stutter. That is the safety half of `Implements`.

*Key dispatch.* Every keystroke the user typed is at one place: pending, held by one of the dispatches in
progress, acted, or gone (it began a binding, was intercepted or was forgotten). The invariant is a `Ledger` of
the places:

| Part of `Ledger` | Says |
|---|---|
| `Apart` | no keystroke is at two places |
| `Kept` | none is at no place |
| `Single` | only one dispatch at a time has keystrokes of the user |
| `Ordered` | what has acted comes before what a dispatch holds, and that before what waits at the interceptors of one further out |

`Kept`, `Single` and `Ordered` are about the user's keystrokes; those that user code dispatches (`simulated`)
are at one place at most. Each step is a move between places, and one lemma about sets covers each form of move
(`Typing`, `Gathered`, `HeldBack`, `Acting`, `Dropped`, `Forgotten`, `TimedOut`, `Ended`), so the lemmas about
actions only say which move they make. Within a dispatch the replays and what comes after them are `Divided`, in
order. That they are when the keymap hands them over is `FlushParts` and `DispatchParts`: for any keymap and
path, what `flush_dispatch` and `dispatch_key` make of the pending keystrokes is all of them, each once and in
order. Both are recursive functions of a position. That there are such functions (`FlushUnfolds`,
`DispatchUnfolds`) rests on each replay taking at least one keystroke (`SkipIs`), and is proved, like what they
return, from the last position to the first (`Downwards`). `ObserversKnow` needs that observers who do not know
what pends have a deferred call or a blur as the reason, or a dispatch that will tell them (`Telling`);
`TimersStand` that keystrokes with a timer are not waiting at interceptors, and that a dispatch which takes them
up takes the need for a timer with them (`Timely`). The types need besides that the keymap and what
observers were told are sequences (`Typed`). The assumptions are `FocusAssumption`, that no focus is no focus,
`KeymapsAssumption`, that a keymap is a sequence, and that the bounds are numbers.

*Test scheduler.* The calls in progress (the test, blocks, runs, tasks, moves of the clock) form a stack, and
`Piled` says what may be above what. The list of blocked sessions, which the code keeps apart from its calls,
names those of the blocks in progress in their order (`Matched`, with the position of each as witness), and no
task of a session is above its block (`Waits`, which is `SessionsWait`): a step passes over the sessions in the
list, and only the block on top takes its own off it. `SessionsRunInOrder` needs that the runnables of a session
are queued in the order they were scheduled and behind what has run (`Sorted`), though others are taken from
between them. `TimeWaits` rests on `Idle`: without parking, from the look that found nothing to do until the
clock moves, the call that looked is on top, and other threads are there only with parking. `ParkedAreWoken`
rests on `Heeded`, which is about every block of the stack and not only the one that parks: if the future of a
block is ready and the block has looked at it, it was awoken or has stepped, and so polls again before it parks; or
its thread has been unparked, or will be; or a nested block has taken that (`robbed`), which can happen to a block
only between its look and the end of its poll, with the other half of the wake to come. Without parking there are no
other threads, so a future that became ready since the look has set `awoken`: a block that gives up has a
future that is not ready (`AlarmsAreTrue`). The types (`Typed`) add that no runnable is queued twice, since
what is scheduled is always new, and that the timers stay in the order they fall due, within the bound of the clock
(`Punctual`, with `Bounded` for the moves of the clock in progress).
The assumptions are `SessionsAssumption`, that the background is no session and futures are
neither, and that the bounds are numbers.

Every invariant and every action property of the runs is a theorem, and so is each type invariant.
Only model-checked: the properties about what happens in the end, and with them the fair half of
`Implements` (fairness is beyond the prover); and which bindings `Keymap` matches, as against how it divides what
pends.

## Disagreements with the documentation

The first two are shown by runs; the others were met while modelling, and the models have them.

1. `app.rs:1776`: "All windows should be off the stack when flushing effects". They are off the stack, but
   one that was removed in the update that created an entity in it has been closed when the flush calls
   the entity's `observe_new` observers, and the `expect` panics (`window_created`).
2. `view.rs:36-38`: a cached view is recycled "unless `Context::notify` was called on the
   backing entity since it was rendered". `detect_accessed_entities` (`app.rs:1083`) keeps only
   what is new in the draw. Let a parent read the entity of a cached child before the child
   renders: the child keeps a set without its own entity. In the next frame the parent does not
   read it and the child is reused: the window no longer tracks it, and a notify of it
   neither dirties the window nor notes the view, in this frame or any later one that reuses it
   (`window_draw_reads`).
3. `subscription.rs:147`: "When dropped, the subscription is cancelled and the callback will
   no longer be invoked." `remove` filters on the active cell only, so a release listener or
   quit observer still runs after an earlier one of the same `remove` dropped its
   Subscription. `retain` looks at the dropped cell.
4. `window.rs:7695`: "notifying a view in an idle window must wake the frame source". A window
   opened from within a draw (`arena.rs:134`, test at `window.rs:7641`) draws inside that draw,
   clears the one set of accessed entities (`window.rs:3182`) and leaves its own there. The outer
   window then tracks the inner one's views instead of those it had rendered before, until its
   next draw; a notify of them does not wake it.
5. `queue.rs:286-293`: `pop` blocks and errors "if the sender was dropped". A receiver that was
   blocked already is not woken by the drop.
6. `window.rs:6195`: "Input left over from a previous focus can never complete" a binding. An interceptor or
   a replayed action that moves the focus lets the keystroke, matched on the path of the old focus, be
   stored as pending for the new one (`window.rs:6032`).
7. `app/context.rs:527`: observers of pending input are called when it changes. `Window::blur`
   makes pending input inactive and calls nobody.
8. `keymap.rs:150`: precedence is by depth in the tree, then by order. Whether longer input is waited for is
   decided by order alone (`keymap.rs:230`).
9. `app/context.rs:61`: "called whenever `Context::notify` is called with the given entity."
   In one update, `notify(e); observe(e); notify(e)` queues Notify and then the observer's
   activation; the second notify coalesces with the first, and the observer is passed over.
10. `test_scheduler.rs:464`: "Check if we were woken up by a different thread." `unparked` is one flag for all blocks,
   `awoken` is each block's own, and a wake sets the first before the second. After a poll has left its waker, and
   between those two steps of another thread, code of the same poll (another branch of a join) blocks, parks and
   takes `unparked` (`test_scheduler.rs:467`). The outer block then finds `awoken` false, parks although its future
   is ready, and the rest of the wake does not get it out: unless something else does, the test ends in the
   panic of 15 seconds. Without its last disjunct, `Top.fut \in robbed`, `ParkedIsWoken` fails in `test_scheduler`: two
   blocks and one wake are enough.

## What is not modelled

- `current_window_by_entity`, platform drags, the maps of drawing when a window closes in
  `WindowLifecycle` (`WindowDraw` has them), failure to open a window.
- Of a draw: painting, hitboxes and the index ranges that a reused view copies; entities
  accessed while painting; forced renders. Effects of a notify are in `AppEffects` only, for
  entities that no window draws, and invalidation in `WindowDraw` only.
- What shutdown waits for, the event arena, restart; AsyncApp's `refresh`, which leaves an effect for the
  next update.
- Globals and focus handles: `release_dropped_focus_handles` is left out of the flush.
- Executors and `PlatformScheduler`: wrappers around async_task and a dispatcher; `block` only adds a deadline.
- Of key dispatch: modifier-only keystrokes, input methods, `disable_focus`, the order of listeners in the
  tree, what predicates are made of. Tab order.
- Of the test scheduler: see its section.
- Subscription::join; the iterators over a priority queue; realtime threads.
- Elements, layout, text, styles, scene, atlas and renderers: functions from data to data.
- The macOS dispatcher, which hands over to libdispatch, and all of the platform backends but how they run
  tasks: calls into an operating system. Macros, utilities, HTTP clients.
- Failures of the operating system's queues: on Windows, once `PostMessageW` has failed with the flag set, no later
  sender posts until something else runs the foreground (`crates/gpui_windows/src/dispatcher.rs:121`); and a
  runnable that opens a modal dialog keeps the flag set while it is open (`crates/gpui_windows/src/platform.rs:1045`).
- Panics: after one the program's state is not trusted. The dispatcher's drop guard, which
  keeps the count right when a runnable panics, is seen only in that the decrement
  always follows.

## Plan

What would add most, in this order:

1. `WindowLifecycle` composed with `AppEffects` and `WindowDraw`: a notify in the middle of a draw queues no
   effect (`window.rs:179`), a flush inside the flush of shutdown clears the event arena (`app.rs:1665`), and
   `current_window_by_entity` is overwritten (`app.rs:1767`).
2. `WindowDraw` extended by the index ranges of reused views (`view.rs:396`).
3. `PlatformScheduler::block`: a wake racing its deadline.
4. Abstract specifications: entity ownership (an entity lives while it is owned and is released
   once), implemented by `EntityMap`; a bag with blocking take, implemented by `PriorityQueue`.
5. Proofs: that `Keymap` prefers the bindings it documents, for keymaps of any length.
