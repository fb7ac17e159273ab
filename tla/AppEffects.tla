------------------------------ MODULE AppEffects ------------------------------
(***************************************************************************)
(* The effect cycle of an App (crates/gpui/src/app.rs): updates and leases *)
(* nest, effects queue up, and the end of the outermost update flushes     *)
(* them, releasing dropped entities and running observers, listeners and   *)
(* release callbacks, each of which is user code that may do it all again. *)
(*                                                                         *)
(* The App runs on one thread, so its state is a stack of calls in         *)
(* progress.  User code is any sequence of operations of the App, within a *)
(* bound.  Events have one type, and an entity has no window.              *)
(***************************************************************************)
EXTENDS Naturals, Sequences, FiniteSets, FiniteSetsExt

CONSTANTS
  Entities,
  App,       \* the owner of the handles kept outside entities
  None,      \* the watcher of a subscription made through the App
  MaxSubs,   \* bound: subscriptions ever made
  MaxOps     \* bound: operations of user code

ASSUME OwnersAssumption == App \notin Entities /\ None \notin Entities
ASSUME BoundsAssumption == MaxSubs \in Nat /\ MaxOps \in Nat

SubIds == 1..MaxSubs
Kinds == {"notify", "event", "release"}
Owners == Entities \cup {App}
Watchers == Entities \cup {None}

INSTANCE SubscriberTable WITH Keys <- Entities, Subscribers <- SubIds

VARIABLES
  status,    \* an entity is live, dead (recorded by its last drop), releasing or gone
  handles,   \* the strong handles in the fields of an entity, or kept by the App's user
  subs,      \* every subscription made: its kind, the emitter and the watcher
  table,     \* observers, event_listeners and release_listeners
  active, dropped, held,  \* of subscriptions, as in SubscriberSet
  pendingUpdates, flushing,
  effects, notifs,        \* pending_effects and pending_notifications
  stack,     \* the calls in progress, outermost first
  fuel,      \* operations user code may still do
  owed,      \* history: observers active at a notify and not called since
  due,       \* history: the events a listener has still to be given
  ran,       \* history: release callbacks that have run
  late       \* history: entities whose last handle was dropped between updates

registry == <<subs, table, active, dropped, held>>
queue == <<effects, notifs>>
updates == <<pendingUpdates, flushing>>
history == <<owed, due, ran, late>>
vars == <<status, handles, registry, queue, updates, stack, fuel, history>>

Statuses == {"live", "dead", "releasing", "gone"}
Effects ==
  [kind : {"notify"}, ent : Entities]
  \cup [kind : {"event"}, ent : Entities, ev : 1..MaxOps]
  \cup [kind : {"activate"}, sub : SubIds]
  \cup {[kind |-> "defer"]}

(* Calls in progress; hold is the strong handles that a call keeps.        *)
(*   update, user: the closure of App::update, a callback given the App    *)
(*   lease:        the closure of update_entity, with the entity leased    *)
(*   flush:        flush_effects                                           *)
(*   release:      release_dropped_entities, with what it took and has to  *)
(*                 release, the entity and the callbacks it is at          *)
(*   retain:       SubscriberSet::retain, with the subscriber it runs      *)
Calls ==
  [at : {"update", "user", "flush"}, hold : SUBSET Entities]
  \cup [at : {"lease"}, ent : Entities, hold : SUBSET Entities]
  \cup [at : {"release"}, todo : SUBSET Entities, ent : Watchers,
        subs : SUBSET SubIds, hold : {{}}]
  \cup [at : {"retain"}, kind : Kinds, key : Entities, todo : SUBSET SubIds,
        kept : SUBSET SubIds, run : SubIds \cup {0}, ev : 0..MaxOps, hold : {{}}]

TypeOK ==
  /\ status \in [Entities -> Statuses]
  /\ handles \in [Owners -> SUBSET Entities]
  /\ \A e \in Entities : status[e] = "gone" => handles[e] = {}
  /\ subs \in Seq([kind : Kinds, key : Entities, watcher : Watchers])
  /\ table \in [Kinds -> Tables]
  /\ active \cup dropped \cup held \subseteq DOMAIN subs /\ held \cap dropped = {}
  /\ flushing \in BOOLEAN
  /\ effects \in Seq(Effects) /\ notifs \subseteq Entities
  /\ stack \in Seq(Calls)
  /\ pendingUpdates = Cardinality({i \in DOMAIN stack : stack[i].at \in {"update", "lease"}})
                      + (IF flushing THEN 1 ELSE 0)
  /\ fuel \in 0..MaxOps
  /\ owed \cup ran \subseteq DOMAIN subs
  /\ due \in [SubIds -> Seq(1..MaxOps)] /\ late \subseteq Entities

-----------------------------------------------------------------------------
Running == stack # <<>>
Top == stack[Len(stack)]
Push(call) == stack' = Append(stack, call)
Under == SubSeq(stack, 1, Len(stack) - 1)
Pop == stack' = Under
Become(call) == stack' = Append(Under, call)
Then(call, next) == stack' = Append(Append(Under, call), next)

Leased(e) == \E i \in DOMAIN stack : stack[i].at = "lease" /\ stack[i].ent = e

Update(hold) == [at |-> "update", hold |-> hold]
User(hold) == [at |-> "user", hold |-> hold]
Lease(e, hold) == [at |-> "lease", ent |-> e, hold |-> hold]
Flush(hold) == [at |-> "flush", hold |-> hold]

(* Entities whose last strong handle is gone are recorded as dropped. *)
Strong(hs, calls) ==
  UNION {hs[x] : x \in Owners} \cup UNION {calls[i].hold : i \in DOMAIN calls}
Buried(st, hs, calls) ==
  [e \in Entities |-> IF st[e] = "live" /\ e \notin Strong(hs, calls)
                      THEN "dead" ELSE st[e]]
Dead == {e \in Entities : status[e] = "dead"}
NewlyDead == {e \in Entities : status[e] = "live" /\ status'[e] = "dead"}

Live(w) == w # None => status[w] = "live"

Init ==
  /\ status = [e \in Entities |-> "live"]
  /\ handles \in {h \in [Owners -> SUBSET Entities] :
                    /\ \A e \in Entities : e \notin h[e]
                    /\ UNION {h[x] : x \in Owners} = Entities}
  /\ subs = <<>>
  /\ table = [k \in Kinds |-> EmptyTable]
  /\ active = {} /\ dropped = {} /\ held = {}
  /\ pendingUpdates = 0 /\ flushing = FALSE
  /\ effects = <<>> /\ notifs = {}
  /\ stack = <<>>
  /\ fuel = MaxOps
  /\ owed = {} /\ ran = {} /\ late = {}
  /\ due = [s \in SubIds |-> <<>>]

-----------------------------------------------------------------------------
(* Updates *)

(* The platform or an executor calls into the App: App::update. *)
Begin ==
  /\ ~Running
  /\ Push(Update({}))
  /\ pendingUpdates' = pendingUpdates + 1
  /\ UNCHANGED <<status, handles, registry, queue, flushing, fuel, history>>

(* update_entity by an async context: the outermost update is itself that   *)
(* of an entity.                                                           *)
BeginUpdateEntity(e) ==
  /\ ~Running /\ fuel > 0
  /\ fuel' = fuel - 1
  /\ status[e] = "live"
  /\ Push(Lease(e, {e}))
  /\ pendingUpdates' = pendingUpdates + 1
  /\ UNCHANGED <<status, handles, registry, queue, flushing, history>>

(* Mutant of Finish: flushes whenever no flush is in progress. *)
FinishAnyUpdate ==
  /\ Running /\ Top.at \in {"update", "lease"}
  /\ IF ~flushing
     THEN /\ flushing' = TRUE
          /\ Become(Flush(Top.hold))
          /\ UNCHANGED <<pendingUpdates, status>>
     ELSE /\ pendingUpdates' = pendingUpdates - 1
          /\ Pop
          /\ status' = Buried(status, handles, stack')
          /\ UNCHANGED flushing
  /\ UNCHANGED <<handles, registry, queue, fuel, history>>

(* The closure of an update returns.  update_entity ends the lease before  *)
(* finish_update, which flushes when this was the outermost update; the    *)
(* handle the entity was updated through outlives the flush.               *)
Finish ==
  /\ Running /\ Top.at \in {"update", "lease"}
  /\ IF ~flushing /\ pendingUpdates = 1
     THEN /\ flushing' = TRUE
          /\ Become(Flush(Top.hold))
          /\ UNCHANGED <<pendingUpdates, status>>
     ELSE /\ pendingUpdates' = pendingUpdates - 1
          /\ Pop
          /\ status' = Buried(status, handles, stack')
          /\ UNCHANGED flushing
  /\ UNCHANGED <<handles, registry, queue, fuel, history>>

(* A callback that was given the App returns. *)
Return ==
  /\ Running /\ Top.at = "user"
  /\ Pop
  /\ status' = Buried(status, handles, stack')
  /\ UNCHANGED <<handles, registry, queue, updates, fuel, history>>

-----------------------------------------------------------------------------
(* Operations of user code *)

Operation ==
  /\ Running /\ Top.at \in {"update", "user", "lease"}
  /\ fuel > 0
  /\ fuel' = fuel - 1

Serial == fuel   \* a number for the event, unique to the operation

(* update_entity, through any handle, or a weak one that upgrades.  User   *)
(* code that leases an entity twice panics by contract.                    *)
UpdateEntity(e) ==
  /\ Operation
  /\ status[e] = "live" /\ ~Leased(e)
  /\ Push(Lease(e, {e}))
  /\ pendingUpdates' = pendingUpdates + 1
  /\ UNCHANGED <<status, handles, registry, queue, flushing, history>>

Registered(kind, e) == {s \in DOMAIN subs : subs[s].kind = kind /\ subs[s].key = e}

(* App::notify, of an entity no window is drawing. *)
Notify(e) ==
  /\ Operation
  /\ IF e \in notifs THEN UNCHANGED queue
     ELSE /\ notifs' = notifs \cup {e}
          /\ effects' = Append(effects, [kind |-> "notify", ent |-> e])
  /\ owed' = owed \cup (Registered("notify", e) \cap active)
  /\ UNCHANGED <<status, handles, registry, updates, stack, due, ran, late>>

(* Mutant of Emit: coalesces events like notifications. *)
EmitOnce(e) ==
  /\ Operation
  /\ Top.at = "lease" /\ Top.ent = e
  /\ effects' = IF \E i \in DOMAIN effects : effects[i].kind = "event" /\ effects[i].ent = e
                THEN effects
                ELSE Append(effects, [kind |-> "event", ent |-> e, ev |-> Serial])
  /\ due' = [s \in SubIds |-> IF s \in Registered("event", e)
                              THEN Append(due[s], Serial) ELSE due[s]]
  /\ UNCHANGED <<status, handles, registry, notifs, updates, stack, owed, ran, late>>

(* Context::emit, by an entity that is being updated. *)
Emit(e) ==
  /\ Operation
  /\ Top.at = "lease" /\ Top.ent = e
  /\ effects' = Append(effects, [kind |-> "event", ent |-> e, ev |-> Serial])
  /\ due' = [s \in SubIds |-> IF s \in Registered("event", e)
                              THEN Append(due[s], Serial) ELSE due[s]]
  /\ UNCHANGED <<status, handles, registry, notifs, updates, stack, owed, ran, late>>

(* App::defer *)
Defer ==
  /\ Operation
  /\ effects' = Append(effects, [kind |-> "defer"])
  /\ UNCHANGED <<status, handles, registry, notifs, updates, stack, history>>

(* Mutant of Subscribe: activates every subscription at once. *)
SubscribeActive(kind, e, w) ==
  /\ Operation
  /\ status[e] = "live"
  /\ w # None => Top.at = "lease" /\ Top.ent = w
  /\ Len(subs) < MaxSubs
  /\ LET s == Len(subs) + 1 IN
       /\ subs' = Append(subs, [kind |-> kind, key |-> e, watcher |-> w])
       /\ table' = [table EXCEPT ![kind] = Inserted(@, e, s)]
       /\ held' = held \cup {s}
       /\ active' = active \cup {s}
  /\ UNCHANGED <<status, handles, dropped, queue, updates, stack, history>>

(* The table, the Subscription and the activation of a new subscriber. *)
Added(kind, e, w) ==
  /\ status[e] = "live"
  /\ Len(subs) < MaxSubs
  /\ LET s == Len(subs) + 1 IN
       /\ subs' = Append(subs, [kind |-> kind, key |-> e, watcher |-> w])
       /\ table' = [table EXCEPT ![kind] = Inserted(@, e, s)]
       /\ held' = held \cup {s}
       /\ IF kind = "release"
          THEN active' = active \cup {s} /\ UNCHANGED effects
          ELSE /\ effects' = Append(effects, [kind |-> "activate", sub |-> s])
               /\ UNCHANGED active

(* observe, subscribe and observe_release of the App, or of the Context of *)
(* the entity being updated, which becomes the watcher.  An observer or a  *)
(* listener is activated by a deferred effect, a release listener at once. *)
Subscribe(kind, e, w) ==
  /\ Operation
  /\ w # None => Top.at = "lease" /\ Top.ent = w
  /\ Added(kind, e, w)
  /\ UNCHANGED <<status, handles, dropped, notifs, updates, stack, history>>

(* The table after the Subscriptions in S are dropped: Unsubscribed, for    *)
(* each of them.                                                           *)
Cancelled(S) ==
  LET left(k, e) == table[k].subs[e] \ S IN
    [k \in Kinds |->
       [entry |-> [e \in Entities |-> IF Present(table[k], e) /\ left(k, e) = {}
                                     THEN "absent" ELSE table[k].entry[e]],
        subs |-> [e \in Entities |-> left(k, e)]]]

DropSubscription(s) ==
  /\ Operation
  /\ s \in held
  /\ held' = held \ {s} /\ dropped' = dropped \cup {s}
  /\ table' = Cancelled({s})
  /\ UNCHANGED <<status, handles, subs, active, queue, updates, stack, history>>

Detach(s) ==
  /\ Operation
  /\ s \in held
  /\ held' = held \ {s}
  /\ UNCHANGED <<status, handles, subs, table, active, dropped, queue, updates, stack, history>>

(* User code drops a handle, of its own or of the entity being updated. *)
DropHandle(x, e) ==
  /\ Operation
  /\ x # App => Top.at = "lease" /\ Top.ent = x
  /\ e \in handles[x]
  /\ handles' = [handles EXCEPT ![x] = @ \ {e}]
  /\ status' = Buried(status, handles', stack)
  /\ UNCHANGED <<registry, queue, updates, stack, history>>

(* Between updates, a task drops a handle it keeps ... *)
DropHandleOutside(e) ==
  /\ ~Running /\ fuel > 0
  /\ fuel' = fuel - 1
  /\ e \in handles[App]
  /\ handles' = [handles EXCEPT ![App] = @ \ {e}]
  /\ status' = Buried(status, handles', stack)
  /\ late' = late \cup NewlyDead
  /\ UNCHANGED <<registry, queue, updates, stack, owed, due, ran>>

(* ... or subscribes: AsyncApp::subscribe is not an update, and leaves its  *)
(* effect to the next one.                                                 *)
SubscribeOutside(e) ==
  /\ ~Running /\ fuel > 0
  /\ fuel' = fuel - 1
  /\ Added("event", e, None)
  /\ UNCHANGED <<status, handles, dropped, notifs, updates, stack, history>>

-----------------------------------------------------------------------------
(* flush_effects *)

Flushing == Running /\ Top.at = "flush"

(* Runs callback s, if its watcher is alive: with the watcher leased, or,  *)
(* with no watcher, given the App.  keep is the handle passed to it.       *)
Call(from, s, keep) ==
  LET w == subs[s].watcher IN
    IF w = None
    THEN Then(from, User(keep)) /\ UNCHANGED pendingUpdates
    ELSE Then(from, Lease(w, keep \cup {w})) /\ pendingUpdates' = pendingUpdates + 1

(* take_dropped, in release_dropped_entities *)
TakeDropped ==
  /\ Flushing
  /\ Dead # {}
  /\ status' = [e \in Entities |-> IF e \in Dead THEN "releasing" ELSE status[e]]
  /\ Push([at |-> "release", todo |-> Dead, ent |-> None, subs |-> {}, hold |-> {}])
  /\ UNCHANGED <<handles, registry, queue, updates, fuel, history>>

(* The next entity: its observers and listeners go, and its release        *)
(* listeners are taken.  The order is that of the drops, which is the      *)
(* user's.                                                                 *)
Release(e) ==
  /\ Running /\ Top.at = "release" /\ Top.ent = None
  /\ e \in Top.todo
  /\ Become([Top EXCEPT !.todo = @ \ {e}, !.ent = e, !.subs = table["release"].subs[e]])
  /\ table' = [k \in Kinds |-> Removed(table[k], e)]
  /\ UNCHANGED <<status, handles, subs, active, dropped, held, queue, updates, fuel, history>>

Releasing == Running /\ Top.at = "release" /\ Top.ent # None

RunRelease ==
  /\ Releasing /\ Top.subs # {}
  /\ LET s == Min(Top.subs)
         rest == [Top EXCEPT !.subs = @ \ {s}] IN
       IF s \in active /\ Live(subs[s].watcher)
       THEN Call(rest, s, {}) /\ ran' = ran \cup {s}
       ELSE Become(rest) /\ UNCHANGED <<pendingUpdates, ran>>
  /\ UNCHANGED <<status, handles, registry, queue, flushing, fuel, owed, due, late>>

(* Mutant of DropEntity: the value is dropped before the callbacks run. *)
DropEntityFirst ==
  /\ Releasing
  /\ LET e == Top.ent
         S == {s \in held : subs[s].watcher = e} IN
       /\ Become([Top EXCEPT !.ent = None, !.subs = {}])
       /\ handles' = [handles EXCEPT ![e] = {}]
       /\ held' = held \ S /\ dropped' = dropped \cup S
       /\ table' = Cancelled(S)
       /\ status' = Buried([status EXCEPT ![e] = "gone"], handles', stack')
  /\ UNCHANGED <<subs, active, queue, updates, fuel, history>>

(* The value of the entity is dropped, with the handles and Subscriptions  *)
(* in its fields: those of which it is the watcher.                        *)
DropEntity ==
  /\ Releasing /\ Top.subs = {}
  /\ LET e == Top.ent
         S == {s \in held : subs[s].watcher = e} IN
       /\ Become([Top EXCEPT !.ent = None])
       /\ handles' = [handles EXCEPT ![e] = {}]
       /\ held' = held \ S /\ dropped' = dropped \cup S
       /\ table' = Cancelled(S)
       /\ status' = Buried([status EXCEPT ![e] = "gone"], handles', stack')
  /\ UNCHANGED <<subs, active, queue, updates, fuel, history>>

EndRelease ==
  /\ Running /\ Top.at = "release" /\ Top.ent = None /\ Top.todo = {}
  /\ Pop
  /\ UNCHANGED <<status, handles, registry, queue, updates, fuel, history>>

(* The first effect, when no dropped entity is left. *)
Next1(kind) ==
  /\ Flushing
  /\ Dead = {}
  /\ effects # <<>> /\ Head(effects).kind = kind
  /\ effects' = Tail(effects)

(* retain over the subscribers of an entity: nothing if there are none.    *)
Retain(kind, e, ev) ==
  IF Present(table[kind], e)
  THEN /\ Push([at |-> "retain", kind |-> kind, key |-> e, todo |-> table[kind].subs[e],
                kept |-> table[kind].subs[e], run |-> 0, ev |-> ev, hold |-> {}])
       /\ table' = [table EXCEPT ![kind] = Taken(@, e)]
  ELSE UNCHANGED <<stack, table>>

(* Mutant of ApplyNotify: forgets the pending notification. *)
ApplyNotifyOnce ==
  /\ Next1("notify")
  /\ Retain("notify", Head(effects).ent, 0)
  /\ UNCHANGED <<notifs, status, handles, subs, active, dropped, held, updates, fuel, history>>

ApplyNotify ==
  /\ Next1("notify")
  /\ notifs' = notifs \ {Head(effects).ent}
  /\ Retain("notify", Head(effects).ent, 0)
  /\ UNCHANGED <<status, handles, subs, active, dropped, held, updates, fuel, history>>

ApplyEmit ==
  /\ Next1("event")
  /\ Retain("event", Head(effects).ent, Head(effects).ev)
  /\ UNCHANGED <<notifs, status, handles, subs, active, dropped, held, updates, fuel, history>>

(* The deferred effect of new_observer and new_subscription ... *)
ApplyActivate ==
  /\ Next1("activate")
  /\ active' = active \cup {Head(effects).sub}
  /\ UNCHANGED <<notifs, status, handles, subs, table, dropped, held, updates, stack, fuel, history>>

(* ... and of user code. *)
ApplyDefer ==
  /\ Next1("defer")
  /\ Push(User({}))
  /\ UNCHANGED <<notifs, status, handles, registry, updates, fuel, history>>

Retaining == Running /\ Top.at = "retain"

(* The handlers of observe and subscribe upgrade their weak handles to the *)
(* emitter and the watcher, and end the subscription if either is gone.    *)
Visit ==
  /\ Retaining /\ Top.run = 0 /\ Top.todo # {}
  /\ LET s == Min(Top.todo)
         rest == [Top EXCEPT !.todo = @ \ {s}] IN
       \/ /\ s \notin active
          /\ Become(rest)
          /\ UNCHANGED <<pendingUpdates, owed, due>>
       \/ /\ s \in active
          /\ s \in dropped \/ ~Live(Top.key) \/ ~Live(subs[s].watcher)
          /\ Become([rest EXCEPT !.kept = @ \ {s}])
          /\ UNCHANGED <<pendingUpdates, owed, due>>
       \/ /\ s \in active \ dropped /\ Live(Top.key) /\ Live(subs[s].watcher)
          /\ Call([rest EXCEPT !.run = s], s, {Top.key})
          /\ owed' = owed \ {s}
          /\ due' = [due EXCEPT ![s] = IF @ = <<>> THEN @ ELSE Tail(@)]
  /\ UNCHANGED <<status, handles, registry, queue, flushing, fuel, ran, late>>

(* The handler has returned true; it may have dropped its Subscription. *)
Visited ==
  /\ Retaining /\ Top.run # 0
  /\ Become([Top EXCEPT !.run = 0, !.kept = IF Top.run \in dropped THEN @ \ {Top.run} ELSE @])
  /\ UNCHANGED <<status, handles, registry, queue, updates, fuel, history>>

(* Mutant of EndRetain: loses the subscribers inserted meanwhile. *)
EndRetainOver ==
  /\ Retaining /\ Top.run = 0 /\ Top.todo = {}
  /\ table' = [table EXCEPT ![Top.kind] = PutBackOver(@, Top.key, Top.kept)]
  /\ Pop
  /\ UNCHANGED <<status, handles, subs, active, dropped, held, queue, updates, fuel, history>>

EndRetain ==
  /\ Retaining /\ Top.run = 0 /\ Top.todo = {}
  /\ table' = [table EXCEPT ![Top.kind] = PutBack(@, Top.key, Top.kept)]
  /\ Pop
  /\ UNCHANGED <<status, handles, subs, active, dropped, held, queue, updates, fuel, history>>

(* Mutants of EndFlush: it overlooks entities dropped by the last effect ... *)
EndFlushEarly ==
  /\ Flushing
  /\ effects = <<>>
  /\ flushing' = FALSE
  /\ pendingUpdates' = pendingUpdates - 1
  /\ Pop
  /\ status' = Buried(status, handles, stack')
  /\ late' = late \cup NewlyDead
  /\ UNCHANGED <<handles, registry, queue, fuel, owed, due, ran>>

(* Nothing is left: flush_effects returns, and the outermost update ends. *)
EndFlush ==
  /\ Flushing
  /\ Dead = {} /\ effects = <<>>
  /\ flushing' = FALSE
  /\ pendingUpdates' = pendingUpdates - 1
  /\ Pop
  /\ status' = Buried(status, handles, stack')
  /\ late' = late \cup NewlyDead
  /\ UNCHANGED <<handles, registry, queue, fuel, owed, due, ran>>

Next ==
  \/ Begin \/ Finish \/ Return
  \/ \E e \in Entities : BeginUpdateEntity(e) \/ DropHandleOutside(e) \/ SubscribeOutside(e)
  \/ \E e \in Entities : UpdateEntity(e) \/ Notify(e) \/ Emit(e)
  \/ Defer
  \/ \E k \in Kinds, e \in Entities, w \in Watchers : Subscribe(k, e, w)
  \/ \E s \in SubIds : DropSubscription(s) \/ Detach(s)
  \/ \E x \in Owners, e \in Entities : DropHandle(x, e)
  \/ TakeDropped \/ \E e \in Entities : Release(e)
  \/ RunRelease \/ DropEntity \/ EndRelease
  \/ ApplyNotify \/ ApplyEmit \/ ApplyActivate \/ ApplyDefer
  \/ Visit \/ Visited \/ EndRetain
  \/ EndFlush

Spec == Init /\ [][Next]_vars
-----------------------------------------------------------------------------
(* Properties *)

(* A notification is pending exactly when one Notify effect is queued: a   *)
(* pending mark without an effect would silence the entity for good, and   *)
(* an effect without a mark would let its notifications pile up.           *)
Coalesced ==
  \A e \in Entities :
    Cardinality({i \in DOMAIN effects : effects[i] = [kind |-> "notify", ent |-> e]})
      = IF e \in notifs THEN 1 ELSE 0

(* When the outermost update has returned no effect is left and no entity  *)
(* waits to be released, but for what came between updates: a subscription *)
(* of an AsyncApp, or the last handle to an entity, dropped by a task or   *)
(* with the handle the entity was updated through.  No retain has left a   *)
(* key taken, and the next update will flush again.                        *)
Quiescent ==
  ~Running =>
    /\ notifs = {} /\ \A i \in DOMAIN effects : effects[i].kind = "activate"
    /\ ~flushing /\ pendingUpdates = 0
    /\ \A e \in Entities : status[e] # "releasing" /\ (e \in Dead => e \in late)
    /\ \A k \in Kinds, e \in Entities : table[k].entry[e] # "taken"

(* The flush waits for every lease to be returned: a callback never finds  *)
(* its watcher leased, which would panic, and flushes do not nest.         *)
LeasesReturned ==
  \A i, j \in DOMAIN stack : i < j =>
    /\ stack[j].at = "flush" => stack[i].at # "lease"
    /\ stack[i].at = "lease" /\ stack[j].at = "lease" => stack[i].ent # stack[j].ent
    /\ ~(stack[i].at = "flush" /\ stack[j].at = "flush")

Listening(s) == s \notin dropped /\ Live(subs[s].key) /\ Live(subs[s].watcher)

(* An observer that was active when its entity was notified is called      *)
(* before the update returns, unless it is cancelled or released first:    *)
(* also when the notification came while the observers were being called.  *)
ObserversNotified == ~Running => \A s \in owed : ~Listening(s)

(* A listener is given exactly the events emitted since it subscribed, in  *)
(* the order they were emitted ...                                         *)
EventsInOrder ==
  [][Retaining /\ Top.kind = "event" /\ Top.run = 0 /\ Len(stack') > Len(stack)
       => LET s == stack'[Len(stack)].run IN
            due[s] # <<>> /\ Head(due[s]) = Top.ev]_vars

(* ... and all of them by the time the update returns, unless it is        *)
(* cancelled or released first.                                            *)
EventsDelivered ==
  ~Running => \A s \in DOMAIN subs : Listening(s) => due[s] = <<>>

(* The release callbacks of an entity run after its last handle is gone    *)
(* and before its value is dropped, and none is forgotten; a released      *)
(* entity leaves no subscriber behind, whatever its callbacks and the      *)
(* retains that were running did.                                          *)
ReleaseIsComplete ==
  /\ \A s \in DOMAIN subs : subs[s].kind = "release" =>
       /\ s \in ran => status[subs[s].key] \in {"releasing", "gone"}
       /\ status[subs[s].key] = "gone" =>
            s \in ran \cup dropped \/ ~Live(subs[s].watcher)
  /\ \A e \in Entities : status[e] = "gone" =>
       \A k \in Kinds : table[k].entry[e] = "absent"
=============================================================================
