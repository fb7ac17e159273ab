---------------------------- MODULE SubscriberSet ----------------------------
(***************************************************************************)
(* One SubscriberSet under re-entrancy (crates/gpui/src/subscription.rs).  *)
(*                                                                         *)
(* retain and remove run callbacks, and a callback may do to the set       *)
(* whatever other code may: insert, activate, drop a Subscription, start   *)
(* another retain or remove.  The calls in progress form a stack.          *)
(***************************************************************************)
EXTENDS Naturals, Sequences, FiniteSets, FiniteSetsExt

CONSTANTS
  Keys,      \* emitters
  MaxSubs,   \* bound: subscribers ever inserted
  MaxDepth   \* bound: nested retain and remove calls

ASSUME BoundsAssumption == MaxSubs \in Nat /\ MaxDepth \in Nat

Subscribers == 1..MaxSubs

INSTANCE SubscriberTable

VARIABLES
  table,     \* the map
  next,      \* next_subscriber_id
  key,       \* the key a subscriber was inserted under
  active,    \* subscribers whose active cell is set
  dropped,   \* subscribers whose dropped cell is set
  held,      \* Subscriptions alive, neither dropped nor detached
  calls,     \* the retain and remove calls in progress, outermost first
  expelled   \* history: subscribers that remove or a false callback took out

vars == <<table, next, key, active, dropped, held, calls, expelled>>

(* A call in progress: the subscribers still to visit, those it will keep, *)
(* and the one whose callback is running, 0 when none is.                  *)
Calls == [op : {"retain", "remove"}, key : Keys, todo : SUBSET Subscribers,
          kept : SUBSET Subscribers, running : Subscribers \cup {0}]

Inserteds == 1..(next - 1)
Top == calls[Len(calls)]
Replace(call) == calls' = [calls EXCEPT ![Len(calls)] = call]
Pop == calls' = SubSeq(calls, 1, Len(calls) - 1)

(* Code other than the set's own runs: the caller, or a callback. *)
UserCode == calls # <<>> => Top.running # 0

TypeOK ==
  /\ table \in Tables
  /\ next \in 1..(MaxSubs + 1)
  /\ key \in [Subscribers -> Keys]
  /\ active \subseteq Inserteds /\ dropped \subseteq Inserteds
  /\ held \subseteq Inserteds \ dropped /\ expelled \subseteq Subscribers
  /\ calls \in Seq(Calls) /\ Len(calls) <= MaxDepth

Init ==
  /\ table = EmptyTable
  /\ next = 1
  /\ key \in [Subscribers -> Keys]   \* chosen ahead of the inserts
  /\ active = {} /\ dropped = {} /\ held = {} /\ expelled = {}
  /\ calls = <<>>

Insert ==
  /\ UserCode
  /\ next \in Subscribers
  /\ table' = Inserted(table, key[next], next)
  /\ held' = held \cup {next}
  /\ next' = next + 1
  /\ UNCHANGED <<key, active, dropped, calls, expelled>>

Activate(s) ==
  /\ UserCode
  /\ s \in Inserteds \ active
  /\ active' = active \cup {s}
  /\ UNCHANGED <<table, next, key, dropped, held, calls, expelled>>

(* Subscription's drop: flag first, then the map if it is there. *)
DropSubscription(s) ==
  /\ UserCode
  /\ s \in held
  /\ held' = held \ {s}
  /\ dropped' = dropped \cup {s}
  /\ table' = Unsubscribed(table, key[s], s)
  /\ UNCHANGED <<next, key, active, calls, expelled>>

Detach(s) ==
  /\ UserCode
  /\ s \in held
  /\ held' = held \ {s}
  /\ UNCHANGED <<table, next, key, active, dropped, calls, expelled>>

Call(op, k) == [op |-> op, key |-> k, todo |-> table.subs[k],
                kept |-> table.subs[k], running |-> 0]

(* A retain over a key that is absent or taken returns at once. *)
BeginRetain(k) ==
  /\ UserCode
  /\ Len(calls) < MaxDepth
  /\ Present(table, k)
  /\ calls' = Append(calls, Call("retain", k))
  /\ table' = Taken(table, k)
  /\ UNCHANGED <<next, key, active, dropped, held, expelled>>

(* Mutant of VisitRetained: does not look at the dropped cell. *)
VisitDropped ==
  /\ calls # <<>> /\ Top.op = "retain" /\ Top.running = 0
  /\ Top.todo # {}
  /\ LET s == Min(Top.todo) IN
       Replace([Top EXCEPT !.todo = @ \ {s},
                           !.running = IF s \in active THEN s ELSE 0])
  /\ UNCHANGED <<table, next, key, active, dropped, held, expelled>>

(* The next subscriber in order of id: an inactive one is kept, a dropped  *)
(* one removed, any other has its callback invoked.                        *)
VisitRetained ==
  /\ calls # <<>> /\ Top.op = "retain" /\ Top.running = 0
  /\ Top.todo # {}
  /\ LET s == Min(Top.todo) IN
       IF s \notin active THEN Replace([Top EXCEPT !.todo = @ \ {s}])
       ELSE IF s \in dropped
       THEN Replace([Top EXCEPT !.todo = @ \ {s}, !.kept = @ \ {s}])
       ELSE Replace([Top EXCEPT !.todo = @ \ {s}, !.running = s])
  /\ UNCHANGED <<table, next, key, active, dropped, held, expelled>>

(* The callback returns; it, or its own Subscription dropped meanwhile,    *)
(* may end the subscription.                                               *)
ReturnRetained(keep) ==
  /\ calls # <<>> /\ Top.op = "retain" /\ Top.running # 0
  /\ LET s == Top.running IN
       /\ Replace([Top EXCEPT !.running = 0,
                              !.kept = IF keep /\ s \notin dropped THEN @ ELSE @ \ {s}])
       /\ expelled' = IF keep THEN expelled ELSE expelled \cup {s}
  /\ UNCHANGED <<table, next, key, active, dropped, held>>

EndRetain ==
  /\ calls # <<>> /\ Top.op = "retain" /\ Top.running = 0
  /\ Top.todo = {}
  /\ table' = PutBack(table, Top.key, Top.kept)
  /\ Pop
  /\ UNCHANGED <<next, key, active, dropped, held, expelled>>

(* remove takes the whole map; its caller runs the callbacks of the        *)
(* active subscribers as it iterates.                                      *)
BeginRemove(k) ==
  /\ UserCode
  /\ Len(calls) < MaxDepth
  /\ Present(table, k)
  /\ calls' = Append(calls, Call("remove", k))
  /\ expelled' = expelled \cup table.subs[k]
  /\ table' = Removed(table, k)
  /\ UNCHANGED <<next, key, active, dropped, held>>

(* remove of a key that is taken: the entry goes, the retain goes on. *)
RemoveTaken(k) ==
  /\ UserCode
  /\ table.entry[k] = "taken"
  /\ table' = Removed(table, k)
  /\ UNCHANGED <<next, key, active, dropped, held, calls, expelled>>

VisitRemoved ==
  /\ calls # <<>> /\ Top.op = "remove" /\ Top.running = 0
  /\ Top.todo # {}
  /\ LET s == Min(Top.todo) IN
       Replace([Top EXCEPT !.todo = @ \ {s},
                           !.running = IF s \in active THEN s ELSE 0])
  /\ UNCHANGED <<table, next, key, active, dropped, held, expelled>>

ReturnRemoved ==
  /\ calls # <<>> /\ Top.op = "remove" /\ Top.running # 0
  /\ Replace([Top EXCEPT !.running = 0])
  /\ UNCHANGED <<table, next, key, active, dropped, held, expelled>>

EndRemove ==
  /\ calls # <<>> /\ Top.op = "remove" /\ Top.running = 0
  /\ Top.todo = {}
  /\ Pop
  /\ UNCHANGED <<table, next, key, active, dropped, held, expelled>>

Next ==
  \/ Insert
  \/ \E s \in Subscribers : Activate(s)
  \/ \E s \in Subscribers : DropSubscription(s)
  \/ \E s \in Subscribers : Detach(s)
  \/ \E k \in Keys : BeginRetain(k)
  \/ \E k \in Keys : BeginRemove(k)
  \/ \E k \in Keys : RemoveTaken(k)
  \/ VisitRetained
  \/ \E keep \in BOOLEAN : ReturnRetained(keep)
  \/ EndRetain
  \/ VisitRemoved
  \/ ReturnRemoved
  \/ EndRemove

Spec == Init /\ [][Next]_vars

-----------------------------------------------------------------------------
(* Properties *)

Retaining(k) == {i \in DOMAIN calls : calls[i].op = "retain" /\ calls[i].key = k}

(* Where a subscriber is: in the map, or kept by retains in progress. *)
Places(s) == Cardinality({i \in Retaining(key[s]) : s \in calls[i].kept})
             + (IF s \in table.subs[key[s]] THEN 1 ELSE 0)

(* However the calls nest, a subscriber that nobody dropped or expelled is *)
(* in one place, from which the next retain will reach it; and none is in  *)
(* two, from which it would be invoked twice for one notification.  No key *)
(* is left taken, which would silence its subscribers for good, and a map  *)
(* in the table is never empty.                                            *)
NoneLostNorDoubled ==
  /\ \A s \in Inserteds :
       /\ Places(s) <= 1
       /\ s \notin dropped \cup expelled => Places(s) = 1
  /\ \A k \in Keys :
       /\ table.entry[k] = "taken" => Retaining(k) # {}
       /\ Present(table, k) <=> table.subs[k] # {}

(* Callbacks about to run: the subscriber the step started to invoke. *)
Invoked(op) == IF Len(calls') = Len(calls) /\ calls # <<>> /\ calls'[Len(calls)].op = op
               THEN {calls'[Len(calls)].running} \ {Top.running, 0} ELSE {}

(* "When dropped, the subscription is cancelled and the callback will no   *)
(* longer be invoked", even when a callback of the same retain dropped it. *)
RetainHonoursDrop == [][Invoked("retain") \cap dropped = {}]_vars
=============================================================================
