------------------------------ MODULE EntityMap ------------------------------
(***************************************************************************)
(* The entity map of an App and the reference counts behind Entity<T> and  *)
(* WeakEntity<T> (crates/gpui/src/app/entity_map.rs).                      *)
(*                                                                         *)
(* The values of the entities and the map belong to the main thread; the   *)
(* counts and the list of dropped ids sit behind one RwLock, because       *)
(* strong handles are cloned and dropped, and weak ones upgraded, on any   *)
(* thread.  One action is one critical section of that lock, split where   *)
(* another thread can act inside it:                                       *)
(*   - Drop takes the lock in upgradable mode, decrements, and only then   *)
(*     upgrades the lock to record that the last handle is gone;           *)
(*   - Upgrade holds the lock shared around a compare-exchange loop.       *)
(* The names of the specification's parts carry a prefix: AppTablesProofs  *)
(* extends this module along with SubscriberSet.                           *)
(***************************************************************************)
EXTENDS Naturals, Sequences, FiniteSets

CONSTANTS
  Threads,     \* threads that own handles
  Main,        \* the thread of the App
  Ids,         \* EntityIds; a SlotMap key is never handed out twice
  Handles,     \* identities of AnyEntity values
  NoHandle,    \* an AnyEntity that does not exist
  NoId         \* no entity is being dropped or upgraded

ASSUME MainAssumption == Main \in Threads
ASSUME NoneAssumption == NoHandle \notin Handles /\ NoId \notin Ids

VARIABLES
  slot,      \* EntityRefCounts::counts: is the key unused, counted or removed
  count,     \* the AtomicUsize of a counted key
  droppedIds,  \* EntityRefCounts::dropped_entity_ids
  box,       \* EntityMap::entities: the value is absent, stored, leased, released
  borrowed,  \* the handle a lease of the entity was taken through
  target,    \* the entity a strong handle points to, NoId when it is not alive
  owner,     \* the thread that owns a strong handle
  pc,        \* where a thread is inside Drop or Upgrade
  arg,       \* the entity it is dropping or upgrading
  loaded     \* the count read by atomic_incr_if_not_zero

entityVars == <<slot, count, droppedIds, box, borrowed, target, owner, pc, arg, loaded>>
boxes == <<box, borrowed>>
handles == <<target, owner>>
locals == <<pc, arg, loaded>>

Slots == {"unused", "counted", "removed"}
Boxes == {"absent", "stored", "leased", "released"}
Steps == {"idle", "last", "upgrade", "cas"}

EntityTypeOK ==
  /\ slot \in [Ids -> Slots]
  /\ count \in [Ids -> Nat]
  /\ droppedIds \in Seq(Ids)
  /\ box \in [Ids -> Boxes]
  /\ borrowed \in [Ids -> Handles \cup {NoHandle}]
  /\ target \in [Handles -> Ids \cup {NoId}]
  /\ owner \in [Handles -> Threads]
  /\ pc \in [Threads -> Steps]
  /\ arg \in [Threads -> Ids \cup {NoId}]
  /\ loaded \in [Threads -> Nat]

-----------------------------------------------------------------------------
(* The lock.  A thread in "cas" holds it shared, one in "last" or          *)
(* "upgrade" holds it upgradable; "upgrade" has also set the writer bit,   *)
(* which keeps new readers out until the ones inside have left.            *)

NoReader == \A t \in Threads : pc[t] # "cas"
NoUpgradable == \A t \in Threads : pc[t] \notin {"last", "upgrade"}
CanRead == \A t \in Threads : pc[t] # "upgrade"
CanWrite == NoReader /\ NoUpgradable

Live(h) == target[h] # NoId
HandlesTo(e) == {h \in Handles : target[h] = e}
Owns(t, h) == Live(h) /\ owner[h] = t
Borrowed(h) == \E e \in Ids : borrowed[e] = h

-----------------------------------------------------------------------------
EntityInit ==
  /\ slot = [e \in Ids |-> "unused"]
  /\ count = [e \in Ids |-> 0]
  /\ droppedIds = <<>>
  /\ box = [e \in Ids |-> "absent"]
  /\ borrowed = [e \in Ids |-> NoHandle]
  /\ target = [h \in Handles |-> NoId]
  /\ owner = [h \in Handles |-> Main]
  /\ pc = [t \in Threads |-> "idle"]
  /\ arg = [t \in Threads |-> NoId]
  /\ loaded = [t \in Threads |-> 0]

(* A handle comes to life: thread t now owns h, which points to e. *)
Make(h, e, t) ==
  /\ ~Live(h)
  /\ target' = [target EXCEPT ![h] = e]
  /\ owner' = [owner EXCEPT ![h] = t]

(* EntityMap::reserve: a fresh key with a count of one, for the Slot. *)
Reserve(h, e) ==
  /\ pc[Main] = "idle"
  /\ CanWrite
  /\ slot[e] = "unused"
  /\ slot' = [slot EXCEPT ![e] = "counted"]
  /\ count' = [count EXCEPT ![e] = 1]
  /\ Make(h, e, Main)
  /\ UNCHANGED <<droppedIds, boxes, locals>>

(* EntityMap::insert: the Slot's entity gets its value. *)
InsertEntity(h) ==
  /\ pc[Main] = "idle"
  /\ Owns(Main, h)
  /\ box[target[h]] = "absent"
  /\ box' = [box EXCEPT ![target[h]] = "stored"]
  /\ UNCHANGED <<slot, count, droppedIds, borrowed, handles, locals>>

(* EntityMap::lease moves the value out of the map; the handle stays       *)
(* borrowed until end_lease.  A second lease of the entity panics.         *)
Lease(h) ==
  /\ pc[Main] = "idle"
  /\ Owns(Main, h)
  /\ box[target[h]] = "stored"
  /\ box' = [box EXCEPT ![target[h]] = "leased"]
  /\ borrowed' = [borrowed EXCEPT ![target[h]] = h]
  /\ UNCHANGED <<slot, count, droppedIds, handles, locals>>

EndLease(e) ==
  /\ pc[Main] = "idle"
  /\ borrowed[e] # NoHandle
  /\ box' = [box EXCEPT ![e] = "stored"]
  /\ borrowed' = [borrowed EXCEPT ![e] = NoHandle]
  /\ UNCHANGED <<slot, count, droppedIds, handles, locals>>

(* AnyEntity::clone increments under the shared lock. *)
Clone(t, h, new) ==
  /\ pc[t] = "idle"
  /\ CanRead
  /\ Owns(t, h)
  /\ count' = [count EXCEPT ![target[h]] = @ + 1]
  /\ Make(new, target[h], t)
  /\ UNCHANGED <<slot, droppedIds, boxes, locals>>

(* A handle is Send: it moves to another thread with whatever owns it. *)
Send(t, h, u) ==
  /\ pc[t] = "idle"
  /\ Owns(t, h)
  /\ ~Borrowed(h)
  /\ u # t
  /\ owner' = [owner EXCEPT ![h] = u]
  /\ UNCHANGED <<slot, count, droppedIds, boxes, target, locals>>

(* Mutant of Drop: compares the new count, not the previous one, with one. *)
DropMisread(t, h) ==
  /\ pc[t] = "idle"
  /\ NoUpgradable
  /\ Owns(t, h)
  /\ ~Borrowed(h)
  /\ count' = [count EXCEPT ![target[h]] = @ - 1]
  /\ target' = [target EXCEPT ![h] = NoId]
  /\ IF count'[target[h]] = 1
     THEN pc' = [pc EXCEPT ![t] = "last"] /\ arg' = [arg EXCEPT ![t] = target[h]]
     ELSE UNCHANGED <<pc, arg>>
  /\ UNCHANGED <<slot, droppedIds, boxes, owner, loaded>>

(* AnyEntity::drop, up to the decrement, which decides whether this was    *)
(* the last handle.  The upgradable lock admits one such thread at a time. *)
Drop(t, h) ==
  /\ pc[t] = "idle"
  /\ NoUpgradable
  /\ Owns(t, h)
  /\ ~Borrowed(h)
  /\ count' = [count EXCEPT ![target[h]] = @ - 1]
  /\ target' = [target EXCEPT ![h] = NoId]
  /\ IF count[target[h]] = 1
     THEN /\ pc' = [pc EXCEPT ![t] = "last"]
          /\ arg' = [arg EXCEPT ![t] = target[h]]
     ELSE UNCHANGED <<pc, arg>>
  /\ UNCHANGED <<slot, droppedIds, boxes, owner, loaded>>

(* RwLockUpgradableReadGuard::upgrade sets the writer bit ... *)
UpgradeLock(t) ==
  /\ pc[t] = "last"
  /\ pc' = [pc EXCEPT ![t] = "upgrade"]
  /\ UNCHANGED <<slot, count, droppedIds, boxes, handles, arg, loaded>>

(* ... and, when the readers have left, the id is recorded. *)
PushDropped(t) ==
  /\ pc[t] = "upgrade"
  /\ NoReader
  /\ droppedIds' = Append(droppedIds, arg[t])
  /\ pc' = [pc EXCEPT ![t] = "idle"]
  /\ arg' = [arg EXCEPT ![t] = NoId]
  /\ UNCHANGED <<slot, count, boxes, handles, loaded>>

(* AnyWeakEntity::upgrade finds the count, and atomic_incr_if_not_zero     *)
(* loads it.  A removed key or a zero count is answered with None.         *)
Load(t, e) ==
  /\ pc[t] = "idle"
  /\ CanRead
  /\ slot[e] = "counted"
  /\ count[e] # 0
  /\ pc' = [pc EXCEPT ![t] = "cas"]
  /\ arg' = [arg EXCEPT ![t] = e]
  /\ loaded' = [loaded EXCEPT ![t] = count[e]]
  /\ UNCHANGED <<slot, count, droppedIds, boxes, handles>>

(* Mutant of Exchange: a plain store instead of the compare-exchange. *)
BlindStore(t, h) ==
  /\ pc[t] = "cas"
  /\ count' = [count EXCEPT ![arg[t]] = loaded[t] + 1]
  /\ Make(h, arg[t], t)
  /\ pc' = [pc EXCEPT ![t] = "idle"]
  /\ arg' = [arg EXCEPT ![t] = NoId]
  /\ UNCHANGED <<slot, droppedIds, boxes, loaded>>

(* compare_exchange_weak succeeded: the upgrade yields a strong handle. *)
Exchange(t, h) ==
  /\ pc[t] = "cas"
  /\ count[arg[t]] = loaded[t]
  /\ count' = [count EXCEPT ![arg[t]] = loaded[t] + 1]
  /\ Make(h, arg[t], t)
  /\ pc' = [pc EXCEPT ![t] = "idle"]
  /\ arg' = [arg EXCEPT ![t] = NoId]
  /\ UNCHANGED <<slot, droppedIds, boxes, loaded>>

(* Mutant of Retry: reloads the count without looking whether it is zero. *)
RetryDead(t) ==
  /\ pc[t] = "cas"
  /\ count[arg[t]] # loaded[t]
  /\ loaded' = [loaded EXCEPT ![t] = count[arg[t]]]
  /\ UNCHANGED <<slot, count, droppedIds, boxes, handles, pc, arg>>

(* It failed: the loop goes round with the actual count, and gives up when *)
(* that is zero.  (A spurious failure changes nothing.)                    *)
Retry(t) ==
  /\ pc[t] = "cas"
  /\ count[arg[t]] # loaded[t]
  /\ IF count[arg[t]] = 0
     THEN /\ pc' = [pc EXCEPT ![t] = "idle"]
          /\ arg' = [arg EXCEPT ![t] = NoId]
          /\ UNCHANGED loaded
     ELSE /\ loaded' = [loaded EXCEPT ![t] = count[arg[t]]]
          /\ UNCHANGED <<pc, arg>>
  /\ UNCHANGED <<slot, count, droppedIds, boxes, handles>>

IsDropped(e) == \E i \in 1..Len(droppedIds) : droppedIds[i] = e

(* EntityMap::take_dropped: every recorded id leaves the counts, and the   *)
(* values that are in the map are handed to the caller to be released.     *)
TakeDropped ==
  /\ pc[Main] = "idle"
  /\ CanWrite
  /\ droppedIds # <<>>
  /\ droppedIds' = <<>>
  /\ slot' = [e \in Ids |-> IF IsDropped(e) THEN "removed" ELSE slot[e]]
  /\ box' = [e \in Ids |-> IF IsDropped(e) /\ box[e] = "stored"
                           THEN "released" ELSE box[e]]
  /\ UNCHANGED <<count, borrowed, handles, locals>>

EntityNext ==
  \/ \E h \in Handles, e \in Ids : Reserve(h, e)
  \/ \E h \in Handles : InsertEntity(h)
  \/ \E h \in Handles : Lease(h)
  \/ \E e \in Ids : EndLease(e)
  \/ \E t \in Threads, h, new \in Handles : Clone(t, h, new)
  \/ \E t, u \in Threads, h \in Handles : Send(t, h, u)
  \/ \E t \in Threads, h \in Handles : Drop(t, h)
  \/ \E t \in Threads : UpgradeLock(t)
  \/ \E t \in Threads : PushDropped(t)
  \/ \E t \in Threads, e \in Ids : Load(t, e)
  \/ \E t \in Threads, h \in Handles : Exchange(t, h)
  \/ \E t \in Threads : Retry(t)
  \/ TakeDropped

EntitySpec == EntityInit /\ [][EntityNext]_entityVars

-----------------------------------------------------------------------------
(* Properties *)

(* The counter of an entity is the number of strong handles alive, on all  *)
(* threads: no increment or decrement is lost to a race between clone,     *)
(* drop and upgrade.                                                       *)
CountIsHandles ==
  \A e \in Ids : slot[e] = "counted" => count[e] = Cardinality(HandlesTo(e))

(* A strong handle keeps its entity: the key is still counted, so clone    *)
(* and drop never panic with "over-release", and its value has not been    *)
(* released under it.                                                      *)
HandleKeepsEntity ==
  \A h \in Handles : Live(h) =>
    /\ slot[target[h]] = "counted"
    /\ count[target[h]] > 0
    /\ box[target[h]] # "released"

Dropping(t, e) == pc[t] \in {"last", "upgrade"} /\ arg[t] = e

(* Exactly the dead entities are recorded, or are about to be, and each    *)
(* only once: take_dropped's `counts.remove(id).unwrap()` finds its key,   *)
(* its assertion that the count is zero holds, and no entity is forgotten. *)
DeadIsRecordedOnce ==
  /\ \A i, j \in 1..Len(droppedIds) : droppedIds[i] = droppedIds[j] => i = j
  /\ \A t, u \in Threads, e, f \in Ids : Dropping(t, e) /\ Dropping(u, f) => t = u
  /\ \A e \in Ids :
       /\ ~(IsDropped(e) /\ \E t \in Threads : Dropping(t, e))
       /\ (slot[e] = "counted" /\ count[e] = 0)
            <=> (IsDropped(e) \/ \E t \in Threads : Dropping(t, e))

(* An entity whose last handle is gone never gets a handle again, however  *)
(* weak handles race with the drop and with take_dropped.                  *)
NoResurrection ==
  [][\A e \in Ids : slot[e] # "unused" /\ HandlesTo(e) = {} => HandlesTo(e)' = {}]_entityVars

(* Threads finish a Drop or an Upgrade they began, and the App keeps       *)
(* flushing effects.  The lock is task-fair: a writer that waits blocks    *)
(* new readers, so a flush is not starved by them.                         *)
Fairness ==
  /\ \A t \in Threads :
       /\ WF_entityVars(UpgradeLock(t))
       /\ WF_entityVars(PushDropped(t))
       /\ WF_entityVars(Retry(t) \/ \E h \in Handles : Exchange(t, h))
  /\ \A e \in Ids : WF_entityVars(EndLease(e))
  /\ SF_entityVars(TakeDropped)

FairSpec == EntitySpec /\ Fairness

(* An entity that has lost its last handle is eventually released. *)
DeadIsReleased ==
  \A e \in Ids : (slot[e] = "counted" /\ count[e] = 0) ~> slot[e] = "removed"
=============================================================================
