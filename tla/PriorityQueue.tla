---------------------------- MODULE PriorityQueue ----------------------------
(***************************************************************************)
(* The priority queue of the dispatchers (crates/gpui/src/queue.rs): three *)
(* deques behind one mutex, a condvar for blocked receivers, and counts of *)
(* senders and receivers that are read without the mutex.                  *)
(*                                                                         *)
(* A critical section is one action; a receiver that is notified has still *)
(* to get the mutex back, and others may get it first.  The Sender is one  *)
(* value that the sending threads share.                                   *)
(* The names of the specification's parts carry a prefix: DispatchProofs   *)
(* extends this module along with Foreground.                              *)
(***************************************************************************)
EXTENDS Naturals, Sequences, FiniteSets

CONSTANTS
  Senders,    \* threads that share the Sender
  Receivers,  \* receivers, each used by one thread
  MaxItems    \* bound: items ever sent

ASSUME ReceiversAssumption == IsFiniteSet(Receivers)
ASSUME MaxItemsAssumption == MaxItems \in Nat

Priorities == {"high", "medium", "low"}
Weight == [p \in Priorities |-> CASE p = "high" -> 60 [] p = "medium" -> 30 [] OTHER -> 10]
Above(p) == CASE p = "high" -> {} [] p = "medium" -> {"high"} [] OTHER -> {"high", "medium"}

VARIABLES
  queue,        \* the items of each priority, numbered in the order they were pushed
  next,         \* the number of the next item
  senderCount,  \* 1 until the Sender is dropped
  alive,        \* receivers that exist; their number is receiver_count
  sending,      \* threads that found a receiver and go for the mutex
  rpc,          \* a receiver is idle, waiting, or woken and without the mutex
  taken,        \* history: items received
  last          \* history: the last item received of each priority

history == <<taken, last>>
queueVars == <<queue, next, senderCount, alive, sending, rpc, history>>

QueueTypeOK ==
  /\ queue \in [Priorities -> Seq(1..MaxItems)]
  /\ next \in 1..(MaxItems + 1)
  /\ senderCount \in {0, 1}
  /\ alive \subseteq Receivers
  /\ sending \subseteq Senders
  /\ rpc \in [Receivers -> {"idle", "waiting", "woken"}]
  /\ taken \subseteq 1..MaxItems
  /\ last \in [Priorities -> 0..MaxItems]

QueueInit ==
  /\ queue = [p \in Priorities |-> <<>>]
  /\ next = 1
  /\ senderCount = 1
  /\ alive \in SUBSET Receivers /\ alive # {}
  /\ sending = {}
  /\ rpc = [r \in Receivers |-> "idle"]
  /\ taken = {}
  /\ last = [p \in Priorities |-> 0]

Waiting == {r \in Receivers : rpc[r] = "waiting"}
Woken == {r \in Receivers : rpc[r] = "woken"}
NonEmpty == {p \in Priorities : queue[p] # <<>>}
Total == Len(queue["high"]) + Len(queue["medium"]) + Len(queue["low"])

-----------------------------------------------------------------------------
(* send and spin_send: no receiver is an error, found before the mutex is  *)
(* taken, and without it.                                                  *)
Send(t) ==
  /\ senderCount = 1 /\ t \notin sending
  /\ alive # {}
  /\ sending' = sending \cup {t}
  /\ UNCHANGED <<queue, next, senderCount, alive, rpc, history>>

(* Mutant of Push: notifies only when the queue was empty. *)
PushFirst(t, p) ==
  /\ t \in sending /\ next <= MaxItems
  /\ sending' = sending \ {t}
  /\ queue' = [queue EXCEPT ![p] = Append(@, next)] /\ next' = next + 1
  /\ IF Waiting = {} \/ NonEmpty # {} THEN UNCHANGED rpc
     ELSE \E r \in Waiting : rpc' = [rpc EXCEPT ![r] = "woken"]
  /\ UNCHANGED <<senderCount, alive, history>>

(* push and notify_one under the mutex *)
Push(t, p) ==
  /\ t \in sending /\ next <= MaxItems
  /\ sending' = sending \ {t}
  /\ queue' = [queue EXCEPT ![p] = Append(@, next)]
  /\ next' = next + 1
  /\ IF Waiting = {} THEN UNCHANGED rpc
     ELSE \E r \in Waiting : rpc' = [rpc EXCEPT ![r] = "woken"]
  /\ UNCHANGED <<senderCount, alive, history>>

(* The last thread that shares the Sender drops it.  Nobody is notified. *)
DropSender ==
  /\ senderCount = 1 /\ sending = {}
  /\ senderCount' = 0
  /\ UNCHANGED <<queue, next, alive, sending, rpc, history>>

CloneReceiver(r) ==
  /\ alive # {} /\ r \notin alive
  /\ alive' = alive \cup {r}
  /\ UNCHANGED <<queue, next, senderCount, sending, rpc, history>>

DropReceiver(r) ==
  /\ r \in alive /\ rpc[r] = "idle"
  /\ alive' = alive \ {r}
  /\ UNCHANGED <<queue, next, senderCount, sending, rpc, history>>

Part(p) == IF p \in NonEmpty THEN Weight[p] ELSE 0

(* Mutant of Mass: is not reduced by the priorities that lost their flip. *)
WholeMass(p) == Part("high") + Part("medium") + Part("low")

(* The loaded die: the flip for p succeeds with probability Weight[p] over *)
(* the weights not yet passed over.                                        *)
Mass(p) == Part("low") + (IF p # "low" THEN Part("medium") ELSE 0)
                       + (IF p = "high" THEN Part("high") ELSE 0)
MayFail(p) == Weight[p] < Mass(p)
Rolls(p) == p \in NonEmpty /\ \A q \in NonEmpty \cap Above(p) : MayFail(q)

(* Mutant of Pop: takes the front item and leaves it there. *)
PopCopy(r, p) ==
  /\ r \in alive /\ rpc[r] \in {"idle", "woken"}
  /\ Rolls(p)
  /\ rpc' = [rpc EXCEPT ![r] = "idle"]
  /\ taken' = taken \cup {Head(queue[p])}
  /\ last' = [last EXCEPT ![p] = Head(queue[p])]
  /\ UNCHANGED <<queue, next, senderCount, alive, sending>>

(* pop, try_pop and spin_try_pop find an item; so may a receiver that was  *)
(* notified.                                                               *)
Pop(r, p) ==
  /\ r \in alive /\ rpc[r] \in {"idle", "woken"}
  /\ Rolls(p)
  /\ queue' = [queue EXCEPT ![p] = Tail(@)]
  /\ rpc' = [rpc EXCEPT ![r] = "idle"]
  /\ taken' = taken \cup {Head(queue[p])}
  /\ last' = [last EXCEPT ![p] = Head(queue[p])]
  /\ UNCHANGED <<next, senderCount, alive, sending>>

(* pop finds none, and waits: unless there is no sender, which only a call *)
(* that begins looks at, and answers with an error.                        *)
Wait(r) ==
  /\ r \in alive /\ NonEmpty = {}
  /\ \/ rpc[r] = "idle" /\ senderCount # 0
     \/ rpc[r] = "woken"
  /\ rpc' = [rpc EXCEPT ![r] = "waiting"]
  /\ UNCHANGED <<queue, next, senderCount, alive, sending, history>>

QueueNext ==
  \/ \E t \in Senders : Send(t) \/ \E p \in Priorities : Push(t, p)
  \/ DropSender
  \/ \E r \in Receivers :
       CloneReceiver(r) \/ DropReceiver(r) \/ Wait(r) \/ \E p \in Priorities : Pop(r, p)

QueueSpec == QueueInit /\ [][QueueNext]_queueVars

-----------------------------------------------------------------------------
(* Properties *)

(* No lost wakeup: while a receiver is blocked there are no more items     *)
(* than receivers already notified, also when others take the items those  *)
(* were notified of, and when several items arrive before anyone wakes.    *)
BlockedOnlyWhenServed == Waiting # {} => Total <= Cardinality(Woken)

Items(q) == {q[i] : i \in DOMAIN q}
Queued == UNION {Items(queue[p]) : p \in Priorities}

(* An item sent is in one queue until one receiver has taken it, and those *)
(* of one priority are received in the order they were pushed.             *)
ReceivedOnceInOrder ==
  /\ Queued \cap taken = {}
  /\ Queued \cup taken = 1..(next - 1)
  /\ Total = Cardinality(Queued)
  /\ \A p \in Priorities :
       /\ \A i \in DOMAIN queue[p] : last[p] < queue[p][i]
       /\ \A i, j \in DOMAIN queue[p] : i < j => queue[p][i] < queue[p][j]

(* The die never falls through on a queue with items, for which pop's      *)
(* unwrap would panic, and no flip has odds above one, for which           *)
(* random_ratio would.                                                     *)
DieAlwaysLands ==
  /\ \A p \in NonEmpty : Weight[p] <= Mass(p)
  /\ NonEmpty # {} => \E p \in NonEmpty : Rolls(p) /\ ~MayFail(p)
=============================================================================
