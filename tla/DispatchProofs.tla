--------------------------- MODULE DispatchProofs ---------------------------
(***************************************************************************)
(* Theorems about how work reaches its thread, for any threads, runnables, *)
(* senders, receivers and items: of Foreground, that Main never sleeps on  *)
(* its queue and that no dispatcher takes a step that a PlatformDispatcher *)
(* may not; of PriorityQueue, that nothing is lost, overtaken or slept on. *)
(***************************************************************************)
EXTENDS Foreground, PriorityQueue, FiniteSetTheorems, SequenceTheorems, TLAPS

AtFlag == \E u \in Threads : pc[u] = "flag"
AtRing == \E u \in Threads : pc[u] = "ring"

(* The web, from the last look at the queue to the wait: whatever came     *)
(* since has set the signal, or will.                                      *)
WebArmed == Web /\ Mailbox # {} /\ step = "arm" => flag \/ AtFlag
WebAsleep == Web /\ Mailbox # {} /\ step = "asleep" => bell > 0 \/ AtFlag \/ AtRing

(* Linux, from the last look at the queue to the poll. *)
LinuxPinged == Linux /\ Mailbox # {} /\ step \in {"idles", "asleep"} => bell > 0 \/ AtRing

(* Windows: a flag that is set while Main does not look at the queue has a *)
(* message behind it; and only between clearing the flag and setting it    *)
(* again may it be down with a runnable queued by a sender that is gone.   *)
FlagPosted ==
  Windows /\ flag /\ step \in {"asleep", "again", "sizemove"} => bell > 0 \/ AtRing
FlagRaised == Windows /\ Mailbox # {} /\ ~flag /\ step \notin {"again", "set"} => AtFlag

IInv == TypeOK /\ WebArmed /\ WebAsleep /\ LinuxPinged /\ FlagPosted /\ FlagRaised

USE ThreadsAssumption, NoTaskAssumption

LEMMA InvImpliesHeard == IInv => Heard
  BY DEF IInv, TypeOK, WebAsleep, LinuxPinged, FlagPosted, FlagRaised, Heard, Coming, AtFlag, AtRing,
         Web, Linux, Windows, Platforms

LEMMA InitInv == Init => IInv
<1> SUFFICES ASSUME Init PROVE IInv
  OBVIOUS
<1>1. TypeOK
  <2>1. platform \in Platforms /\ step \in Steps /\ flag \in BOOLEAN /\ bell \in Nat
    BY DEF Init, Platforms, Steps
  <2>2. place \in [Tasks -> Places] /\ call \in [Tasks -> Calls]
    BY DEF Init, Places, Calls
  <2>3. pc \in [Threads -> {"free", "run"} \cup SendSteps] /\ running \in [Threads -> Tasks \cup {NoTask}]
    BY DEF Init
  <2> QED BY <2>1, <2>2, <2>3 DEF TypeOK
<1>2. Mailbox = {} /\ flag = FALSE
  BY DEF Init, Mailbox, In
<1> QED BY <1>1, <1>2 DEF IInv, WebArmed, WebAsleep, LinuxPinged, FlagPosted, FlagRaised

LEMMA CommonStep ==
  ASSUME IInv,
         Callback \/ \E u \in Threads : Return(u) \/ \E t \in Tasks : Dispatch(u, t) \/ RunElsewhere(u, t)
  PROVE  IInv'
<1> USE DEF IInv, TypeOK, WebArmed, WebAsleep, LinuxPinged, FlagPosted, FlagRaised, Mailbox, In,
         AtFlag, AtRing, Platforms, Places, Calls, SendSteps, Steps, Threads, Web, Linux, Windows,
         Go, Move, Hand, MainAt, InEventLoop
<1>1. CASE Callback
  BY <1>1 DEF Callback
<1>2. ASSUME NEW u \in Threads, Return(u) PROVE IInv'
  BY <1>2 DEF Return
<1>3. ASSUME NEW u \in Threads, NEW t \in Tasks, Dispatch(u, t) PROVE IInv'
  BY <1>3 DEF Dispatch
<1>4. ASSUME NEW u \in Threads, NEW t \in Tasks, RunElsewhere(u, t) PROVE IInv'
  BY <1>4 DEF RunElsewhere
<1> QED BY <1>1, <1>2, <1>3, <1>4

LEMMA WebKeepsInv == IInv /\ WebNext => IInv'
<1> SUFFICES ASSUME IInv, WebNext PROVE IInv'
  OBVIOUS
<1> USE DEF IInv, TypeOK, WebArmed, WebAsleep, LinuxPinged, FlagPosted, FlagRaised, Mailbox, In,
         AtFlag, AtRing, Platforms, Places, Calls, SendSteps, Steps, Threads, Web, Linux, Windows,
         Go, Move, Hand, MainAt, InEventLoop, RunOnMain, WebStep, LinuxStep, WindowsStep
<1>1. ASSUME NEW u \in Threads, NEW t \in Tasks, NEW c \in {"any", "main", "idle"}, WebHandOver(u, t, c) PROVE IInv'
  BY <1>1 DEF WebHandOver
<1>2. ASSUME NEW u \in Threads, Store(u) PROVE IInv'
  BY <1>2 DEF Store
<1>3. ASSUME NEW u \in Threads, Notify(u) PROVE IInv'
  BY <1>3 DEF Notify
<1>4. CASE Start
  BY <1>4 DEF Start
<1>5. CASE Resume
  BY <1>5 DEF Resume
<1>6. CASE Rearm
  BY <1>6 DEF Rearm
<1>7. CASE Drained
  BY <1>7 DEF Drained
<1>8. CASE Arm
  BY <1>8 DEF Arm
<1>9. ASSUME NEW t \in Tasks, DrainItem(t) PROVE IInv'
  BY <1>9 DEF DrainItem
<1>10. ASSUME NEW t \in Tasks, BrowserRun(t) PROVE IInv'
  BY <1>10 DEF BrowserRun
<1> QED BY <1>1, <1>2, <1>3, <1>4, <1>5, <1>6, <1>7, <1>8, <1>9, <1>10 DEF WebNext, WebLoop

LEMMA LinuxKeepsInv == IInv /\ LinuxNext => IInv'
<1> SUFFICES ASSUME IInv, LinuxNext PROVE IInv'
  OBVIOUS
<1> USE DEF IInv, TypeOK, WebArmed, WebAsleep, LinuxPinged, FlagPosted, FlagRaised, Mailbox, In,
         AtFlag, AtRing, Platforms, Places, Calls, SendSteps, Steps, Threads, Web, Linux, Windows,
         Go, Move, Hand, MainAt, InEventLoop, RunOnMain, WebStep, LinuxStep, WindowsStep
<1>1. ASSUME NEW u \in Threads, NEW t \in Tasks, LinuxSend(u, t) PROVE IInv'
  BY <1>1 DEF LinuxSend
<1>2. ASSUME NEW u \in Threads, NEW t \in Tasks, LinuxAfter(u, t) PROVE IInv'
  BY <1>2 DEF LinuxAfter
<1>3. ASSUME NEW u \in Threads, Ping(u) PROVE IInv'
  BY <1>3 DEF Ping
<1>4. CASE Poll
  BY <1>4 DEF Poll
<1>5. CASE SourceEnd
  BY <1>5 DEF SourceEnd
<1>6. CASE IdlesEnd
  BY <1>6 DEF IdlesEnd
<1>7. ASSUME NEW t \in Tasks, SourceItem(t) PROVE IInv'
  BY <1>7 DEF SourceItem
<1>8. ASSUME NEW t \in Tasks, RunIdle(t) PROVE IInv'
  BY <1>8 DEF RunIdle
<1> QED BY <1>1, <1>2, <1>3, <1>4, <1>5, <1>6, <1>7, <1>8 DEF LinuxNext, LinuxLoop

LEMMA WindowsKeepsInv == IInv /\ WindowsNext => IInv'
<1> SUFFICES ASSUME IInv, WindowsNext PROVE IInv'
  OBVIOUS
<1> USE DEF IInv, TypeOK, WebArmed, WebAsleep, LinuxPinged, FlagPosted, FlagRaised, Mailbox, In,
         AtFlag, AtRing, Platforms, Places, Calls, SendSteps, Steps, Threads, Web, Linux, Windows,
         Go, Move, Hand, MainAt, InEventLoop, RunOnMain, WebStep, LinuxStep, WindowsStep
<1>1. ASSUME NEW u \in Threads, NEW t \in Tasks, WindowsSend(u, t) PROVE IInv'
  BY <1>1 DEF WindowsSend
<1>2. ASSUME NEW u \in Threads, NEW t \in Tasks, WindowsAfter(u, t) PROVE IInv'
  BY <1>2 DEF WindowsAfter
<1>3. ASSUME NEW u \in Threads, Swap(u) PROVE IInv'
  BY <1>3 DEF Swap
<1>4. ASSUME NEW u \in Threads, PostMessage(u) PROVE IInv'
  BY <1>4 DEF PostMessage
<1>5. CASE Message
  BY <1>5 DEF Message
<1>6. CASE OverBudget
  BY <1>6 DEF OverBudget
<1>7. CASE Repost
  BY <1>7 DEF Repost
<1>8. CASE TasksDone
  BY <1>8 DEF TasksDone
<1>9. CASE Clear
  BY <1>9 DEF Clear
<1>10. CASE SetFlag
  BY <1>10 DEF SetFlag
<1>11. CASE AgainDone
  BY <1>11 DEF AgainDone
<1>12. CASE SizeMoveTimer
  BY <1>12 DEF SizeMoveTimer
<1>13. CASE SizeMoveDone
  BY <1>13 DEF SizeMoveDone
<1>14. ASSUME NEW t \in Tasks, PopTask(t) PROVE IInv'
  BY <1>14 DEF PopTask
<1>15. ASSUME NEW t \in Tasks, PopLate(t) PROVE IInv'
  BY <1>15 DEF PopLate
<1> QED BY <1>1, <1>2, <1>3, <1>4, <1>5, <1>6, <1>7, <1>8, <1>9, <1>10, <1>11, <1>12, <1>13, <1>14, <1>15 DEF WindowsNext, WindowsLoop

LEMMA Inductive == IInv /\ [Next]_vars => IInv'
<1> SUFFICES ASSUME IInv, [Next]_vars PROVE IInv'
  OBVIOUS
<1>1. CASE UNCHANGED vars
  BY <1>1 DEF vars, IInv, TypeOK, WebArmed, WebAsleep, LinuxPinged, FlagPosted, FlagRaised, Mailbox, In,
         AtFlag, AtRing, Web, Linux, Windows
<1>2. CASE Next
  BY <1>2, CommonStep, WebKeepsInv, LinuxKeepsInv, WindowsKeepsInv DEF Next
<1> QED BY <1>1, <1>2

LEMMA InvAlways == Spec => []IInv
<1>1. Init => IInv
  BY InitInv
<1>2. IInv /\ [Next]_vars => IInv'
  BY Inductive
<1> QED BY <1>1, <1>2, PTL DEF Spec

(* The state of every dispatcher keeps its type. *)
THEOREM TypeCorrect == Spec => []TypeOK
<1>1. IInv => TypeOK
  BY DEF IInv
<1> QED BY <1>1, InvAlways, PTL

(* Main never sleeps on a runnable: whoever put it into the queue has      *)
(* woken Main or is still to do so, on the web, Linux and Windows.         *)
THEOREM NoLostWakeup == Spec => []Heard
<1>1. IInv => Heard
  BY InvImpliesHeard
<1> QED BY <1>1, InvAlways, PTL

-----------------------------------------------------------------------------
(* Refinement.  What a runnable was handed over with bounds where it may   *)
(* run.                                                                    *)
Labelled(t) == /\ place[t] \in {"mailbox", "loop", "pool", "timer"} => call[t] \in {"any", "main", "idle"}
               /\ place[t] \in {"pool", "timer"} => call[t] = "any"
HandedOver == \A t \in Tasks : Labelled(t)
RInv == TypeOK /\ HandedOver

(* The place of one runnable changes: a step of the dispatcher.            *)
LEMMA HandStep ==
  ASSUME RInv, NEW t \in Tasks, NEW c \in {"any", "main", "idle"},
         NEW p \in {"mailbox", "loop", "pool", "timer"},
         Hand(t, c, p), p \in {"pool", "timer"} => c = "any"
  PROVE  HandedOver' /\ Abstract!Next
<1>1. HandedOver'
  BY DEF RInv, TypeOK, HandedOver, Labelled, Hand, Move, Places, Calls
<1>2. Seen[t] = "new" /\ Seen' = [Seen EXCEPT ![t] = c]
  BY DEF RInv, TypeOK, Hand, Move, Seen, Places, Calls
<1>3. Abstract!Dispatch(t) \/ Abstract!DispatchOnMainThread(t) \/ Abstract!DispatchOnMainThreadWhenIdle(t)
  BY <1>2 DEF Abstract!Dispatch, Abstract!DispatchOnMainThread, Abstract!DispatchOnMainThreadWhenIdle,
              Abstract!Handed
<1> QED BY <1>1, <1>3 DEF Abstract!Next

LEMMA RunStep ==
  ASSUME RInv, NEW t \in Tasks, NEW p \in {"onMain", "elsewhere"},
         Move(t, p), UNCHANGED call, place[t] \in {"mailbox", "loop", "pool", "timer"},
         p = "elsewhere" => place[t] \in {"pool", "timer"}
  PROVE  HandedOver' /\ Abstract!Next
<1>1. HandedOver'
  BY DEF RInv, TypeOK, HandedOver, Labelled, Move, Places, Calls
<1>2. Seen[t] = call[t] /\ Seen' = [Seen EXCEPT ![t] = p]
  BY DEF RInv, TypeOK, Move, Seen, Places, Calls
<1>3. call[t] \in {"any", "main", "idle"} /\ (p = "elsewhere" => call[t] = "any")
  BY DEF RInv, HandedOver, Labelled
<1>4. Abstract!Run(t)
  BY <1>2, <1>3 DEF Abstract!Run
<1> QED BY <1>1, <1>4 DEF Abstract!Next

(* From a queue into the event loop: nothing that the executors see. *)
LEMMA QueueStep ==
  ASSUME RInv, NEW t \in Tasks, Move(t, "loop"), UNCHANGED call, place[t] = "mailbox"
  PROVE  HandedOver' /\ UNCHANGED Seen
  BY DEF RInv, TypeOK, HandedOver, Labelled, Move, Seen, Places, Calls

LEMMA StillStep == RInv /\ UNCHANGED <<place, call>> => HandedOver' /\ UNCHANGED Seen
  BY DEF RInv, HandedOver, Labelled, Seen

Mapped == HandedOver' /\ (Abstract!Next \/ UNCHANGED Seen)

LEMMA CommonMaps == RInv /\ (Callback \/ \E u \in Threads : Return(u) \/ \E t \in Tasks : Dispatch(u, t) \/ RunElsewhere(u, t)) => Mapped
<1> SUFFICES ASSUME RInv,
         Callback \/ \E u \in Threads : Return(u) \/ \E t \in Tasks : Dispatch(u, t) \/ RunElsewhere(u, t)
   PROVE Mapped
  OBVIOUS
<1> USE DEF Mapped, MainAt
<1>1. CASE Callback
  BY <1>1, StillStep DEF Callback
<1>2. ASSUME NEW u \in Threads, Return(u) PROVE Mapped
  BY <1>2, StillStep DEF Return
<1>3. ASSUME NEW u \in Threads, NEW t \in Tasks, Dispatch(u, t) PROVE Mapped
  BY <1>3, HandStep DEF Dispatch
<1>4. ASSUME NEW u \in Threads, NEW t \in Tasks, RunElsewhere(u, t) PROVE Mapped
  BY <1>4, RunStep DEF RunElsewhere
<1> QED BY <1>1, <1>2, <1>3, <1>4

LEMMA WebMaps == RInv /\ WebNext => Mapped
<1> SUFFICES ASSUME RInv, WebNext PROVE Mapped
  OBVIOUS
<1> USE DEF Mapped, MainAt
<1>1. ASSUME NEW u \in Threads, NEW t \in Tasks, NEW c \in {"any", "main", "idle"}, WebHandOver(u, t, c) PROVE Mapped
  BY <1>1, HandStep DEF WebHandOver
<1>2. ASSUME NEW u \in Threads, Store(u) PROVE Mapped
  BY <1>2, StillStep DEF Store
<1>3. ASSUME NEW u \in Threads, Notify(u) PROVE Mapped
  BY <1>3, StillStep DEF Notify
<1>4. CASE Start
  BY <1>4, StillStep DEF Start, WebStep
<1>5. CASE Resume
  BY <1>5, StillStep DEF Resume, WebStep
<1>6. CASE Rearm
  BY <1>6, StillStep DEF Rearm, WebStep
<1>7. CASE Drained
  BY <1>7, StillStep DEF Drained, WebStep
<1>8. CASE Arm
  BY <1>8, StillStep DEF Arm, WebStep
<1>9. ASSUME NEW t \in Tasks, DrainItem(t) PROVE Mapped
  BY <1>9, RunStep, QueueStep DEF DrainItem, RunOnMain
<1>10. ASSUME NEW t \in Tasks, BrowserRun(t) PROVE Mapped
  BY <1>10, RunStep DEF BrowserRun, RunOnMain
<1> QED BY <1>1, <1>2, <1>3, <1>4, <1>5, <1>6, <1>7, <1>8, <1>9, <1>10 DEF WebNext, WebLoop

LEMMA LinuxMaps == RInv /\ LinuxNext => Mapped
<1> SUFFICES ASSUME RInv, LinuxNext PROVE Mapped
  OBVIOUS
<1> USE DEF Mapped, MainAt
<1>1. ASSUME NEW u \in Threads, NEW t \in Tasks, LinuxSend(u, t) PROVE Mapped
  BY <1>1, HandStep DEF LinuxSend
<1>2. ASSUME NEW u \in Threads, NEW t \in Tasks, LinuxAfter(u, t) PROVE Mapped
  BY <1>2, HandStep DEF LinuxAfter
<1>3. ASSUME NEW u \in Threads, Ping(u) PROVE Mapped
  BY <1>3, StillStep DEF Ping
<1>4. CASE Poll
  BY <1>4, StillStep DEF Poll, LinuxStep
<1>5. CASE SourceEnd
  BY <1>5, StillStep DEF SourceEnd, LinuxStep
<1>6. CASE IdlesEnd
  BY <1>6, StillStep DEF IdlesEnd, LinuxStep
<1>7. ASSUME NEW t \in Tasks, SourceItem(t) PROVE Mapped
  BY <1>7, RunStep, QueueStep DEF SourceItem, RunOnMain
<1>8. ASSUME NEW t \in Tasks, RunIdle(t) PROVE Mapped
  BY <1>8, RunStep DEF RunIdle, RunOnMain
<1> QED BY <1>1, <1>2, <1>3, <1>4, <1>5, <1>6, <1>7, <1>8 DEF LinuxNext, LinuxLoop

LEMMA WindowsMaps == RInv /\ WindowsNext => Mapped
<1> SUFFICES ASSUME RInv, WindowsNext PROVE Mapped
  OBVIOUS
<1> USE DEF Mapped, MainAt
<1>1. ASSUME NEW u \in Threads, NEW t \in Tasks, WindowsSend(u, t) PROVE Mapped
  BY <1>1, HandStep DEF WindowsSend
<1>2. ASSUME NEW u \in Threads, NEW t \in Tasks, WindowsAfter(u, t) PROVE Mapped
  BY <1>2, HandStep DEF WindowsAfter
<1>3. ASSUME NEW u \in Threads, Swap(u) PROVE Mapped
  BY <1>3, StillStep DEF Swap
<1>4. ASSUME NEW u \in Threads, PostMessage(u) PROVE Mapped
  BY <1>4, StillStep DEF PostMessage
<1>5. CASE Message
  BY <1>5, StillStep DEF Message, WindowsStep
<1>6. CASE OverBudget
  BY <1>6, StillStep DEF OverBudget, WindowsStep
<1>7. CASE Repost
  BY <1>7, StillStep DEF Repost, WindowsStep
<1>8. CASE TasksDone
  BY <1>8, StillStep DEF TasksDone, WindowsStep
<1>9. CASE Clear
  BY <1>9, StillStep DEF Clear, WindowsStep
<1>10. CASE SetFlag
  BY <1>10, StillStep DEF SetFlag, WindowsStep
<1>11. CASE AgainDone
  BY <1>11, StillStep DEF AgainDone, WindowsStep
<1>12. CASE SizeMoveTimer
  BY <1>12, StillStep DEF SizeMoveTimer, WindowsStep
<1>13. CASE SizeMoveDone
  BY <1>13, StillStep DEF SizeMoveDone, WindowsStep
<1>14. ASSUME NEW t \in Tasks, PopTask(t) PROVE Mapped
  BY <1>14, RunStep DEF PopTask, RunOnMain
<1>15. ASSUME NEW t \in Tasks, PopLate(t) PROVE Mapped
  BY <1>15, RunStep DEF PopLate
<1> QED BY <1>1, <1>2, <1>3, <1>4, <1>5, <1>6, <1>7, <1>8, <1>9, <1>10, <1>11, <1>12, <1>13, <1>14, <1>15 DEF WindowsNext, WindowsLoop

(* On each platform the dispatcher takes no step that the trait does not   *)
(* allow: nothing is run twice, or before it was handed over, or off the   *)
(* main thread when that was asked for.                                    *)
THEOREM DispatchersRefine == Spec => Abstract!Spec
<1>1. Init => Abstract!Init /\ HandedOver
  BY DEF Init, Abstract!Init, HandedOver, Labelled, Seen
<1>2. TypeOK /\ HandedOver /\ [Next]_vars => HandedOver' /\ [Abstract!Next]_Seen
  BY CommonMaps, WebMaps, LinuxMaps, WindowsMaps, StillStep DEF Next, vars, RInv, Mapped
<1> QED BY <1>1, <1>2, TypeCorrect, PTL DEF Spec, Abstract!Spec
-----------------------------------------------------------------------------
(* The priority queue *)

QueueInv == QueueTypeOK /\ BlockedOnlyWhenServed

LEMMA TotalInNat ==
  ASSUME QueueTypeOK
  PROVE  Total \in Nat
  BY DEF QueueTypeOK, Total, Priorities

LEMMA SubsetsFinite ==
  IsFiniteSet(Waiting) /\ IsFiniteSet(Woken) /\ Cardinality(Woken) \in Nat
  <1>1. Waiting \subseteq Receivers /\ Woken \subseteq Receivers
    BY DEF Waiting, Woken
  <1> QED
    BY <1>1, ReceiversAssumption, FS_Subset, FS_CardinalityType

(* Nothing is queued exactly when every deque is empty. *)
LEMMA EmptyTotal ==
  ASSUME QueueTypeOK, NonEmpty = {}
  PROVE  Total = 0
  BY DEF QueueTypeOK, NonEmpty, Total, Priorities

(* One deque that changes its length by d changes the total by d.          *)
LEMMA TotalMoves ==
  ASSUME QueueTypeOK, queue' \in [Priorities -> Seq(1..MaxItems)],
         NEW p \in Priorities, NEW d \in Int,
         Len(queue'[p]) = Len(queue[p]) + d,
         \A o \in Priorities \ {p} : queue'[o] = queue[o]
  PROVE  Total' = Total + d /\ Len(queue[p]) <= Total
  <1>1. \A o \in Priorities : Len(queue[o]) \in Nat /\ Len(queue'[o]) \in Nat
    BY DEF QueueTypeOK
  <1>2. PICK a \in Nat, b \in Nat, c \in Nat :
          a = Len(queue["high"]) /\ b = Len(queue["medium"]) /\ c = Len(queue["low"])
    BY <1>1 DEF Priorities
  <1>3. PICK x \in Nat, y \in Nat, z \in Nat :
          x = Len(queue'["high"]) /\ y = Len(queue'["medium"]) /\ z = Len(queue'["low"])
    BY <1>1 DEF Priorities
  <1>4. PICK n \in Nat : n = Len(queue[p])
    BY <1>1
  <1>5. \/ n = a /\ x = a + d /\ y = b /\ z = c
        \/ n = b /\ x = a /\ y = b + d /\ z = c
        \/ n = c /\ x = a /\ y = b /\ z = c + d
    <2>1. CASE p = "high"
      BY <1>2, <1>3, <1>4, <2>1 DEF Priorities
    <2>2. CASE p = "medium"
      BY <1>2, <1>3, <1>4, <2>2 DEF Priorities
    <2>3. CASE p = "low"
      BY <1>2, <1>3, <1>4, <2>3 DEF Priorities
    <2> QED
      BY <2>1, <2>2, <2>3 DEF Priorities
  <1>6. x + y + z = a + b + c + d /\ n <= a + b + c
    BY ONLY <1>5, a \in Nat, b \in Nat, c \in Nat, d \in Int
  <1>7. Total = a + b + c /\ Total' = x + y + z
    BY ONLY <1>2, <1>3 DEF Total
  <1> QED
    BY ONLY <1>4, <1>6, <1>7

LEMMA PushGrows ==
  ASSUME QueueTypeOK, NEW p \in Priorities, next \in 1..MaxItems,
         queue' = [queue EXCEPT ![p] = Append(@, next)]
  PROVE  /\ queue' \in [Priorities -> Seq(1..MaxItems)]
         /\ Total' = Total + 1
  <1>1. queue \in [Priorities -> Seq(1..MaxItems)] /\ queue[p] \in Seq(1..MaxItems)
    BY DEF QueueTypeOK
  <1>2. /\ Append(queue[p], next) \in Seq(1..MaxItems)
        /\ Len(Append(queue[p], next)) = Len(queue[p]) + 1
    BY <1>1
  <1>3. /\ queue' \in [Priorities -> Seq(1..MaxItems)]
        /\ Len(queue'[p]) = Len(queue[p]) + 1
        /\ \A o \in Priorities \ {p} : queue'[o] = queue[o]
    BY <1>1, <1>2
  <1>4. Total' = Total + 1
    BY <1>3, TotalMoves
  <1> QED
    BY <1>3, <1>4

LEMMA PopShrinks ==
  ASSUME QueueTypeOK, NEW p \in Priorities, p \in NonEmpty,
         queue' = [queue EXCEPT ![p] = Tail(@)]
  PROVE  /\ queue' \in [Priorities -> Seq(1..MaxItems)]
         /\ Head(queue[p]) \in 1..MaxItems
         /\ Total > 0 /\ Total' = Total - 1
  <1>1. /\ queue \in [Priorities -> Seq(1..MaxItems)]
        /\ queue[p] \in Seq(1..MaxItems) /\ queue[p] # <<>>
    BY DEF QueueTypeOK, NonEmpty
  <1>2. /\ Tail(queue[p]) \in Seq(1..MaxItems)
        /\ Len(Tail(queue[p])) = Len(queue[p]) - 1
        /\ Head(queue[p]) \in 1..MaxItems
    BY <1>1, HeadTailProperties
  <1>3. /\ queue' \in [Priorities -> Seq(1..MaxItems)]
        /\ Len(queue'[p]) = Len(queue[p]) - 1
        /\ \A o \in Priorities \ {p} : queue'[o] = queue[o]
    BY <1>1, <1>2
  <1>4. Len(queue[p]) \in Nat /\ Len(queue[p]) - 1 \in Nat /\ Total \in Nat
    BY <1>1, <1>2, TotalInNat
  <1>5. PICK d \in Int : d = -1
    OBVIOUS
  <1>6. Len(queue'[p]) = Len(queue[p]) + d
    BY ONLY <1>3, <1>4, <1>5
  <1>7. Total' = Total + d /\ Len(queue[p]) <= Total
    BY <1>3, <1>6, TotalMoves
  <1>8. Total' = Total - 1 /\ Total > 0
    <2>1. Len(queue[p]) > 0
      BY ONLY <1>4
    <2> QED
      BY ONLY <1>4, <1>5, <1>7, <2>1
  <1> QED
    BY <1>2, <1>3, <1>8

LEMMA QueueInitial == QueueInit => QueueInv
  <1> SUFFICES ASSUME QueueInit PROVE QueueInv
    OBVIOUS
  <1>1. Waiting = {}
    BY DEF QueueInit, Waiting
  <1>2. QueueTypeOK
    BY MaxItemsAssumption DEF QueueInit, QueueTypeOK, Priorities
  <1> QED
    BY <1>1, <1>2 DEF QueueInv, BlockedOnlyWhenServed

(* notify_one: the push that adds an item wakes a receiver, if any waits. *)
LEMMA PushStep ==
  ASSUME QueueInv, NEW t \in Senders, NEW p \in Priorities, Push(t, p)
  PROVE  QueueInv'
  <1>1. next \in 1..MaxItems
    BY MaxItemsAssumption DEF Push, QueueInv, QueueTypeOK
  <1>2. queue' \in [Priorities -> Seq(1..MaxItems)] /\ Total' = Total + 1
    BY <1>1, PushGrows DEF Push, QueueInv
  <1>3. QueueTypeOK'
    <2>1. next' \in 1..(MaxItems + 1)
      BY <1>1, MaxItemsAssumption DEF Push
    <2>2. rpc' \in [Receivers -> {"idle", "waiting", "woken"}]
      BY DEF Push, QueueInv, QueueTypeOK, Waiting
    <2> QED
      BY <1>2, <2>1, <2>2 DEF Push, QueueInv, QueueTypeOK, history
  <1>4. CASE Waiting = {}
    <2>1. Waiting' = {}
      BY <1>4 DEF Push, Waiting
    <2> QED
      BY <1>3, <2>1 DEF QueueInv, BlockedOnlyWhenServed
  <1>5. CASE Waiting # {}
    <2>1. PICK r \in Waiting : rpc' = [rpc EXCEPT ![r] = "woken"]
      BY <1>5 DEF Push
    <2>2. r \notin Woken /\ Woken' = Woken \cup {r}
      BY <2>1 DEF Waiting, Woken, QueueInv, QueueTypeOK
    <2>3. Cardinality(Woken') = Cardinality(Woken) + 1
      BY <2>2, SubsetsFinite, FS_AddElement
    <2>4. Total <= Cardinality(Woken)
      BY <1>5 DEF QueueInv, BlockedOnlyWhenServed
    <2>5. Total' <= Cardinality(Woken')
      BY <1>2, <2>3, <2>4, TotalInNat, SubsetsFinite DEF QueueInv
    <2> QED
      BY <1>3, <2>5 DEF QueueInv, BlockedOnlyWhenServed
  <1> QED
    BY <1>4, <1>5

(* A notified receiver that takes an item is one of each fewer; any other  *)
(* that does leaves a notification to spare.                               *)
LEMMA PopStep ==
  ASSUME QueueInv, NEW r \in Receivers, NEW p \in Priorities, Pop(r, p)
  PROVE  QueueInv'
  <1>1. p \in NonEmpty
    BY DEF Pop, Rolls
  <1>2. /\ queue' \in [Priorities -> Seq(1..MaxItems)]
        /\ Head(queue[p]) \in 1..MaxItems
        /\ Total > 0 /\ Total' = Total - 1
    BY <1>1, PopShrinks DEF Pop, QueueInv
  <1>3. QueueTypeOK'
    <2>1. rpc' \in [Receivers -> {"idle", "waiting", "woken"}]
      BY DEF Pop, QueueInv, QueueTypeOK
    <2>2. last' \in [Priorities -> 0..MaxItems]
      BY <1>2, MaxItemsAssumption DEF Pop, QueueInv, QueueTypeOK
    <2> QED
      BY <1>2, <2>1, <2>2 DEF Pop, QueueInv, QueueTypeOK
  <1>4. rpc' = [rpc EXCEPT ![r] = "idle"] /\ rpc[r] \in {"idle", "woken"}
    BY DEF Pop
  <1>5. Waiting' = Waiting
    BY <1>4 DEF Waiting, QueueInv, QueueTypeOK
  <1>6. ASSUME Waiting # {} PROVE Total' <= Cardinality(Woken')
    <2>1. Total <= Cardinality(Woken)
      BY <1>6 DEF QueueInv, BlockedOnlyWhenServed
    <2>2. CASE rpc[r] = "woken"
      <3>1. r \in Woken /\ Woken' = Woken \ {r}
        BY <1>4, <2>2 DEF Woken, QueueInv, QueueTypeOK
      <3>2. Cardinality(Woken') = Cardinality(Woken) - 1
        BY <3>1, SubsetsFinite, FS_RemoveElement
      <3> QED
        BY <1>2, <2>1, <3>2, TotalInNat, SubsetsFinite DEF QueueInv
    <2>3. CASE rpc[r] = "idle"
      <3>1. Woken' = Woken
        BY <1>4, <2>3 DEF Woken, QueueInv, QueueTypeOK
      <3> QED
        BY <1>2, <2>1, <3>1, TotalInNat, SubsetsFinite DEF QueueInv
    <2> QED
      BY <1>4, <2>2, <2>3
  <1> QED
    BY <1>3, <1>5, <1>6 DEF QueueInv, BlockedOnlyWhenServed

(* A receiver goes to wait with the mutex held and nothing in the queue.   *)
LEMMA WaitStep ==
  ASSUME QueueInv, NEW r \in Receivers, Wait(r)
  PROVE  QueueInv'
  <1>1. QueueTypeOK'
    BY DEF Wait, QueueInv, QueueTypeOK, history
  <1>2. Total' = 0
    <2>1. Total = 0
      BY EmptyTotal DEF Wait, QueueInv
    <2> QED
      BY <2>1 DEF Wait, Total
  <1>3. Woken' \subseteq Receivers
    BY DEF Woken
  <1>4. Cardinality(Woken') \in Nat
    BY <1>3, ReceiversAssumption, FS_Subset, FS_CardinalityType
  <1> QED
    BY <1>1, <1>2, <1>4 DEF QueueInv, BlockedOnlyWhenServed

LEMMA QueueInductive == QueueInv /\ [QueueNext]_queueVars => QueueInv'
  <1> SUFFICES ASSUME QueueInv, [QueueNext]_queueVars PROVE QueueInv'
    OBVIOUS
  <1>1. ASSUME UNCHANGED <<queue, rpc>>, QueueTypeOK'
        PROVE  QueueInv'
    BY <1>1 DEF QueueInv, BlockedOnlyWhenServed, Waiting, Woken, Total
  <1>2. ASSUME NEW t \in Senders, Send(t) PROVE QueueInv'
    BY <1>1, <1>2 DEF Send, QueueInv, QueueTypeOK, history
  <1>3. ASSUME DropSender PROVE QueueInv'
    BY <1>1, <1>3 DEF DropSender, QueueInv, QueueTypeOK, history
  <1>4. ASSUME NEW r \in Receivers, CloneReceiver(r) PROVE QueueInv'
    BY <1>1, <1>4 DEF CloneReceiver, QueueInv, QueueTypeOK, history
  <1>5. ASSUME NEW r \in Receivers, DropReceiver(r) PROVE QueueInv'
    BY <1>1, <1>5 DEF DropReceiver, QueueInv, QueueTypeOK, history
  <1>6. CASE UNCHANGED queueVars
    BY <1>1, <1>6 DEF queueVars, QueueInv, QueueTypeOK, history
  <1> QED
    BY <1>2, <1>3, <1>4, <1>5, <1>6, PushStep, PopStep, WaitStep DEF QueueNext

(* The types hold, and while a receiver is blocked there are no more items *)
(* than receivers notified: send never leaves recv asleep on an item.      *)
THEOREM QueueInvariance == QueueSpec => []QueueInv
  BY QueueInitial, QueueInductive, PTL DEF QueueSpec

(* The state of the queue keeps its type. *)
THEOREM QueueTypeCorrect == QueueSpec => []QueueTypeOK
  <1>1. QueueInv => QueueTypeOK
    BY DEF QueueInv
  <1> QED
    BY <1>1, QueueInvariance, PTL

(* However many items arrive before a notified receiver has the mutex, and *)
(* whoever takes them, every blocked receiver is covered.                  *)
THEOREM ReceiversAreWoken == QueueSpec => []BlockedOnlyWhenServed
  <1>1. QueueInv => BlockedOnlyWhenServed
    BY DEF QueueInv
  <1> QED
    BY <1>1, QueueInvariance, PTL

-----------------------------------------------------------------------------
(* Items are distinct: the numbers in a deque increase, and no two deques  *)
(* share one.                                                              *)
Increasing(q) == \A i, j \in DOMAIN q : i < j => q[i] < q[j]
Unshared ==
  \A p, o \in Priorities : p # o => Items(queue[p]) \cap Items(queue[o]) = {}
LastWasTaken == \A p \in Priorities : last[p] \in taken \cup {0}
OrderInv == QueueInv /\ ReceivedOnceInOrder /\ Unshared /\ LastWasTaken

LEMMA ItemsOfAppend ==
  ASSUME NEW q \in Seq(1..MaxItems), NEW x \in 1..MaxItems,
         Increasing(q), \A y \in Items(q) : y < x
  PROVE  Items(Append(q, x)) = Items(q) \cup {x} /\ Increasing(Append(q, x))
  <1> DEFINE s == Append(q, x)
  <1>1. /\ Len(q) \in Nat /\ DOMAIN q = 1..Len(q)
        /\ DOMAIN s = 1..(Len(q) + 1) /\ s[Len(q) + 1] = x
        /\ \A i \in 1..Len(q) : s[i] = q[i]
    OBVIOUS
  <1> HIDE DEF s
  <1>2. Items(s) = Items(q) \cup {x}
    BY <1>1 DEF Items
  <1>3. Increasing(s)
    BY <1>1 DEF Increasing, Items
  <1> QED
    BY <1>2, <1>3 DEF s

LEMMA ItemsOfTail ==
  ASSUME NEW S \in SUBSET Int, NEW q \in Seq(S), q # <<>>, Increasing(q)
  PROVE  /\ Head(q) \in Items(q)
         /\ Items(Tail(q)) = Items(q) \ {Head(q)} /\ Increasing(Tail(q))
         /\ \A x \in Items(Tail(q)) : Head(q) < x
  <1> DEFINE s == Tail(q)
             n == Len(q) - 1
  <1>1. /\ n \in Nat /\ Len(q) = n + 1 /\ Head(q) = q[1]
        /\ DOMAIN q = 1..(n + 1) /\ \A i \in DOMAIN q : q[i] \in Int
    <2>1. Len(q) \in Nat /\ Len(q) > 0 /\ DOMAIN q = 1..Len(q) /\ \A i \in DOMAIN q : q[i] \in S
      OBVIOUS
    <2>2. Head(q) = q[1]
      OBVIOUS
    <2>3. n \in Nat /\ Len(q) = n + 1
      BY <2>1
    <2> QED
      BY ONLY <2>1, <2>2, <2>3, S \subseteq Int
  <1>2. DOMAIN s = 1..n /\ \A i \in 1..n : s[i] = q[i + 1]
    <2>1. s \in Seq(S) /\ Len(s) = n /\ \A i \in 1..Len(s) : s[i] = q[i + 1]
      BY HeadTailProperties
    <2> QED
      BY <2>1
  <1> HIDE DEF s, n
  <1>3. \A i \in 1..n : i + 1 \in 1..(n + 1) /\ 1 < i + 1
    BY <1>1
  <1>4. \A i \in 1..n : q[1] < q[i + 1]
    BY <1>1, <1>3 DEF Increasing
  <1>5. \A i \in 1..(n + 1) : i = 1 \/ \E j \in 1..n : i = j + 1
    <2>1. \A i \in 1..(n + 1) : i # 1 => i - 1 \in 1..n /\ i = (i - 1) + 1
      BY <1>1
    <2> QED
      BY <2>1
  <1>6. Items(q) = {q[1]} \cup Items(s)
    <2>1. \A x \in Items(q) : x = q[1] \/ x \in Items(s)
      <3>1. TAKE x \in Items(q)
      <3>2. PICK i \in 1..(n + 1) : x = q[i]
        BY <1>1 DEF Items
      <3>3. CASE i = 1
        BY <3>2, <3>3
      <3>4. ASSUME NEW j \in 1..n, i = j + 1  PROVE x \in Items(s)
        <4>1. x = s[j] /\ j \in DOMAIN s
          BY <1>2, <3>2, <3>4
        <4> QED
          BY ONLY <4>1 DEF Items
      <3> QED
        BY <1>5, <3>3, <3>4
    <2>2. q[1] \in Items(q) /\ \A x \in Items(s) : x \in Items(q)
      <3>1. 1 \in DOMAIN q
        BY <1>1
      <3>2. q[1] \in Items(q)
        BY ONLY <3>1 DEF Items
      <3>3. ASSUME NEW i \in DOMAIN s  PROVE s[i] \in Items(q)
        <4>1. s[i] = q[i + 1] /\ i + 1 \in DOMAIN q
          BY <1>1, <1>2, <1>3, <3>3
        <4> QED
          BY ONLY <4>1 DEF Items
      <3> QED
        BY <3>2, <3>3 DEF Items
    <2> QED
      BY <2>1, <2>2
  <1>7. \A x \in Items(s) : q[1] < x
    BY <1>2, <1>4 DEF Items
  <1>8. q[1] \notin Items(s)
    <2>1. q[1] \in Int
      BY <1>1
    <2> QED
      BY <1>7, <2>1
  <1>9. Increasing(s)
    <2>1. \A i, j \in 1..n : i < j => i + 1 < j + 1
      BY <1>1
    <2>2. \A i, j \in 1..n : i < j => q[i + 1] < q[j + 1]
      BY <1>1, <1>3, <2>1 DEF Increasing
    <2> QED
      BY <1>2, <2>2 DEF Increasing
  <1> QED
    BY <1>1, <1>6, <1>7, <1>8, <1>9 DEF s

(* What the property says of order, in terms of the items.                 *)
LEMMA OrderOfItems ==
  ReceivedOnceInOrder <=>
    /\ Queued \cap taken = {} /\ Queued \cup taken = 1..(next - 1)
    /\ Total = Cardinality(Queued)
    /\ \A p \in Priorities : Increasing(queue[p]) /\ \A x \in Items(queue[p]) : last[p] < x
  BY DEF ReceivedOnceInOrder, Increasing, Items

LEMMA QueuedFinite ==
  ASSUME QueueTypeOK
  PROVE  IsFiniteSet(Queued) /\ \A p \in Priorities : Items(queue[p]) \subseteq 1..MaxItems
  <1>1. \A p \in Priorities : Items(queue[p]) \subseteq 1..MaxItems
    <2>1. TAKE p \in Priorities
    <2>2. PICK q \in Seq(1..MaxItems) : q = queue[p]
      BY DEF QueueTypeOK
    <2>3. \A i \in DOMAIN queue[p] : queue[p][i] \in 1..MaxItems
      <3>1. \A S : \A s \in Seq(S) : \A i \in DOMAIN s : s[i] \in S
        OBVIOUS
      <3> QED
        BY <2>2, <3>1
    <2> QED
      BY ONLY <2>3 DEF Items
  <1>2. Queued \subseteq 1..MaxItems
    BY <1>1 DEF Queued
  <1>3. IsFiniteSet(1..MaxItems)
    <2>1. MaxItems \in Int /\ 1 \in Int
      BY MaxItemsAssumption
    <2> QED
      BY <2>1, FS_Interval
  <1> QED
    BY <1>1, <1>2, <1>3, FS_Subset

LEMMA PushKeepsOrder ==
  ASSUME OrderInv, NEW t \in Senders, NEW p \in Priorities, Push(t, p)
  PROVE  ReceivedOnceInOrder' /\ Unshared' /\ LastWasTaken'
  <1>1. QueueTypeOK /\ next \in 1..MaxItems /\ next' = next + 1 /\ taken' = taken /\ last' = last
        /\ queue' = [queue EXCEPT ![p] = Append(queue[p], next)]
        /\ queue \in [Priorities -> Seq(1..MaxItems)]
    BY MaxItemsAssumption DEF Push, OrderInv, QueueInv, QueueTypeOK, history
  <1>2. /\ Queued \cap taken = {} /\ Queued \cup taken = 1..(next - 1)
        /\ Total = Cardinality(Queued)
        /\ \A o \in Priorities : Increasing(queue[o])
                                 /\ \A x \in Items(queue[o]) : last[o] < x
    BY OrderOfItems DEF OrderInv
  <1>3. \A o \in Priorities : Items(queue[o]) \subseteq Queued
    BY DEF Queued
  <1>4. \A x \in 1..(next - 1) : x < next
    BY <1>1
  <1>5. /\ Items(queue'[p]) = Items(queue[p]) \cup {next} /\ Increasing(queue'[p])
        /\ \A o \in Priorities \ {p} : queue'[o] = queue[o]
    <2>1. \A y \in Items(queue[p]) : y < next
      BY <1>2, <1>3, <1>4
    <2>2. Items(Append(queue[p], next)) = Items(queue[p]) \cup {next}
          /\ Increasing(Append(queue[p], next))
      BY <1>1, <1>2, <2>1, ItemsOfAppend
    <2> QED
      BY <1>1, <2>2
  <1>6. next \notin Queued /\ Queued' = Queued \cup {next}
    BY <1>2, <1>4, <1>5 DEF Queued
  <1>7. Total' = Cardinality(Queued')
    <2>1. Cardinality(Queued') = Cardinality(Queued) + 1
      BY <1>1, <1>6, QueuedFinite, FS_AddElement
    <2>2. Total' = Total + 1
      BY <1>1, PushGrows
    <2> QED
      BY <1>2, <2>1, <2>2
  <1>8. last[p] < next
    <2>1. last[p] \in taken \cup {0} /\ 0 < next
      BY <1>1 DEF OrderInv, LastWasTaken
    <2> QED
      BY <1>2, <1>4, <2>1
  <1>9. ReceivedOnceInOrder'
    <2>1. Queued' \cap taken' = {}
      BY <1>1, <1>2, <1>4, <1>6
    <2>2. Queued' \cup taken' = 1..(next' - 1)
      <3>1. 1..(next' - 1) = (1..(next - 1)) \cup {next}
        BY <1>1
      <3> QED
        BY <1>1, <1>2, <1>6, <3>1
    <2>3. \A o \in Priorities : Increasing(queue'[o])
                                /\ \A x \in Items(queue'[o]) : last'[o] < x
      BY <1>1, <1>2, <1>5, <1>8
    <2>4. \A o \in Priorities : /\ \A i \in DOMAIN queue'[o] : last'[o] < queue'[o][i]
                                /\ \A i, j \in DOMAIN queue'[o] : i < j => queue'[o][i] < queue'[o][j]
      BY <2>3 DEF Increasing, Items
    <2> QED
      BY <1>7, <2>1, <2>2, <2>4 DEF ReceivedOnceInOrder
  <1>10. Unshared'
    BY <1>3, <1>5, <1>6 DEF OrderInv, Unshared
  <1>11. LastWasTaken'
    BY <1>1 DEF OrderInv, LastWasTaken
  <1> QED
    BY <1>9, <1>10, <1>11

LEMMA PopKeepsOrder ==
  ASSUME OrderInv, NEW r \in Receivers, NEW p \in Priorities, Pop(r, p)
  PROVE  ReceivedOnceInOrder' /\ Unshared' /\ LastWasTaken'
  <1> DEFINE h == Head(queue[p])
  <1>1. /\ QueueTypeOK /\ next' = next /\ taken' = taken \cup {h}
        /\ last' = [last EXCEPT ![p] = h]
        /\ queue' = [queue EXCEPT ![p] = Tail(queue[p])]
        /\ queue \in [Priorities -> Seq(1..MaxItems)] /\ last \in [Priorities -> 0..MaxItems]
        /\ p \in NonEmpty /\ queue[p] # <<>>
    BY DEF Pop, Rolls, OrderInv, QueueInv, QueueTypeOK, NonEmpty
  <1>2. /\ Queued \cap taken = {} /\ Queued \cup taken = 1..(next - 1)
        /\ Total = Cardinality(Queued)
        /\ \A o \in Priorities : Increasing(queue[o])
                                 /\ \A x \in Items(queue[o]) : last[o] < x
    BY OrderOfItems DEF OrderInv
  <1>3. /\ h \in Items(queue[p]) /\ Items(queue'[p]) = Items(queue[p]) \ {h}
        /\ Increasing(queue'[p]) /\ \A x \in Items(queue'[p]) : h < x
        /\ \A o \in Priorities \ {p} : queue'[o] = queue[o]
    <2>1. queue[p] \in Seq(1..MaxItems) /\ queue'[p] = Tail(queue[p])
      BY <1>1
    <2>2. /\ h \in Items(queue[p]) /\ Items(Tail(queue[p])) = Items(queue[p]) \ {h}
          /\ Increasing(Tail(queue[p])) /\ \A x \in Items(Tail(queue[p])) : h < x
      BY <1>1, <1>2, <2>1, ItemsOfTail
    <2> QED
      BY <1>1, <2>1, <2>2
  <1> HIDE DEF h
  <1>4. \A o \in Priorities \ {p} : h \notin Items(queue[o])
    BY <1>3 DEF OrderInv, Unshared
  <1>5. h \in Queued /\ Queued' = Queued \ {h}
    BY <1>3, <1>4 DEF Queued
  <1>6. Total' = Cardinality(Queued')
    <2>1. Cardinality(Queued') = Cardinality(Queued) - 1
      BY <1>1, <1>5, QueuedFinite, FS_RemoveElement
    <2>2. Total' = Total - 1
      BY <1>1, PopShrinks
    <2> QED
      BY <1>2, <2>1, <2>2
  <1>7. ReceivedOnceInOrder'
    <2>1. Queued' \cap taken' = {} /\ Queued' \cup taken' = 1..(next' - 1)
      BY <1>1, <1>2, <1>5
    <2>2. \A o \in Priorities : Increasing(queue'[o])
                                /\ \A x \in Items(queue'[o]) : last'[o] < x
      BY <1>1, <1>2, <1>3
    <2>3. \A o \in Priorities : /\ \A i \in DOMAIN queue'[o] : last'[o] < queue'[o][i]
                                /\ \A i, j \in DOMAIN queue'[o] : i < j => queue'[o][i] < queue'[o][j]
      BY <2>2 DEF Increasing, Items
    <2> QED
      BY <1>6, <2>1, <2>3 DEF ReceivedOnceInOrder
  <1>8. Unshared'
    BY <1>3 DEF OrderInv, Unshared
  <1>9. LastWasTaken'
    BY <1>1 DEF OrderInv, LastWasTaken
  <1> QED
    BY <1>7, <1>8, <1>9

LEMMA OrderInductive == OrderInv /\ [QueueNext]_queueVars => OrderInv'
  <1> SUFFICES ASSUME OrderInv, [QueueNext]_queueVars PROVE OrderInv'
    OBVIOUS
  <1>1. QueueInv'
    BY QueueInductive DEF OrderInv
  <1>2. ASSUME UNCHANGED <<queue, next, history>>
        PROVE  ReceivedOnceInOrder' /\ Unshared' /\ LastWasTaken'
    BY <1>2 DEF OrderInv, history, ReceivedOnceInOrder, Unshared, LastWasTaken, Queued, Total
  <1>3. CASE UNCHANGED <<queue, next, history>>
    BY <1>1, <1>2, <1>3 DEF OrderInv
  <1>4. CASE \E t \in Senders, p \in Priorities : Push(t, p)
    BY <1>1, <1>4, PushKeepsOrder DEF OrderInv
  <1>5. CASE \E r \in Receivers, p \in Priorities : Pop(r, p)
    BY <1>1, <1>5, PopKeepsOrder DEF OrderInv
  <1> QED
    BY <1>3, <1>4, <1>5
    DEF QueueNext, queueVars, history, Send, DropSender, CloneReceiver, DropReceiver, Wait

LEMMA OrderInitial == QueueInit => OrderInv
  <1> SUFFICES ASSUME QueueInit PROVE OrderInv
    OBVIOUS
  <1>1. QueueInv
    BY QueueInitial
  <1>2. \A p \in Priorities : queue[p] = <<>> /\ Items(queue[p]) = {}
    BY DEF QueueInit, Items
  <1>3. Queued = {} /\ taken = {} /\ next = 1
    BY <1>2 DEF Queued, QueueInit
  <1>4. Total = 0 /\ Cardinality(Queued) = 0
    <2>1. Total = 0
      <3>1. queue["high"] = <<>> /\ queue["medium"] = <<>> /\ queue["low"] = <<>>
        BY <1>2 DEF Priorities
      <3> QED
        BY <3>1 DEF Total
    <2> QED
      BY <1>3, <2>1, FS_EmptySet
  <1>5. ReceivedOnceInOrder
    BY <1>2, <1>3, <1>4 DEF ReceivedOnceInOrder
  <1> QED
    BY <1>1, <1>2, <1>5 DEF OrderInv, Unshared, LastWasTaken, QueueInit

(* An item that was sent is received at most once, is not lost, and comes  *)
(* after those of its priority that were pushed before it, for any number  *)
(* of senders, receivers and items.                                        *)
THEOREM NoneLostNorOvertaken == QueueSpec => []ReceivedOnceInOrder
  <1>1. OrderInv => ReceivedOnceInOrder
    BY DEF OrderInv
  <1> QED
    BY <1>1, OrderInitial, OrderInductive, PTL DEF QueueSpec

(* Whichever deques have items, a flip of the loaded die succeeds: the     *)
(* last one that is made has odds of one, and none has more.               *)
THEOREM DieLands == QueueSpec => []DieAlwaysLands
  <1>1. DieAlwaysLands
    <2>1. NonEmpty \subseteq {"high", "medium", "low"}
      BY DEF NonEmpty, Priorities
    <2>2. Weight["high"] = 60 /\ Weight["medium"] = 30 /\ Weight["low"] = 10
      BY DEF Weight, Priorities
    <2>3. /\ Mass("low") = Part("low")
          /\ Mass("medium") = Part("low") + Part("medium")
          /\ Mass("high") = Part("low") + Part("medium") + Part("high")
      BY <2>2 DEF Mass, Part
    <2>4. \A p \in {"high", "medium", "low"} : Part(p) = IF p \in NonEmpty THEN Weight[p] ELSE 0
      BY DEF Part
    <2>5. Above("high") = {} /\ Above("medium") = {"high"} /\ Above("low") = {"high", "medium"}
      BY DEF Above
    <2>6. \A p \in NonEmpty : Weight[p] <= Mass(p)
      BY <2>1, <2>2, <2>3, <2>4
    <2>7. NonEmpty # {} => \E p \in NonEmpty : Rolls(p) /\ ~MayFail(p)
      <3>1. CASE "low" \in NonEmpty
        <4>1. ~MayFail("low")
          BY <2>2, <2>3, <2>4, <3>1 DEF MayFail
        <4>2. /\ "high" \in NonEmpty => MayFail("high")
              /\ "medium" \in NonEmpty => MayFail("medium")
          BY <2>2, <2>3, <2>4, <3>1 DEF MayFail
        <4> QED
          BY <2>5, <3>1, <4>1, <4>2 DEF Rolls
      <3>2. CASE "low" \notin NonEmpty /\ "medium" \in NonEmpty
        <4>1. ~MayFail("medium")
          BY <2>2, <2>3, <2>4, <3>2 DEF MayFail
        <4>2. "high" \in NonEmpty => MayFail("high")
          BY <2>2, <2>3, <2>4, <3>2 DEF MayFail
        <4> QED
          BY <2>5, <3>2, <4>1, <4>2 DEF Rolls
      <3>3. CASE "low" \notin NonEmpty /\ "medium" \notin NonEmpty /\ "high" \in NonEmpty
        <4>1. ~MayFail("high")
          BY <2>2, <2>3, <2>4, <3>3 DEF MayFail
        <4> QED
          BY <2>5, <3>3, <4>1 DEF Rolls
      <3> QED
        BY <2>1, <3>1, <3>2, <3>3
    <2> QED
      BY <2>6, <2>7 DEF DieAlwaysLands
  <1> QED
    BY <1>1, PTL
=============================================================================
