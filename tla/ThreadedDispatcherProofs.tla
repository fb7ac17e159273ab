----------------------- MODULE ThreadedDispatcherProofs ----------------------
(***************************************************************************)
(* Proofs about the threaded dispatcher: the in-flight count is exact, and *)
(* run_until_idle returns only when there is nothing to wait for, for any  *)
(* number of workers, other threads and runnables.                         *)
(***************************************************************************)
EXTENDS ThreadedDispatcher, FiniteSetTheorems, TLAPS

Own(u) ==   \* what thread u, of the dispatcher or not, runs
  CASE u \in Workers -> {"bg"}
    [] u = Timer -> {"timer"}
    [] u = Main -> {"main", "external"}
    [] OTHER -> {}

StepsOf(u) ==
  CASE u \in Workers -> {"pop", "run", "send", "notify", "decrement"}
    [] u = Timer -> {"peek", "wait", "count", "run", "send", "notify", "decrement"}
    [] u = Main -> {"outside", "run", "send", "notify", "drain", "check", "poll", "polling",
                    "lock", "recheck", "test", "waiting", "woken", "ready"}
    [] OTHER -> {"outside", "notify"}

(* A thread has a runnable exactly while it runs one, or dispatches for it; *)
(* only Main may dispatch without one.                                     *)
Runs ==
  \A u \in Threads :
    /\ pc[u] \in StepsOf(u)
    /\ running[u] # NoTask => /\ pc[u] \in {"run", "send", "notify", "count"}
                              /\ place[running[u]] = "running"
                              /\ kind[running[u]] \in Own(u)
    /\ pc[u] \in {"run", "count"} => running[u] # NoTask
    /\ u \in Workers \cup {Timer} /\ pc[u] \in {"send", "notify"} => running[u] # NoTask

RunsAlone ==
  \A u, v \in Threads : u # v /\ running[u] = running[v] => running[u] = NoTask

(* A runnable that is counted and not yet sent is being sent by one thread. *)
Sends ==
  /\ \A u \in Threads : pc[u] = "send" => /\ arg[u] \in Tasks
                                          /\ place[arg[u]] = "sending"
  /\ \A u, v \in Threads : u # v /\ pc[u] = "send" /\ pc[v] = "send" => arg[u] # arg[v]

PlacedByKind ==
  \A t \in Tasks :
    /\ place[t] = "new" => kind[t] = "none"
    /\ place[t] \in {"sending", "bg"} => kind[t] = "bg"
    /\ place[t] = "main" => kind[t] \in {"main", "external"}
    /\ place[t] = "heap" => kind[t] = "timer"
    /\ kind[t] = "bg" => place[t] \in {"sending", "bg", "running", "done"}
    /\ place[t] = "running" /\ kind[t] = "timer" => running[Timer] = t

Holding == holder = (IF pc[Main] \in {"recheck", "test"} THEN Main ELSE NoTask)

(* While Main holds the lock, after it found its queue empty, whoever has  *)
(* sent to it waits for that lock to notify it.                            *)
SentMeanwhile ==
  pc[Main] = "test" =>
    \A t \in In("main") : kind[t] = "main" => \E u \in Workers \cup {Timer} : pc[u] = "notify"

FiringIsCounted ==
  \A t \in firing :
    /\ kind[t] = "timer" /\ place[t] \in {"running", "done"}
    /\ place[t] = "running" => pc[Timer] # "count"

Counted == {t \in Tasks : kind[t] = "bg" /\ place[t] \in {"sending", "bg", "running"}}
Decrementing == {u \in Threads : pc[u] = "decrement"}
TimerCounted == IF running[Timer] # NoTask /\ pc[Timer] # "count" THEN 1 ELSE 0

IInv ==
  /\ TypeOK /\ Runs /\ RunsAlone /\ Sends /\ PlacedByKind /\ Holding
  /\ SentMeanwhile /\ FiringIsCounted /\ InflightCount

-----------------------------------------------------------------------------
(* The counted runnables and the threads that are about to count one less  *)
(* are finite, so that one more or one less is a difference of one.        *)
LEMMA CountedFinite == IsFiniteSet(Counted) /\ IsFiniteSet(Decrementing)
<1>1. IsFiniteSet(Counted)
  BY FiniteAssumption, FS_Subset DEF Counted
<1>2. IsFiniteSet(Threads)
  <2>1. IsFiniteSet((Workers \cup External) \cup {Main})
    BY FiniteAssumption, FS_AddElement
  <2>2. IsFiniteSet(((Workers \cup External) \cup {Main}) \cup {Timer})
    BY <2>1, FS_AddElement
  <2>. QED  BY <2>2 DEF Threads
<1>. QED  BY <1>1, <1>2, FS_Subset DEF Decrementing

LEMMA CountIs ==
  /\ InflightCount <=>
       inflight = Cardinality(Counted) + Cardinality(Decrementing) + TimerCounted
  /\ Cardinality(Counted) \in Nat /\ Cardinality(Decrementing) \in Nat
  /\ TimerCounted \in {0, 1}
  BY CountedFinite, FS_CardinalityType
  DEF InflightCount, Counted, Decrementing, TimerCounted

LEMMA OneMore ==
  ASSUME NEW S, IsFiniteSet(S), NEW x, x \notin S
  PROVE  /\ Cardinality(S) \in Nat
         /\ Cardinality(S \cup {x}) = Cardinality(S) + 1
  BY FS_AddElement, FS_CardinalityType

LEMMA OneLess ==
  ASSUME NEW S, IsFiniteSet(S), NEW x \in S
  PROVE  /\ Cardinality(S) \in Nat \ {0} /\ Cardinality(S \ {x}) \in Nat
         /\ Cardinality(S \ {x}) = Cardinality(S) - 1
<1>1. Cardinality(S \ {x}) = Cardinality(S) - 1
  BY FS_RemoveElement
<1>2. IsFiniteSet(S \ {x})
  BY FS_RemoveElement
<1>. QED  BY <1>1, <1>2, FS_CardinalityType

(* Notifying moves the notifier, and Main if it was waiting. *)
LEMMA NotifyMoves ==
  ASSUME TypeOK, NEW u \in Threads, NEW step \in Steps, pc[u] # "waiting",
         NotifyIdle(u, step)
  PROVE  /\ pc' \in [Threads -> Steps]
         /\ step # "waiting" => pc'[u] = step
         /\ \A v \in Threads \ {u} :
              pc'[v] = IF v = Main /\ pc[v] = "waiting" THEN "woken" ELSE pc[v]
  BY DEF NotifyIdle, TypeOK, Threads, Steps

(* A step of Main or of the timer thread that touches no runnable. *)
LEMMA Quiet ==
  ASSUME IInv, NEW u \in {Main, Timer}, NEW step \in StepsOf(u),
         pc[u] \notin {"run", "send", "notify", "count", "decrement"},
         step \notin {"run", "send", "notify", "count", "decrement"},
         Go(u, step), UNCHANGED <<place, kind, inflight, running, arg>>
  PROVE  /\ pc' \in [Threads -> Steps]
         /\ Runs' /\ RunsAlone' /\ Sends' /\ PlacedByKind' /\ InflightCount'
         /\ \A v \in Threads : pc[v] = "notify" <=> pc'[v] = "notify"
<1>1. u \in Threads /\ step \in Steps
  BY ThreadsAssumption DEF Threads, StepsOf, Steps
<1>2. /\ pc' \in [Threads -> Steps] /\ pc'[u] = step
      /\ \A v \in Threads \ {u} : pc'[v] = pc[v]
  BY <1>1 DEF IInv, TypeOK, Go
<1>3. Runs'
  BY <1>1, <1>2 DEF IInv, Runs, Own, StepsOf
<1>4. RunsAlone' /\ Sends' /\ PlacedByKind'
  BY <1>1, <1>2 DEF IInv, RunsAlone, Sends, PlacedByKind
<1>5. Counted' = Counted /\ Decrementing' = Decrementing
  BY <1>1, <1>2 DEF Counted, Decrementing
<1>6. TimerCounted' = TimerCounted
  BY <1>1, <1>2, ThreadsAssumption DEF TimerCounted, IInv, Runs, Threads
<1>7. InflightCount'
  BY <1>5, <1>6 DEF IInv, InflightCount, Counted, Decrementing, TimerCounted
<1>. QED  BY <1>1, <1>2, <1>3, <1>4, <1>7

-----------------------------------------------------------------------------
LEMMA InitHolds == Init => IInv
<1>. SUFFICES ASSUME Init PROVE IInv
  OBVIOUS
<1>1. TypeOK
  <2>1. pc \in [Threads -> Steps]
    BY DEF Init, Steps
  <2>2. 0 \in 0..MaxTime /\ Forever \in 0..Forever
    BY TasksAssumption DEF Forever
  <2>3. /\ place \in [Tasks -> Places] /\ kind \in [Tasks -> Kinds]
        /\ due \in [Tasks -> 0..MaxTime] /\ seq \in [Tasks -> Nat]
    BY <2>2 DEF Init, Places, Kinds
  <2>4. /\ running \in [Threads -> Tasks \cup {NoTask}]
        /\ arg \in [Threads -> Tasks \cup {NoTask}]
    BY DEF Init
  <2>. QED  BY <2>1, <2>2, <2>3, <2>4 DEF Init, TypeOK
<1>2. Runs
  BY ThreadsAssumption DEF Init, Runs, StepsOf, Own, Threads
<1>3. RunsAlone /\ PlacedByKind /\ FiringIsCounted
  BY DEF Init, RunsAlone, PlacedByKind, FiringIsCounted
<1>4. Sends /\ Holding /\ SentMeanwhile
  BY ThreadsAssumption DEF Init, Sends, Holding, SentMeanwhile, Threads
<1>5. InflightCount
  <2>1. Counted = {} /\ Decrementing = {}
    BY DEF Init, Counted, Decrementing, Threads
  <2>2. TimerCounted = 0
    BY DEF Init, TimerCounted, Threads
  <2>. QED  BY <2>1, <2>2, FS_EmptySet DEF Init, InflightCount, Counted, Decrementing, TimerCounted
<1>. QED  BY <1>1, <1>2, <1>3, <1>4, <1>5 DEF IInv

-----------------------------------------------------------------------------
(* One lemma per kind of step: what user code does ... *)
LEMMA DispatchKeeps ==
  ASSUME IInv, NEW u \in Threads, NEW t \in Tasks, Dispatch(u, t)
  PROVE  IInv'
<1>1. u \notin External /\ pc[u] \in {"run", "outside"} /\ kind[t] = "none" /\ place[t] = "new"
  BY DEF IInv, PlacedByKind, Dispatch, InUserCode
<1>2. pc' = [pc EXCEPT ![u] = "send"] /\ pc'[u] = "send"
  BY DEF Dispatch, Go, IInv, TypeOK
<1>3. TypeOK'
  BY <1>2 DEF IInv, TypeOK, Dispatch, main, Places, Kinds, Steps
<1>4. Runs'
  <2>1. SUFFICES ASSUME NEW v \in Threads PROVE Runs!(v)'
    BY DEF Runs
  <2>2. running[v] # NoTask => running[v] # t
    BY <1>1 DEF IInv, Runs
  <2>3. pc'[v] \in StepsOf(v) /\ (v \in Workers \cup {Timer} /\ v = u => pc[v] = "run")
    BY <1>1, <1>2, ThreadsAssumption DEF IInv, TypeOK, Runs, StepsOf, Threads
  <2>. QED  BY <1>1, <1>2, <2>2, <2>3 DEF IInv, TypeOK, Dispatch, Runs
<1>5. RunsAlone'
  BY DEF IInv, RunsAlone, Dispatch
<1>6. Sends'
  BY <1>1, <1>2 DEF IInv, TypeOK, Sends, Dispatch
<1>7. PlacedByKind'
  BY <1>1 DEF IInv, TypeOK, PlacedByKind, Dispatch
<1>8. Holding' /\ SentMeanwhile' /\ FiringIsCounted'
  BY <1>1, <1>2, ThreadsAssumption
  DEF IInv, TypeOK, Dispatch, Holding, SentMeanwhile, FiringIsCounted, In, Threads
<1>9. InflightCount'
  <2>1. Counted' = Counted \cup {t} /\ t \notin Counted
    BY <1>1 DEF Counted, Dispatch, IInv, TypeOK
  <2>2. Decrementing' = Decrementing
    BY <1>1, <1>2 DEF Decrementing, IInv, TypeOK
  <2>3. TimerCounted' = TimerCounted
    BY <1>1, <1>2 DEF TimerCounted, IInv, TypeOK, Dispatch, Threads
  <2>4. Cardinality(Counted) \in Nat /\ Cardinality(Counted') = Cardinality(Counted) + 1
    BY <2>1, CountedFinite, OneMore
  <2>5. InflightCount' <=>
          inflight' = Cardinality(Counted') + Cardinality(Decrementing') + TimerCounted'
    BY DEF InflightCount, Counted, Decrementing, TimerCounted
  <2>. QED  BY <2>2, <2>3, <2>4, <2>5, CountIs DEF IInv, Dispatch
<1>. QED  BY <1>3, <1>4, <1>5, <1>6, <1>7, <1>8, <1>9 DEF IInv

LEMMA SendKeeps ==
  ASSUME IInv, NEW u \in Threads, Send(u)
  PROVE  IInv'
<1>1. /\ pc[u] = "send" /\ arg[u] \in Tasks /\ place[arg[u]] = "sending"
      /\ kind[arg[u]] = "bg"
  BY DEF IInv, Sends, PlacedByKind, Send
<1>2. /\ pc' = [pc EXCEPT ![u] = UserCode(u)]
      /\ pc'[u] \in {"run", "outside"} /\ (pc'[u] = "outside" <=> running[u] = NoTask)
  BY DEF Send, Go, UserCode, IInv, TypeOK
<1>3. TypeOK'
  BY <1>1, <1>2 DEF IInv, TypeOK, Send, main, Places, Steps
<1>4. u \in Workers \cup {Main, Timer} /\ (running[u] = NoTask => u = Main)
  BY <1>1 DEF IInv, Runs, StepsOf, Threads
<1>5. Runs'
  BY <1>1, <1>2, <1>4 DEF IInv, TypeOK, Send, Runs, StepsOf, Own, Threads
<1>6. RunsAlone'
  BY DEF IInv, RunsAlone, Send
<1>7. Sends'
  BY <1>1, <1>2 DEF IInv, TypeOK, Sends, Send
<1>8. PlacedByKind'
  BY <1>1 DEF IInv, TypeOK, PlacedByKind, Send
<1>9. Holding' /\ SentMeanwhile' /\ FiringIsCounted'
  BY <1>1, <1>2, ThreadsAssumption
  DEF IInv, TypeOK, Send, Holding, SentMeanwhile, FiringIsCounted, In, Threads
<1>10. InflightCount'
  <2>1. Counted' = Counted
    BY <1>1 DEF Counted, Send, IInv, TypeOK
  <2>2. Decrementing' = Decrementing
    BY <1>1, <1>2 DEF Decrementing, IInv, TypeOK
  <2>3. TimerCounted' = TimerCounted
    BY <1>1, <1>2 DEF TimerCounted, IInv, TypeOK, Send, Threads
  <2>. QED  BY <2>1, <2>2, <2>3
            DEF IInv, InflightCount, Counted, Decrementing, TimerCounted, Send
<1>. QED  BY <1>3, <1>5, <1>6, <1>7, <1>8, <1>9, <1>10 DEF IInv

LEMMA DispatchOnMainKeeps ==
  ASSUME IInv, NEW u \in Threads, NEW t \in Tasks, DispatchOnMain(u, t)
  PROVE  IInv'
<1>1. pc[u] \in {"run", "outside"} /\ place[t] = "new" /\ kind[t] = "none"
  BY DEF IInv, PlacedByKind, DispatchOnMain, InUserCode
<1>2. pc' = [pc EXCEPT ![u] = "notify"] /\ pc'[u] = "notify"
  BY DEF DispatchOnMain, Go, IInv, TypeOK
<1>3. /\ place' = [place EXCEPT ![t] = "main"] /\ kind'[t] \in {"main", "external"}
      /\ kind' = [kind EXCEPT ![t] = kind'[t]]
      /\ kind'[t] = "main" => u \notin External
  BY DEF DispatchOnMain, IInv, TypeOK
<1>4. TypeOK'
  BY <1>2, <1>3 DEF IInv, TypeOK, DispatchOnMain, main, Places, Kinds, Steps
<1>5. Runs'
  <2>1. SUFFICES ASSUME NEW v \in Threads PROVE Runs!(v)'
    BY DEF Runs
  <2>2. running[v] # NoTask => running[v] # t
    BY <1>1 DEF IInv, Runs
  <2>3. pc'[v] \in StepsOf(v) /\ (v \in Workers \cup {Timer} /\ v = u => pc[v] = "run")
    BY <1>1, <1>2, ThreadsAssumption DEF IInv, TypeOK, Runs, StepsOf, Threads
  <2>. QED  BY <1>1, <1>2, <1>3, <2>2, <2>3 DEF IInv, TypeOK, DispatchOnMain, Runs
<1>6. RunsAlone'
  BY DEF IInv, RunsAlone, DispatchOnMain
<1>7. Sends'
  BY <1>1, <1>2, <1>3 DEF IInv, TypeOK, Sends, DispatchOnMain
<1>8. PlacedByKind'
  BY <1>1, <1>3 DEF IInv, TypeOK, PlacedByKind, DispatchOnMain
<1>9. Holding' /\ FiringIsCounted'
  BY <1>1, <1>2, <1>3, ThreadsAssumption
  DEF IInv, TypeOK, DispatchOnMain, Holding, FiringIsCounted, Threads
<1>10. SentMeanwhile'
  BY <1>1, <1>2, <1>3 DEF IInv, TypeOK, DispatchOnMain, SentMeanwhile, In, Threads
<1>11. InflightCount'
  <2>1. Counted' = Counted
    BY <1>1, <1>3 DEF Counted, IInv, TypeOK
  <2>2. Decrementing' = Decrementing
    BY <1>1, <1>2 DEF Decrementing, IInv, TypeOK
  <2>3. TimerCounted' = TimerCounted
    BY <1>1, <1>2 DEF TimerCounted, IInv, TypeOK, DispatchOnMain, Threads
  <2>. QED  BY <2>1, <2>2, <2>3
            DEF IInv, InflightCount, Counted, Decrementing, TimerCounted, DispatchOnMain
<1>. QED  BY <1>4, <1>5, <1>6, <1>7, <1>8, <1>9, <1>10, <1>11 DEF IInv

LEMMA DispatchAfterKeeps ==
  ASSUME IInv, NEW u \in Threads, NEW t \in Tasks, NEW d \in 0..(MaxTime - now),
         DispatchAfter(u, t, d)
  PROVE  IInv'
<1>1. place[t] = "new" /\ kind[t] = "none"
  BY DEF IInv, PlacedByKind, DispatchAfter
<1>2. /\ pc' \in [Threads -> Steps]
      /\ \A v \in Threads :
           pc'[v] = pc[v] \/ (v = Timer /\ pc[v] = "wait" /\ pc'[v] = "peek")
  <2>1. /\ pc \in [Threads -> Steps] /\ Timer \in Threads
        /\ pc' = [pc EXCEPT ![Timer] = IF pc[Timer] = "wait" THEN "peek" ELSE pc[Timer]]
    BY DEF DispatchAfter, IInv, TypeOK, Threads
  <2>. QED  BY <2>1 DEF Steps
<1>3. /\ place' = [place EXCEPT ![t] = "heap"] /\ kind' = [kind EXCEPT ![t] = "timer"]
      /\ UNCHANGED <<inflight, holder, running, arg, deadline, main, now, firing>>
  BY DEF DispatchAfter
<1>4. TypeOK'
  <2>1. Cardinality({s \in Tasks : kind[s] = "timer"}) \in Nat
    BY FiniteAssumption, FS_Subset, FS_CardinalityType
  <2>2. now + d \in 0..MaxTime
    BY TasksAssumption DEF IInv, TypeOK
  <2>3. due' \in [Tasks -> 0..MaxTime] /\ seq' \in [Tasks -> Nat]
    BY <2>1, <2>2 DEF IInv, TypeOK, DispatchAfter
  <2>. QED  BY <1>2, <1>3, <2>3 DEF IInv, TypeOK, main, Places, Kinds
<1>5. Runs'
  <2>1. SUFFICES ASSUME NEW v \in Threads PROVE Runs!(v)'
    BY DEF Runs
  <2>2. running[v] # NoTask => running[v] # t
    BY <1>1 DEF IInv, Runs
  <2>3. pc'[v] \in StepsOf(v) /\ (running[v] # NoTask => pc[v] # "wait")
    BY <1>2, ThreadsAssumption DEF IInv, Runs, StepsOf, Threads
  <2>. QED  BY <1>2, <1>3, <2>2, <2>3 DEF IInv, TypeOK, Runs
<1>6. RunsAlone' /\ Sends'
  BY <1>1, <1>2, <1>3 DEF IInv, TypeOK, RunsAlone, Sends
<1>7. PlacedByKind'
  BY <1>1, <1>3 DEF IInv, TypeOK, PlacedByKind
<1>8. Holding' /\ SentMeanwhile' /\ FiringIsCounted'
  <2>1. Main \in Threads /\ Timer \in Threads /\ Main # Timer
    BY ThreadsAssumption DEF Threads
  <2>2. pc'[Main] = pc[Main] /\ \A v \in Threads : pc[v] = "notify" <=> pc'[v] = "notify"
    BY <1>2, <2>1
  <2>3. Holding'
    BY <1>3, <2>2 DEF IInv, Holding
  <2>4. SentMeanwhile'
    BY <1>1, <1>3, <2>2 DEF IInv, TypeOK, SentMeanwhile, In, Threads
  <2>5. FiringIsCounted'
    BY <1>1, <1>2, <1>3, <2>1 DEF IInv, TypeOK, FiringIsCounted
  <2>. QED  BY <2>3, <2>4, <2>5
<1>9. InflightCount'
  <2>1. Counted' = Counted /\ Decrementing' = Decrementing
    BY <1>1, <1>2, <1>3 DEF Counted, Decrementing, IInv, TypeOK
  <2>2. TimerCounted' = TimerCounted
    BY <1>2, <1>3 DEF TimerCounted, Threads
  <2>. QED  BY <1>3, <2>1, <2>2
            DEF IInv, InflightCount, Counted, Decrementing, TimerCounted
<1>. QED  BY <1>4, <1>5, <1>6, <1>7, <1>8, <1>9 DEF IInv

(* ... and what a thread does for it when it has returned. *)
LEMMA NotifyKeeps ==
  ASSUME IInv, NEW u \in Threads, NotifyUnderLock(u)
  PROVE  IInv'
<1>1. pc[u] = "notify" /\ holder = NoTask /\ UserCode(u) \in {"run", "outside"}
  BY DEF NotifyUnderLock, Free, UserCode
<1>2. UserCode(u) = "outside" <=> running[u] = NoTask
  BY DEF UserCode
<1>3. /\ pc' \in [Threads -> Steps] /\ pc'[u] = UserCode(u)
      /\ \A v \in Threads \ {u} :
           pc'[v] = IF v = Main /\ pc[v] = "waiting" THEN "woken" ELSE pc[v]
  BY <1>1, NotifyMoves DEF NotifyUnderLock, IInv, Steps
<1>4. UNCHANGED <<tasks, inflight, holder, running, arg, deadline, main, now, firing>>
  BY DEF NotifyUnderLock
<1>5. TypeOK'
  BY <1>3, <1>4 DEF IInv, TypeOK, main, tasks
<1>6. Runs'
  <2>1. SUFFICES ASSUME NEW v \in Threads PROVE Runs!(v)'
    BY DEF Runs
  <2>2. u \in Workers \cup {Timer} => UserCode(u) = "run"
    BY <1>1, <1>2 DEF IInv, Runs
  <2>3. UserCode(u) \in StepsOf(u)
    BY <1>1, <1>2, <2>2, ThreadsAssumption DEF IInv, Runs, StepsOf, Threads, Own
  <2>4. pc'[v] \in StepsOf(v)
    BY <1>3, <2>3, ThreadsAssumption DEF IInv, Runs, StepsOf, Threads
  <2>. QED  BY <1>1, <1>2, <1>3, <1>4, <2>2, <2>4 DEF IInv, TypeOK, Runs, tasks
<1>7. RunsAlone' /\ Sends' /\ PlacedByKind'
  BY <1>1, <1>3, <1>4 DEF IInv, RunsAlone, Sends, PlacedByKind, tasks
<1>8. pc[Main] \notin {"recheck", "test"}
  BY <1>1, TasksAssumption DEF IInv, Holding
<1>9. Main \in Threads /\ Timer \in Threads /\ Main # Timer
  BY ThreadsAssumption DEF Threads
<1>10. pc'[Main] \notin {"recheck", "test"}
  BY <1>1, <1>3, <1>8, <1>9
<1>11. Holding' /\ SentMeanwhile' /\ FiringIsCounted'
  BY <1>1, <1>3, <1>4, <1>8, <1>9, <1>10
  DEF IInv, Holding, SentMeanwhile, FiringIsCounted, tasks
<1>12. InflightCount'
  <2>1. Counted' = Counted /\ Decrementing' = Decrementing
    BY <1>1, <1>3, <1>4 DEF Counted, Decrementing, tasks
  <2>2. TimerCounted' = TimerCounted
    BY <1>1, <1>3, <1>4, <1>9 DEF TimerCounted
  <2>. QED  BY <1>4, <2>1, <2>2
            DEF IInv, InflightCount, Counted, Decrementing, TimerCounted
<1>. QED  BY <1>5, <1>6, <1>7, <1>11, <1>12 DEF IInv

LEMMA FinishKeeps ==
  ASSUME IInv, NEW u \in Threads, Finish(u)
  PROVE  IInv'
<1>1. /\ pc[u] = "run" /\ running[u] \in Tasks /\ place[running[u]] = "running"
      /\ kind[running[u]] \in Own(u)
  BY DEF Finish, IInv, Runs, TypeOK
<1>2. PICK step \in {"decrement", "ready", "drain"} :
        pc' = [pc EXCEPT ![u] = step] /\ (step = "decrement" <=> u # Main)
  BY DEF Finish, Go
<1>3. /\ place' = [place EXCEPT ![running[u]] = "done"]
      /\ running' = [running EXCEPT ![u] = NoTask]
      /\ UNCHANGED <<kind, due, seq, inflight, holder, arg, deadline, main, now, firing>>
  BY DEF Finish
<1>4. /\ pc' \in [Threads -> Steps] /\ pc'[u] = step
      /\ \A v \in Threads \ {u} : pc'[v] = pc[v]
  BY <1>2 DEF IInv, TypeOK, Steps
<1>5. \A v \in Threads \ {u} : running[v] # running[u]
  BY <1>1, TasksAssumption DEF IInv, RunsAlone
<1>6. TypeOK'
  BY <1>1, <1>3, <1>4 DEF IInv, TypeOK, main, Places
<1>7. Runs'
  <2>1. SUFFICES ASSUME NEW v \in Threads PROVE Runs!(v)'
    BY DEF Runs
  <2>2. u \in Workers \cup {Main, Timer}
    BY <1>1 DEF IInv, Runs, StepsOf, Threads
  <2>3. pc'[v] \in StepsOf(v)
    BY <1>2, <1>4, <2>2, ThreadsAssumption DEF IInv, Runs, StepsOf, Threads
  <2>. QED  BY <1>1, <1>3, <1>4, <1>5, <2>3 DEF IInv, TypeOK, Runs
<1>8. RunsAlone' /\ Sends' /\ PlacedByKind'
  BY <1>1, <1>2, <1>3, <1>4 DEF IInv, TypeOK, RunsAlone, Sends, PlacedByKind
<1>9. Main \in Threads /\ Timer \in Threads /\ Main # Timer
  BY ThreadsAssumption DEF Threads
<1>10. Holding' /\ SentMeanwhile' /\ FiringIsCounted'
  BY <1>1, <1>2, <1>3, <1>4, <1>9
  DEF IInv, TypeOK, Holding, SentMeanwhile, FiringIsCounted, In, Threads
<1>11. InflightCount'
  <2>1. InflightCount' <=>
          inflight' = Cardinality(Counted') + Cardinality(Decrementing') + TimerCounted'
    BY DEF InflightCount, Counted, Decrementing, TimerCounted
  <2>2. CASE u = Main
    <3>1. Counted' = Counted /\ Decrementing' = Decrementing /\ TimerCounted' = TimerCounted
      BY <1>1, <1>2, <1>3, <1>4, <1>9, <2>2, ThreadsAssumption
      DEF Counted, Decrementing, TimerCounted, IInv, TypeOK, Own
    <3>. QED  BY <1>3, <2>1, <3>1, CountIs DEF IInv
  <2>3. CASE u # Main
    <3>1. Decrementing' = Decrementing \cup {u} /\ u \notin Decrementing
      BY <1>1, <1>2, <1>4, <2>3 DEF Decrementing
    <3>2. Cardinality(Decrementing') = Cardinality(Decrementing) + 1
      BY <3>1, CountedFinite, OneMore
    <3>3. CASE u = Timer
      <4>1. Counted' = Counted /\ TimerCounted = 1 /\ TimerCounted' = 0
        BY <1>1, <1>3, <3>3, ThreadsAssumption, TasksAssumption
        DEF Counted, TimerCounted, IInv, TypeOK, Own
      <4>. QED  BY <1>3, <2>1, <3>2, <4>1, CountIs DEF IInv
    <3>4. CASE u # Timer
      <4>1. u \in Workers /\ kind[running[u]] = "bg"
        BY <1>1, <2>3, <3>4 DEF Own
      <4>2. Counted' = Counted \ {running[u]} /\ running[u] \in Counted
        BY <1>1, <1>3, <4>1 DEF Counted, IInv, TypeOK
      <4>3. TimerCounted' = TimerCounted
        BY <1>3, <1>4, <1>9, <3>4 DEF TimerCounted, IInv, TypeOK
      <4>4. /\ Cardinality(Counted') \in Nat
            /\ Cardinality(Counted') = Cardinality(Counted) - 1
        BY <4>2, CountedFinite, OneLess
      <4>. QED  BY <1>3, <2>1, <3>2, <4>3, <4>4, CountIs DEF IInv
    <3>. QED  BY <3>3, <3>4
  <2>. QED  BY <2>2, <2>3
<1>. QED  BY <1>6, <1>7, <1>8, <1>10, <1>11 DEF IInv

LEMMA DecrementKeeps ==
  ASSUME IInv, NEW u \in Threads, Decrement(u)
  PROVE  IInv'
<1>1. pc[u] = "decrement" /\ holder = NoTask /\ running[u] = NoTask
  BY DEF Decrement, Free, IInv, Runs
<1>2. Main \in Threads /\ Timer \in Threads /\ Main # Timer /\ u \in Workers \cup {Timer}
  BY <1>1, ThreadsAssumption DEF Threads, IInv, Runs, StepsOf
<1>3. PICK step \in {"peek", "pop"} :
        /\ NotifyIdle(u, step) \/ Go(u, step)
        /\ step = "peek" <=> u = Timer
  BY DEF Decrement
<1>4. /\ pc' \in [Threads -> Steps] /\ pc'[u] = step
      /\ \A v \in Threads \ {u} : pc'[v] = pc[v] \/ (v = Main /\ pc'[v] = "woken" /\ pc[v] = "waiting")
  <2>1. CASE Go(u, step)
    BY <2>1 DEF Go, IInv, TypeOK, Steps
  <2>2. CASE NotifyIdle(u, step)
    BY <1>1, <2>2, NotifyMoves DEF IInv, Steps
  <2>. QED  BY <1>3, <2>1, <2>2
<1>5. UNCHANGED <<tasks, holder, running, arg, deadline, main, now, firing>>
  BY DEF Decrement
<1>6. InflightCount' /\ inflight' \in Nat
  <2>1. Decrementing' = Decrementing \ {u} /\ u \in Decrementing
    BY <1>1, <1>3, <1>4 DEF Decrementing
  <2>2. /\ Cardinality(Decrementing) \in Nat \ {0}
        /\ Cardinality(Decrementing') = Cardinality(Decrementing) - 1
    BY <2>1, CountedFinite, OneLess
  <2>3. Counted' = Counted
    BY <1>5 DEF Counted, tasks
  <2>4. TimerCounted' = TimerCounted
    BY <1>1, <1>4, <1>5, <1>2 DEF TimerCounted
  <2>5. InflightCount' <=>
          inflight' = Cardinality(Counted') + Cardinality(Decrementing') + TimerCounted'
    BY DEF InflightCount, Counted, Decrementing, TimerCounted
  <2>6. inflight' = inflight - 1
    BY DEF Decrement
  <2>. QED  BY <2>2, <2>3, <2>4, <2>5, <2>6, CountIs DEF IInv
<1>7. TypeOK'
  BY <1>4, <1>5, <1>6 DEF IInv, TypeOK, main, tasks
<1>8. Runs'
  <2>1. SUFFICES ASSUME NEW v \in Threads PROVE Runs!(v)'
    BY DEF Runs
  <2>2. pc'[v] \in StepsOf(v)
    BY <1>2, <1>3, <1>4, ThreadsAssumption DEF IInv, Runs, StepsOf, Threads
  <2>. QED  BY <1>1, <1>2, <1>4, <1>5, <2>2 DEF IInv, TypeOK, Runs, tasks
<1>9. RunsAlone' /\ Sends' /\ PlacedByKind'
  BY <1>1, <1>4, <1>5 DEF IInv, RunsAlone, Sends, PlacedByKind, tasks
<1>10. pc[Main] \notin {"recheck", "test"}
  BY <1>1, TasksAssumption DEF IInv, Holding
<1>11. pc'[Main] \notin {"recheck", "test"}
  BY <1>1, <1>2, <1>4, <1>10, ThreadsAssumption
<1>12. Holding' /\ SentMeanwhile' /\ FiringIsCounted'
  BY <1>1, <1>2, <1>4, <1>5, <1>10, <1>11
  DEF IInv, Holding, SentMeanwhile, FiringIsCounted, tasks
<1>. QED  BY <1>6, <1>7, <1>8, <1>9, <1>12 DEF IInv

(* A thread takes a runnable: a worker's pop, the timer thread's, Main's. *)
LEMMA TakeKeeps ==
  ASSUME IInv, NEW u \in Threads, NEW t \in Tasks, NEW step \in {"run", "count"},
         \/ u \in Workers /\ pc[u] = "pop" /\ place[t] = "bg" /\ step = "run"
         \/ u = Timer /\ pc[u] = "peek" /\ place[t] = "heap" /\ step = "count"
         \/ u = Main /\ pc[u] = "drain" /\ place[t] = "main" /\ step = "run",
         place' = [place EXCEPT ![t] = "running"],
         running' = [running EXCEPT ![u] = t],
         Go(u, step),
         UNCHANGED <<kind, due, seq, inflight, holder, arg, deadline, now, firing>>,
         mode' = mode /\ ran' \in BOOLEAN /\ left' \in Nat
  PROVE  IInv'
<1>1. kind[t] \in Own(u) /\ place[t] \in {"bg", "heap", "main"} /\ t # NoTask
  BY ThreadsAssumption, TasksAssumption DEF IInv, PlacedByKind, Own
<1>2. /\ pc' \in [Threads -> Steps] /\ pc'[u] = step
      /\ \A v \in Threads \ {u} : pc'[v] = pc[v]
  BY DEF Go, IInv, TypeOK, Steps
<1>3. TypeOK'
  BY <1>2 DEF IInv, TypeOK, Places
<1>4. \A v \in Threads : running[v] # t
  BY <1>1, TasksAssumption DEF IInv, Runs
<1>5. Runs'
  <2>1. SUFFICES ASSUME NEW v \in Threads PROVE Runs!(v)'
    BY DEF Runs
  <2>2. pc'[v] \in StepsOf(v)
    BY <1>2, ThreadsAssumption DEF IInv, Runs, StepsOf, Threads
  <2>. QED  BY <1>1, <1>2, <1>4, <2>2 DEF IInv, TypeOK, Runs
<1>6. RunsAlone' /\ Sends'
  BY <1>1, <1>2, <1>4 DEF IInv, TypeOK, RunsAlone, Sends
<1>7. /\ Main \in Threads /\ Timer \in Threads /\ Main # Timer
      /\ u = Timer <=> pc[u] = "peek"
      /\ u = Timer => running[Timer] = NoTask
  BY ThreadsAssumption DEF Threads, IInv, Runs, StepsOf
<1>8. PlacedByKind'
  <2>1. SUFFICES ASSUME NEW s \in Tasks PROVE PlacedByKind!(s)'
    BY DEF PlacedByKind
  <2>2. CASE s = t
    BY <1>7, <2>2 DEF IInv, TypeOK, PlacedByKind
  <2>3. CASE s # t
    <3>1. place'[s] = place[s] /\ kind'[s] = kind[s] /\ s # NoTask
      BY <2>3, TasksAssumption DEF IInv, TypeOK
    <3>2. running[Timer] = s => u # Timer
      BY <1>7, <3>1
    <3>. QED  BY <1>7, <3>1, <3>2 DEF IInv, TypeOK, PlacedByKind
  <2>. QED  BY <2>2, <2>3
<1>9. Holding' /\ SentMeanwhile'
  BY <1>1, <1>2, <1>7, ThreadsAssumption DEF IInv, TypeOK, Holding, SentMeanwhile, In, Threads
<1>10. FiringIsCounted'
  <2>1. SUFFICES ASSUME NEW s \in firing PROVE FiringIsCounted!(s)'
    BY DEF FiringIsCounted
  <2>2. /\ s \in Tasks /\ s # NoTask /\ kind[s] = "timer" /\ place[s] \in {"running", "done"}
        /\ place[s] = "running" => pc[Timer] # "count"
    BY TasksAssumption DEF IInv, TypeOK, FiringIsCounted
  <2>3. s # t /\ place'[s] = place[s] /\ kind'[s] = kind[s]
    BY <1>1, <2>2 DEF IInv, TypeOK
  <2>5. place[s] = "running" => running[Timer] = s
    BY <2>2 DEF IInv, PlacedByKind
  <2>4. u # Timer => pc'[Timer] = pc[Timer]
    BY <1>2, <1>7
  <2>. QED  BY <1>7, <2>2, <2>3, <2>4, <2>5
<1>11. InflightCount'
  <2>1. Decrementing' = Decrementing
    BY <1>2 DEF Decrementing
  <2>2. Counted' = Counted
    BY <1>1 DEF Counted, IInv, TypeOK, PlacedByKind
  <2>3. TimerCounted' = TimerCounted
    BY <1>2, <1>7, ThreadsAssumption DEF TimerCounted, IInv, TypeOK, Runs
  <2>. QED  BY <2>1, <2>2, <2>3
            DEF IInv, InflightCount, Counted, Decrementing, TimerCounted
<1>. QED  BY <1>3, <1>5, <1>6, <1>8, <1>9, <1>10, <1>11 DEF IInv

LEMMA CountKeeps ==
  ASSUME IInv, Count
  PROVE  IInv'
<1>1. /\ Main \in Threads /\ Timer \in Threads /\ Main # Timer
      /\ pc[Timer] = "count" /\ running[Timer] # NoTask
  BY ThreadsAssumption DEF Threads, Count, IInv, Runs
<1>2. /\ pc' \in [Threads -> Steps] /\ pc'[Timer] = "run"
      /\ \A v \in Threads \ {Timer} : pc'[v] = pc[v]
  BY <1>1 DEF Count, Go, IInv, TypeOK, Steps
<1>3. UNCHANGED <<tasks, holder, running, arg, deadline, main, now, firing>>
  BY DEF Count
<1>4. TypeOK'
  BY <1>2, <1>3 DEF Count, IInv, TypeOK, main, tasks
<1>5. Runs'
  BY <1>1, <1>2, <1>3, ThreadsAssumption DEF IInv, Runs, tasks, StepsOf
<1>6. RunsAlone' /\ Sends' /\ PlacedByKind'
  BY <1>1, <1>2, <1>3 DEF IInv, RunsAlone, Sends, PlacedByKind, tasks
<1>7. Holding' /\ SentMeanwhile' /\ FiringIsCounted'
  BY <1>1, <1>2, <1>3, TasksAssumption
  DEF Count, Free, IInv, Holding, SentMeanwhile, FiringIsCounted, In, tasks, Threads
<1>8. InflightCount'
  <2>1. Counted' = Counted /\ Decrementing' = Decrementing
    BY <1>1, <1>2, <1>3 DEF Counted, Decrementing, tasks
  <2>2. TimerCounted = 0 /\ TimerCounted' = 1
    BY <1>1, <1>2, <1>3 DEF TimerCounted
  <2>3. InflightCount' <=>
          inflight' = Cardinality(Counted') + Cardinality(Decrementing') + TimerCounted'
    BY DEF InflightCount, Counted, Decrementing, TimerCounted
  <2>. QED  BY <2>1, <2>2, <2>3, CountIs DEF IInv, Count
<1>. QED  BY <1>4, <1>5, <1>6, <1>7, <1>8 DEF IInv

LEMMA CancelKeeps ==
  ASSUME IInv, CancelPendingTimers
  PROVE  IInv'
<1>1. /\ Main \in Threads /\ Timer \in Threads /\ Main # Timer
      /\ pc[Main] = "outside"
  BY ThreadsAssumption DEF Threads, CancelPendingTimers
<1>2. /\ pc' \in [Threads -> Steps]
      /\ \A v \in Threads :
           pc'[v] = pc[v] \/ (v = Timer /\ pc[v] = "wait" /\ pc'[v] = "peek")
  <2>1. /\ pc \in [Threads -> Steps]
        /\ pc' = [pc EXCEPT ![Timer] = IF pc[Timer] = "wait" THEN "peek" ELSE pc[Timer]]
    BY <1>1 DEF CancelPendingTimers, IInv, TypeOK
  <2>. QED  BY <1>1, <2>1 DEF Steps
<1>3. /\ \A t \in Tasks : place'[t] = IF place[t] = "heap" THEN "cancelled" ELSE place[t]
      /\ place' \in [Tasks -> Places]
      /\ UNCHANGED <<kind, due, seq, inflight, holder, running, arg, deadline, main, now, firing>>
  BY DEF CancelPendingTimers, IInv, TypeOK, Places
<1>4. TypeOK'
  BY <1>2, <1>3 DEF IInv, TypeOK, main
<1>5. Runs'
  <2>1. SUFFICES ASSUME NEW v \in Threads PROVE Runs!(v)'
    BY DEF Runs
  <2>2. pc'[v] \in StepsOf(v) /\ (running[v] # NoTask => pc[v] # "wait")
    BY <1>2, ThreadsAssumption DEF IInv, Runs, StepsOf, Threads
  <2>. QED  BY <1>2, <1>3, <2>2 DEF IInv, TypeOK, Runs
<1>6. RunsAlone' /\ Sends'
  BY <1>2, <1>3 DEF IInv, TypeOK, RunsAlone, Sends
<1>7. PlacedByKind'
  BY <1>3 DEF IInv, TypeOK, PlacedByKind
<1>8. Holding' /\ SentMeanwhile'
  BY <1>1, <1>2, <1>3 DEF IInv, Holding, SentMeanwhile
<1>9. FiringIsCounted'
  BY <1>1, <1>2, <1>3 DEF IInv, TypeOK, FiringIsCounted
<1>10. InflightCount'
  <2>1. Counted' = Counted /\ Decrementing' = Decrementing
    BY <1>2, <1>3 DEF Counted, Decrementing
  <2>2. TimerCounted' = TimerCounted
    BY <1>1, <1>2, <1>3 DEF TimerCounted
  <2>. QED  BY <1>3, <2>1, <2>2
            DEF IInv, InflightCount, Counted, Decrementing, TimerCounted
<1>. QED  BY <1>4, <1>5, <1>6, <1>7, <1>8, <1>9, <1>10 DEF IInv

(* A step of Main, or of the timer thread, that only moves it. *)
LEMMA TimerMoves ==
  ASSUME IInv, AwaitTimer \/ TimedOut \/ \E t \in Tasks : AwaitDue(t)
  PROVE  IInv'
<1>1. PICK step \in {"wait", "peek"} :
        /\ pc[Timer] \in {"wait", "peek"} /\ Go(Timer, step)
        /\ UNCHANGED <<tasks, inflight, holder, running, arg, main, now, firing>>
        /\ deadline' \in 0..Forever
  <2>1. Forever \in 0..Forever /\ \A n \in 0..MaxTime : n \in 0..Forever
    BY TasksAssumption DEF Forever
  <2>2. CASE AwaitTimer
    BY <2>1, <2>2 DEF AwaitTimer
  <2>3. CASE TimedOut
    BY <2>3 DEF TimedOut, IInv, TypeOK
  <2>4. CASE \E t \in Tasks : AwaitDue(t)
    BY <2>1, <2>4 DEF AwaitDue, IInv, TypeOK
  <2>. QED  BY <2>2, <2>3, <2>4
<1>2. /\ pc' \in [Threads -> Steps]
      /\ Runs' /\ RunsAlone' /\ Sends' /\ PlacedByKind' /\ InflightCount'
      /\ \A v \in Threads : pc[v] = "notify" <=> pc'[v] = "notify"
  <2>1. step \in StepsOf(Timer)
    BY <1>1, ThreadsAssumption DEF StepsOf
  <2>. QED  BY <1>1, <2>1, Quiet DEF tasks
<1>3. TypeOK'
  BY <1>1, <1>2 DEF IInv, TypeOK, main, tasks
<1>4. /\ Main \in Threads /\ Timer \in Threads /\ Main # Timer
      /\ pc'[Main] = pc[Main] /\ pc'[Timer] # "count"
  BY <1>1, ThreadsAssumption DEF Threads, Go, IInv, TypeOK
<1>5. Holding' /\ SentMeanwhile' /\ FiringIsCounted'
  BY <1>1, <1>2, <1>4
  DEF IInv, Holding, SentMeanwhile, FiringIsCounted, In, Threads, tasks
<1>. QED  BY <1>2, <1>3, <1>5 DEF IInv

LEMMA MainMoves ==
  ASSUME IInv, NEW step \in StepsOf(Main),
         step \notin {"run", "send", "notify", "count", "decrement"},
         pc[Main] \notin {"run", "send", "notify", "count", "decrement"},
         Go(Main, step), UNCHANGED <<tasks, inflight, running, arg, deadline, now>>,
         mode' \in {"none", "idle", "until", "batch"} /\ ran' \in BOOLEAN /\ left' \in Nat,
         holder' = IF step \in {"recheck", "test"} THEN Main ELSE NoTask,
         step = "test" => In("main") = {},
         firing' = firing \/ (TimerFree /\ firing' = {t \in In("running") : kind[t] = "timer"})
  PROVE  IInv'
<1>1. /\ Main \in Threads /\ Timer \in Threads /\ Main # Timer
      /\ pc'[Main] = step /\ pc'[Timer] = pc[Timer]
  BY ThreadsAssumption DEF Threads, Go, IInv, TypeOK
<1>2. /\ pc' \in [Threads -> Steps]
      /\ Runs' /\ RunsAlone' /\ Sends' /\ PlacedByKind' /\ InflightCount'
  BY Quiet DEF tasks
<1>3. TypeOK'
  BY <1>2 DEF IInv, TypeOK, tasks, In
<1>4. Holding' /\ SentMeanwhile'
  BY <1>1 DEF Holding, SentMeanwhile, In, tasks
<1>5. FiringIsCounted'
  BY <1>1 DEF IInv, FiringIsCounted, TimerFree, In, tasks
<1>. QED  BY <1>2, <1>3, <1>4, <1>5 DEF IInv

LEMMA MainStepKeeps ==
  ASSUME IInv, MainStep
  PROVE  IInv'
<1>1. ASSUME NEW t \in Tasks, PopMain(t) PROVE IInv'
  <2>1. left' \in Nat /\ ran' \in BOOLEAN /\ mode' = mode
    BY <1>1 DEF PopMain, IInv, TypeOK
  <2>2. Main \in Threads
    BY DEF Threads
  <2>. QED  BY <1>1, <2>1, <2>2, TakeKeeps DEF PopMain
<1>2. holder = NoTask \/ pc[Main] \in {"recheck", "test"}
  BY DEF IInv, Holding
<1>. USE <1>2 DEF IInv, TypeOK, Go, Free, main
<1>3. CASE Drained
  <2>1. PICK step \in {"outside", "lock", "drain", "check"} : Go(Main, step)
    BY <1>3 DEF Drained
  <2>2. step \in StepsOf(Main)
    BY <2>1, ThreadsAssumption DEF StepsOf
  <2>. QED  BY <1>3, <2>1, <2>2, MainMoves DEF Drained
<1>4. CASE Check
  <2>1. PICK step \in {"poll", "lock"} : Go(Main, step)
    BY <1>4 DEF Check
  <2>2. step \in StepsOf(Main)
    BY <2>1, ThreadsAssumption DEF StepsOf
  <2>. QED  BY <1>4, <2>1, <2>2, MainMoves DEF Check
<1>5. CASE Poll
  <2>1. "polling" \in StepsOf(Main)
    BY ThreadsAssumption DEF StepsOf
  <2>. QED  BY <1>5, <2>1, MainMoves DEF Poll
<1>6. CASE Polled
  <2>1. "drain" \in StepsOf(Main)
    BY ThreadsAssumption DEF StepsOf
  <2>. QED  BY <1>6, <2>1, MainMoves DEF Polled
<1>7. CASE Lock
  <2>1. "recheck" \in StepsOf(Main)
    BY ThreadsAssumption DEF StepsOf
  <2>. QED  BY <1>7, <2>1, MainMoves DEF Lock
<1>8. CASE Recheck
  <2>1. Again \in StepsOf(Main) /\ "test" \in StepsOf(Main) /\ Again \in {"ready", "drain"}
    BY ThreadsAssumption DEF StepsOf, Again
  <2>2. CASE In("main") # {}
    BY <1>8, <2>1, <2>2, MainMoves DEF Recheck
  <2>3. CASE In("main") = {}
    <3>1. holder = Main
      BY <1>8 DEF Recheck, Holding
    <3>. QED  BY <1>8, <2>1, <2>3, <3>1, MainMoves DEF Recheck
  <2>. QED  BY <2>2, <2>3
<1>9. CASE Test
  <2>1. PICK step \in {"outside", "waiting"} : Go(Main, step)
    BY <1>9 DEF Test
  <2>2. step \in StepsOf(Main)
    BY <2>1, ThreadsAssumption DEF StepsOf
  <2>. QED  BY <1>9, <2>1, <2>2, MainMoves DEF Test
<1>10. CASE Woken
  <2>1. Again \in StepsOf(Main) /\ Again \in {"ready", "drain"}
    BY ThreadsAssumption DEF StepsOf, Again
  <2>. QED  BY <1>10, <2>1, MainMoves DEF Woken
<1>11. CASE AskReady
  <2>1. PICK step \in {"outside", "drain"} : Go(Main, step)
    BY <1>11 DEF AskReady
  <2>2. step \in StepsOf(Main)
    BY <2>1, ThreadsAssumption DEF StepsOf
  <2>. QED  BY <1>11, <2>1, <2>2, MainMoves DEF AskReady
<1>. QED  BY <1>1, <1>3, <1>4, <1>5, <1>6, <1>7, <1>8, <1>9, <1>10, <1>11 DEF MainStep

LEMMA StartKeeps ==
  ASSUME IInv, RunUntilIdle \/ RunUntil \/ RunReadyMainTasks
  PROVE  IInv'
<1>1. PICK m \in {"idle", "until", "batch"}, step \in {"drain", "ready"} : Start(m, step)
  BY DEF RunUntilIdle, RunUntil, RunReadyMainTasks
<1>2. Cardinality(In("main")) \in Nat
  BY FiniteAssumption, FS_Subset, FS_CardinalityType DEF In
<1>3. left' \in Nat
  BY <1>2 DEF RunUntilIdle, RunUntil, RunReadyMainTasks, IInv, TypeOK
<1>4. step \in StepsOf(Main)
  BY ThreadsAssumption DEF StepsOf
<1>5. holder = NoTask
  BY <1>1 DEF Start, IInv, Holding
<1>. QED  BY <1>1, <1>3, <1>4, <1>5, MainMoves DEF Start

LEMMA TickKeeps ==
  ASSUME IInv, Tick
  PROVE  IInv'
<1>1. TypeOK'
  BY TasksAssumption DEF IInv, TypeOK, Tick, main, tasks
<1>2. UNCHANGED <<tasks, inflight, holder, pc, running, arg, firing>>
  BY DEF Tick
<1>3. Runs' /\ RunsAlone' /\ Sends' /\ PlacedByKind'
  BY <1>2 DEF IInv, Runs, RunsAlone, Sends, PlacedByKind, tasks
<1>4. Holding' /\ SentMeanwhile' /\ FiringIsCounted' /\ InflightCount'
  BY <1>2 DEF IInv, Holding, SentMeanwhile, FiringIsCounted, InflightCount, In, tasks
<1>. QED  BY <1>1, <1>3, <1>4 DEF IInv

LEMMA StepKeeps == IInv /\ [Next]_vars => IInv'
<1>. SUFFICES ASSUME IInv, [Next]_vars PROVE IInv'
  OBVIOUS
<1>1. ASSUME NEW u \in Threads, ThreadStep(u) PROVE IInv'
  <2>1. ASSUME NEW t \in Tasks, Pop(u, t) PROVE IInv'
    BY <2>1, TakeKeeps DEF Pop, main, IInv, TypeOK
  <2>. QED  BY <1>1, <2>1, SendKeeps, NotifyKeeps, FinishKeeps, DecrementKeeps DEF ThreadStep
<1>2. CASE TimerStep
  <2>1. ASSUME NEW t \in Tasks, PopTimer(t) PROVE IInv'
    <3>1. Timer \in Threads /\ place[t] = "heap"
      BY <2>1 DEF Threads, PopTimer, First, In
    <3>. QED  BY <2>1, <3>1, TakeKeeps DEF PopTimer, main, IInv, TypeOK
  <2>. QED  BY <1>2, <2>1, TimerMoves, CountKeeps DEF TimerStep
<1>3. CASE UNCHANGED vars
  <2>1. UNCHANGED <<place, kind, due, seq, inflight, holder, pc, running, arg, deadline,
                    mode, ran, left, now, firing>>
    BY <1>3 DEF vars, tasks, main
  <2>2. TypeOK' /\ Runs' /\ RunsAlone' /\ Sends' /\ PlacedByKind'
    BY <2>1 DEF IInv, TypeOK, Runs, RunsAlone, Sends, PlacedByKind
  <2>3. Holding' /\ SentMeanwhile' /\ FiringIsCounted' /\ InflightCount'
    BY <2>1 DEF IInv, Holding, SentMeanwhile, FiringIsCounted, InflightCount, In
  <2>. QED  BY <2>2, <2>3 DEF IInv
<1>. QED  BY <1>1, <1>2, <1>3, DispatchKeeps, DispatchOnMainKeeps, DispatchAfterKeeps,
             StartKeeps, CancelKeeps, MainStepKeeps, TickKeeps DEF Next

(* Main leaves `test` for user code only by returning from run_until_idle. *)
LEMMA ReturnsByTest ==
  ASSUME IInv, Next, pc[Main] = "test", pc'[Main] = "outside"
  PROVE  Test /\ mode = "idle" /\ inflight = 0
<1>1. Main \in Threads /\ Timer \in Threads /\ Main # Timer /\ Free = FALSE
  BY ThreadsAssumption, TasksAssumption DEF Threads, IInv, Holding, Free
<1>2. pc \in [Threads -> Steps]
  BY DEF IInv, TypeOK
<1>3. ~\E u \in Threads : ThreadStep(u)
  <2>. SUFFICES ASSUME NEW u \in Threads, ThreadStep(u) PROVE FALSE
    OBVIOUS
  <2>1. CASE Send(u)
    BY <1>1, <1>2, <2>1 DEF Send, Go
  <2>2. CASE Finish(u)
    BY <1>1, <1>2, <2>2 DEF Finish, Go
  <2>3. CASE \E t \in Tasks : Pop(u, t)
    BY <1>1, <1>2, <2>3 DEF Pop, Go
  <2>. QED  BY <1>1, <2>1, <2>2, <2>3 DEF ThreadStep, NotifyUnderLock, Decrement
<1>4. ~\E u \in Threads, t \in Tasks :
        \/ Dispatch(u, t) \/ DispatchOnMain(u, t)
        \/ \E d \in 0..(MaxTime - now) : DispatchAfter(u, t, d)
  BY <1>1, <1>2 DEF Dispatch, DispatchOnMain, DispatchAfter, InUserCode, Go
<1>5. ~TimerStep
  BY <1>1, <1>2 DEF TimerStep, AwaitTimer, TimedOut, Count, AwaitDue, PopTimer, Go
<1>6. ~(Tick \/ RunUntilIdle \/ RunUntil \/ RunReadyMainTasks \/ CancelPendingTimers)
  BY DEF Tick, RunUntilIdle, RunUntil, RunReadyMainTasks, CancelPendingTimers, Start
<1>7. Test
  BY <1>3, <1>4, <1>5, <1>6
  DEF Next, MainStep, PopMain, Drained, Check, Poll, Polled, Lock, Recheck, Woken, AskReady
<1>. QED  BY <1>1, <1>2, <1>7 DEF Test, Go

-----------------------------------------------------------------------------
(* Every variable keeps its type (the fields of ThreadedDispatcher).       *)
THEOREM TypeCorrect == Spec => []TypeOK
<1>1. IInv => TypeOK
  BY DEF IInv
<1>. QED  BY InitHolds, StepKeeps, <1>1, PTL DEF Spec

(* The in-flight count is exact at every step, for any number of workers,  *)
(* other threads and runnables (IdleTracker::inflight).                    *)
THEOREM InflightIsExact == Spec => []InflightCount
<1>1. IInv => InflightCount
  BY DEF IInv
<1>. QED  BY InitHolds, StepKeeps, <1>1, PTL DEF Spec

(* run_until_idle never returns early: nothing that is counted is queued   *)
(* or runs, Main's queue holds only what uncounted threads sent, and the   *)
(* timers that were running when it looked have finished.                  *)
THEOREM IdleIsIdle == Spec => IdleMeansIdle
<1>1. IInv /\ [Next]_vars =>
        [pc[Main] = "test" /\ pc'[Main] = "outside" =>
           /\ \A t \in Tasks : kind[t] = "bg" => place[t] \in {"done", "cancelled"}
           /\ \A t \in In("main") : kind[t] = "external"
           /\ firing \cap In("running") = {}]_vars
  <2>. SUFFICES ASSUME IInv, Next, pc[Main] = "test", pc'[Main] = "outside"
                PROVE  /\ \A t \in Tasks : kind[t] = "bg" => place[t] \in {"done", "cancelled"}
                       /\ \A t \in In("main") : kind[t] = "external"
                       /\ firing \cap In("running") = {}
    OBVIOUS
  <2>1. Counted = {} /\ Decrementing = {} /\ TimerCounted = 0
    <3>1. inflight = 0
      BY ReturnsByTest
    <3>2. Cardinality(Counted) = 0 /\ Cardinality(Decrementing) = 0 /\ TimerCounted = 0
      BY <3>1, CountIs DEF IInv
    <3>. QED  BY <3>2, CountedFinite, FS_EmptySet
  <2>2. ASSUME NEW t \in Tasks, kind[t] = "bg" PROVE place[t] \in {"done", "cancelled"}
    BY <2>1, <2>2 DEF IInv, PlacedByKind, Counted
  <2>3. \A u \in Workers \cup {Timer} : pc[u] # "notify"
    <3>1. ASSUME NEW u \in Workers \cup {Timer}, pc[u] = "notify" PROVE FALSE
      <4>1. /\ u \in Threads /\ running[u] \in Tasks /\ running[u] # NoTask
            /\ place[running[u]] = "running" /\ kind[running[u]] \in Own(u)
        BY <3>1, TasksAssumption DEF IInv, TypeOK, Runs, Threads
      <4>2. CASE u = Timer
        BY <2>1, <3>1, <4>1, <4>2 DEF TimerCounted
      <4>3. CASE u \in Workers
        BY <2>1, <4>1, <4>3, ThreadsAssumption DEF Own, Counted
      <4>. QED  BY <4>2, <4>3
    <3>. QED  BY <3>1
  <2>4. ASSUME NEW t \in In("main") PROVE kind[t] = "external"
    BY <2>3 DEF IInv, SentMeanwhile, PlacedByKind, In
  <2>5. ASSUME NEW t \in firing, t \in In("running") PROVE FALSE
    <3>1. t \in Tasks /\ running[Timer] = t /\ t # NoTask /\ pc[Timer] # "count"
      BY <2>5, TasksAssumption DEF IInv, TypeOK, PlacedByKind, FiringIsCounted, In
    <3>. QED  BY <2>1, <3>1 DEF TimerCounted
  <2>. QED  BY <2>2, <2>4, <2>5
<1>. QED  BY InitHolds, StepKeeps, <1>1, PTL DEF Spec, IdleMeansIdle

=============================================================================
