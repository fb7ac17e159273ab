-------------------------- MODULE WindowsForeground --------------------------
(***************************************************************************)
(* The Windows dispatcher (crates/gpui_windows/src/dispatcher.rs) and the  *)
(* handling of its message (platform.rs).  wake_posted (flag) is to keep   *)
(* all but one sender from posting the message (bell counts them) that     *)
(* makes Main run the queue.                                               *)
(***************************************************************************)
EXTENDS ForegroundThreads

Windows == platform = "windows"

WindowsSend(u, t) ==
  /\ Windows /\ pc[u] = "run"
  /\ Hand(t, "main", "mailbox")
  /\ Go(u, "flag")
  /\ UNCHANGED <<platform, running, step, flag, bell>>

(* wake_posted.swap(true): the first to set it posts. *)
Swap(u) ==
  /\ Windows /\ pc[u] = "flag"
  /\ flag' = TRUE
  /\ Go(u, IF flag THEN "run" ELSE "ring")
  /\ UNCHANGED <<platform, place, call, running, step, bell>>

PostMessage(u) ==
  /\ Windows /\ pc[u] = "ring"
  /\ bell' = bell + 1
  /\ Go(u, "run")
  /\ UNCHANGED <<platform, place, call, running, step, flag>>

(* dispatch_after: a timer of the thread pool. *)
WindowsAfter(u, t) ==
  /\ Windows /\ pc[u] = "run" /\ Workers # {}
  /\ Hand(t, "any", "timer")
  /\ UNCHANGED <<platform, pc, running, step, flag, bell>>

WindowsStep(from, to) ==
  /\ Windows /\ MainAt(from)
  /\ step' = to
  /\ UNCHANGED <<platform, place, call, pc, running>>

(* The message begins run_foreground_task. *)
Message == WindowsStep("asleep", "tasks") /\ bell > 0 /\ bell' = bell - 1 /\ UNCHANGED flag

(* try_pop finds one; so it does for the timer of a size move loop. *)
PopTask(t) ==
  /\ Windows /\ (MainAt("tasks") \/ MainAt("sizemove"))
  /\ place[t] = "mailbox"
  /\ RunOnMain(t)
  /\ UNCHANGED <<platform, call, step, flag, bell>>

(* Ten milliseconds are over: pending events are handled, and the message  *)
(* is posted again.                                                        *)
OverBudget == WindowsStep("tasks", "budget") /\ UNCHANGED <<flag, bell>>
Repost == WindowsStep("budget", "asleep") /\ bell' = bell + 1 /\ UNCHANGED flag

TasksDone == Mailbox = {} /\ WindowsStep("tasks", "clear") /\ UNCHANGED <<flag, bell>>

(* Mutant of Clear: does not look at the queue again. *)
ClearOnly == WindowsStep("clear", "asleep") /\ flag' = FALSE /\ UNCHANGED bell

Clear == WindowsStep("clear", "again") /\ flag' = FALSE /\ UNCHANGED bell

(* What was sent while the flag was still set is popped, and the flag set  *)
(* before it runs.                                                         *)
PopLate(t) ==
  /\ Windows /\ MainAt("again")
  /\ place[t] = "mailbox"
  /\ Move(t, "onMain")
  /\ running' = [running EXCEPT ![Main] = t]
  /\ step' = "set"
  /\ UNCHANGED <<platform, call, pc, flag, bell>>

SetFlag ==
  /\ Windows /\ MainAt("set")
  /\ flag' = TRUE
  /\ step' = "tasks"
  /\ Go(Main, "run")
  /\ UNCHANGED <<platform, place, call, running, bell>>

AgainDone == Mailbox = {} /\ WindowsStep("again", "asleep") /\ UNCHANGED <<flag, bell>>

(* handle_timer_msg, while a window is moved or sized. *)
SizeMoveTimer == WindowsStep("asleep", "sizemove") /\ UNCHANGED <<flag, bell>>
SizeMoveDone == Mailbox = {} /\ WindowsStep("sizemove", "asleep") /\ UNCHANGED <<flag, bell>>

WindowsLoop ==
  \/ TasksDone \/ Clear \/ SetFlag \/ AgainDone \/ SizeMoveDone
  \/ \E t \in Tasks : PopLate(t)

WindowsNext ==
  \/ \E u \in Threads, t \in Tasks : WindowsSend(u, t) \/ WindowsAfter(u, t)
  \/ \E u \in Threads : Swap(u) \/ PostMessage(u)
  \/ WindowsLoop \/ Repost \/ Message \/ OverBudget \/ SizeMoveTimer
  \/ \E t \in Tasks : PopTask(t)
=============================================================================
