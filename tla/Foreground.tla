------------------------------ MODULE Foreground ------------------------------
(***************************************************************************)
(* How runnables reach the main thread and the pool on the web, on Linux   *)
(* and on Windows, and that each dispatcher is a PlatformDispatcher.       *)
(***************************************************************************)
EXTENDS WebForeground, LinuxForeground, WindowsForeground

Next ==
  \/ Callback
  \/ \E u \in Threads : Return(u) \/ \E t \in Tasks : Dispatch(u, t) \/ RunElsewhere(u, t)
  \/ WebNext \/ LinuxNext \/ WindowsNext

Sending(u) == Store(u) \/ Notify(u) \/ Ping(u) \/ Swap(u) \/ PostMessage(u)

(* Runnables return and threads are scheduled; callbacks, however many, do *)
(* not keep the event loop from what else is ready, nor do ten             *)
(* milliseconds pass for ever before the first runnable is popped.         *)
Fairness ==
  /\ \A u \in Threads : WF_vars(Sending(u)) /\ WF_vars(Return(u))
  /\ \A u \in Workers : WF_vars(ThreadStep(u))
  /\ WF_vars(WebLoop) /\ WF_vars(LinuxLoop) /\ WF_vars(WindowsLoop)
  /\ SF_vars(Start \/ Resume \/ Poll \/ Message \/ Repost)
  /\ \A t \in Tasks : SF_vars(call[t] # "idle" /\ BrowserRun(t))
  /\ SF_vars(\E t \in Tasks : PopTask(t))

Spec == Init /\ [][Next]_vars
FairSpec == Spec /\ Fairness

-----------------------------------------------------------------------------
(* Properties *)

(* Somebody is about to ring. *)
Coming == \E u \in Threads : pc[u] = "ring" \/ (pc[u] = "flag" /\ ~(Windows /\ flag))

(* No lost wakeup: while Main sleeps in its event loop with a runnable in  *)
(* the queue, it has been woken, or a sender is still to do so.            *)
Heard == step = "asleep" /\ Mailbox # {} => bell > 0 \/ Coming

(* Where a runnable is for the executors. *)
Seen == [t \in Tasks |-> IF place[t] \in {"new", "onMain", "elsewhere"} THEN place[t] ELSE call[t]]

Abstract == INSTANCE PlatformDispatcher WITH state <- Seen

(* Every dispatcher is a PlatformDispatcher: what it is handed runs, once, *)
(* and on the main thread if that was asked for.                           *)
Implements == Abstract!FairSpec
=============================================================================
