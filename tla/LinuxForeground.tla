--------------------------- MODULE LinuxForeground ---------------------------
(***************************************************************************)
(* The Linux dispatcher (crates/gpui_linux/src/linux/dispatcher.rs): who   *)
(* sends to Main pings (bell) the event loop, whose source drains the      *)
(* queue.  The X11 and Wayland clients make every runnable an idle         *)
(* callback of the loop, the headless one runs it in the source.           *)
(***************************************************************************)
EXTENDS ForegroundThreads

Linux == platform \in {"x11", "headless"}

(* dispatch_on_main_thread, which pings once it has sent. *)
LinuxSend(u, t) ==
  /\ Linux /\ pc[u] = "run"
  /\ Hand(t, "main", "mailbox")
  /\ Go(u, "ring")
  /\ UNCHANGED <<platform, running, step, flag, bell>>

Ping(u) ==
  /\ Linux /\ pc[u] = "ring"
  /\ bell' = 1
  /\ Go(u, "run")
  /\ UNCHANGED <<platform, place, call, running, step, flag>>

(* dispatch_after; the timer thread runs the runnable itself. *)
LinuxAfter(u, t) ==
  /\ Linux /\ pc[u] = "run" /\ Workers # {}
  /\ Hand(t, "any", "timer")
  /\ UNCHANGED <<platform, pc, running, step, flag, bell>>

LinuxStep(from, to) ==
  /\ Linux /\ MainAt(from)
  /\ step' = to
  /\ UNCHANGED <<platform, place, call, pc, running, flag>>

(* The poll returns because of a ping, which it takes. *)
Poll == LinuxStep("asleep", "source") /\ bell = 1 /\ bell' = 0

(* process_events hands a runnable of the queue to its callback. *)
SourceItem(t) ==
  /\ Linux /\ (MainAt("source") \/ MainAt("sourced"))
  /\ place[t] = "mailbox"
  /\ step' = "sourced"
  /\ IF platform = "headless" THEN RunOnMain(t) ELSE Move(t, "loop") /\ UNCHANGED <<pc, running>>
  /\ UNCHANGED <<platform, call, flag, bell>>

(* The queue is empty: if it was not at first, ping again. *)
SourceEnd ==
  /\ Mailbox = {}
  /\ \/ LinuxStep("source", "idles") /\ UNCHANGED bell
     \/ LinuxStep("sourced", "idles") /\ bell' = 1

RunIdle(t) ==
  /\ Linux /\ MainAt("idles")
  /\ place[t] = "loop"
  /\ RunOnMain(t)
  /\ UNCHANGED <<platform, call, step, flag, bell>>

IdlesEnd == In("loop") = {} /\ LinuxStep("idles", "asleep") /\ UNCHANGED bell

LinuxLoop == SourceEnd \/ IdlesEnd \/ \E t \in Tasks : SourceItem(t) \/ RunIdle(t)

LinuxNext ==
  \/ \E u \in Threads, t \in Tasks : LinuxSend(u, t) \/ LinuxAfter(u, t)
  \/ \E u \in Threads : Ping(u)
  \/ LinuxLoop \/ Poll
=============================================================================
