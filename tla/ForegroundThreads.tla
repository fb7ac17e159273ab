-------------------------- MODULE ForegroundThreads --------------------------
(***************************************************************************)
(* The state that the web, Linux and Windows dispatchers have in common: a *)
(* priority queue that threads fill and Main empties, a flag and a bell    *)
(* that are to make Main look at it, and threads that run the rest.  The   *)
(* queue is a set: its order and its lock are PriorityQueue's.             *)
(***************************************************************************)
EXTENDS Naturals

CONSTANTS
  Workers,   \* threads of the pool, and on Linux the timer thread
  Others,    \* the program's own threads, which wake tasks but are given none
  Main,
  Tasks,     \* runnables, each dispatched once
  NoTask

ASSUME ThreadsAssumption == Main \notin Workers \cup Others /\ Workers \cap Others = {}
ASSUME NoTaskAssumption == NoTask \notin Tasks

Threads == Workers \cup Others \cup {Main}
Platforms == {"web", "x11", "headless", "windows"}

VARIABLES
  platform,  \* x11 stands for Wayland too
  place,     \* where a runnable is
  call,      \* the call it was handed over with, as in PlatformDispatcher
  pc,        \* of each thread
  running,   \* what it runs
  step,      \* of Main's own loop
  flag,      \* MainThreadMailbox::signal, WindowsDispatcher::wake_posted
  bell       \* how many wakes Main has still to hear

vars == <<platform, place, call, pc, running, step, flag, bell>>

Places == {"new", "mailbox", "pool", "timer", "loop", "onMain", "elsewhere"}
Calls == {"none", "any", "main", "idle"}
SendSteps == {"flag", "ring"}    \* in the middle of a dispatch to Main
Steps == {"spawned", "asleep",
          "rearm", "drain", "arm", "last",                              \* web
          "source", "sourced", "idles",                                 \* Linux
          "tasks", "budget", "clear", "again", "set", "sizemove"}       \* Windows

TypeOK ==
  /\ platform \in Platforms
  /\ place \in [Tasks -> Places] /\ call \in [Tasks -> Calls]
  /\ pc \in [Threads -> {"free", "run"} \cup SendSteps]
  /\ running \in [Threads -> Tasks \cup {NoTask}]
  /\ step \in Steps /\ flag \in BOOLEAN /\ bell \in Nat

In(p) == {t \in Tasks : place[t] = p}
Mailbox == In("mailbox")
Go(u, next) == pc' = [pc EXCEPT ![u] = next]
Move(t, p) == place' = [place EXCEPT ![t] = p]
Hand(t, c, p) == /\ place[t] = "new"
                 /\ Move(t, p)
                 /\ call' = [call EXCEPT ![t] = c]
MainAt(s) == pc[Main] = "free" /\ step = s

Init ==
  /\ platform \in Platforms
  /\ place = [t \in Tasks |-> "new"] /\ call = [t \in Tasks |-> "none"]
  /\ pc = [u \in Threads |-> IF u \in Others THEN "run" ELSE "free"]
  /\ running = [u \in Threads |-> NoTask]
  /\ step = IF platform = "web" THEN "spawned" ELSE "asleep"
  /\ flag = FALSE /\ bell = 0

(* Main takes a runnable and runs it. *)
RunOnMain(t) ==
  /\ Move(t, "onMain")
  /\ running' = [running EXCEPT ![Main] = t]
  /\ Go(Main, "run")

(* Main is in the platform's event loop. *)
InEventLoop == MainAt("spawned") \/ MainAt("asleep")

(* Code that nobody dispatched: the platform calls back, for an event.     *)
Callback ==
  /\ InEventLoop \/ MainAt("budget")
  /\ Go(Main, "run")
  /\ UNCHANGED <<platform, place, call, running, step, flag, bell>>

(* The runnable, or the callback, returns. *)
Return(u) ==
  /\ pc[u] = "run" /\ u \notin Others
  /\ Go(u, "free")
  /\ running' = [running EXCEPT ![u] = NoTask]
  /\ UNCHANGED <<platform, place, call, step, flag, bell>>

(* dispatch: to the pool. *)
Dispatch(u, t) ==
  /\ pc[u] = "run" /\ Workers # {}
  /\ Hand(t, "any", "pool")
  /\ UNCHANGED <<platform, pc, running, step, flag, bell>>

(* A thread of the pool, or the timer thread, runs what it is given. *)
RunElsewhere(u, t) ==
  /\ u \in Workers /\ pc[u] = "free"
  /\ place[t] \in {"pool", "timer"}
  /\ Move(t, "elsewhere")
  /\ running' = [running EXCEPT ![u] = t]
  /\ Go(u, "run")
  /\ UNCHANGED <<platform, call, step, flag, bell>>

ThreadStep(u) == Return(u) \/ \E t \in Tasks : RunElsewhere(u, t)
=============================================================================
