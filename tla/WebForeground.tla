---------------------------- MODULE WebForeground ----------------------------
(***************************************************************************)
(* The web dispatcher (crates/gpui_web/src/dispatcher.rs).  Main must not  *)
(* block, so its waker loop awaits a promise of Atomics.waitAsync on the   *)
(* signal (flag); who posts stores 1 there and notifies, which resolves    *)
(* the promise (bell).  What is dispatched on Main itself goes to the      *)
(* browser, which calls back.                                              *)
(***************************************************************************)
EXTENDS ForegroundThreads

Web == platform = "web"

(* dispatch_on_main_thread, dispatch_after, spawn_realtime and the idle    *)
(* variant, which differ in what the browser is asked for; dispatch too,   *)
(* where there are no threads.                                             *)
WebHandOver(u, t, c) ==
  /\ Web /\ pc[u] = "run"
  /\ IF u = Main THEN Hand(t, c, "loop") /\ UNCHANGED pc
                 ELSE Hand(t, c, "mailbox") /\ Go(u, "flag")
  /\ UNCHANGED <<platform, running, step, flag, bell>>

(* MainThreadMailbox::post, after it has sent. *)
Store(u) ==
  /\ Web /\ pc[u] = "flag"
  /\ flag' = TRUE
  /\ Go(u, "ring")
  /\ UNCHANGED <<platform, place, call, running, step, bell>>

(* Atomics.notify: only a waiter that is registered hears it. *)
Notify(u) ==
  /\ Web /\ pc[u] = "ring"
  /\ bell' = IF step = "asleep" THEN 1 ELSE bell
  /\ Go(u, "run")
  /\ UNCHANGED <<platform, place, call, running, step, flag>>

WebStep(from, to) ==
  /\ Web /\ MainAt(from)
  /\ step' = to
  /\ UNCHANGED <<platform, place, call, pc, running>>

Start == WebStep("spawned", "rearm") /\ UNCHANGED <<flag, bell>>
Resume == WebStep("asleep", "last") /\ bell = 1 /\ bell' = 0 /\ UNCHANGED flag

(* Mutant of Rearm: waits without draining again. *)
RearmOnly == WebStep("rearm", "arm") /\ flag' = FALSE /\ UNCHANGED bell

Rearm == WebStep("rearm", "drain") /\ flag' = FALSE /\ UNCHANGED bell

(* execute_on_main_thread, for an item that drain has popped. *)
DrainItem(t) ==
  /\ Web /\ (MainAt("drain") \/ MainAt("last"))
  /\ place[t] = "mailbox"
  /\ IF call[t] = "main" THEN RunOnMain(t) ELSE Move(t, "loop") /\ UNCHANGED <<pc, running>>
  /\ UNCHANGED <<platform, call, step, flag, bell>>

Drained ==
  /\ Mailbox = {}
  /\ WebStep("drain", "arm") \/ WebStep("last", "rearm")
  /\ UNCHANGED <<flag, bell>>

(* Atomics.waitAsync(view, 0, 0): "not-equal" is not a wait. *)
Arm ==
  /\ IF flag THEN WebStep("arm", "last") ELSE WebStep("arm", "asleep")
  /\ UNCHANGED <<flag, bell>>

(* A timeout, a microtask or an idle callback. *)
BrowserRun(t) ==
  /\ Web /\ InEventLoop
  /\ place[t] = "loop"
  /\ RunOnMain(t)
  /\ UNCHANGED <<platform, call, step, flag, bell>>

WebLoop == Rearm \/ Drained \/ Arm \/ \E t \in Tasks : DrainItem(t)

WebNext ==
  \/ \E u \in Threads, t \in Tasks, c \in {"any", "main", "idle"} : WebHandOver(u, t, c)
  \/ \E u \in Threads : Store(u) \/ Notify(u)
  \/ Start \/ Resume \/ WebLoop
  \/ \E t \in Tasks : BrowserRun(t)
=============================================================================
