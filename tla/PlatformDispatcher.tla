-------------------------- MODULE PlatformDispatcher --------------------------
(***************************************************************************)
(* What the executors rely on in a dispatcher (the trait                   *)
(* PlatformDispatcher of crates/gpui/src/platform.rs): a runnable that was *)
(* handed over is run, once, and one for the main thread by no other.      *)
(* Nothing is said about order or time.                                    *)
(***************************************************************************)
CONSTANT Tasks  \* runnables

VARIABLE state  \* handed over with one of three calls, run on the main thread or elsewhere

Init == state = [t \in Tasks |-> "new"]

Handed(t, call) == state[t] = "new" /\ state' = [state EXCEPT ![t] = call]

Dispatch(t) == Handed(t, "any")                     \* also dispatch_after
DispatchOnMainThread(t) == Handed(t, "main")
DispatchOnMainThreadWhenIdle(t) == Handed(t, "idle")

Run(t) ==
  \/ state[t] \in {"any", "main", "idle"} /\ state' = [state EXCEPT ![t] = "onMain"]
  \/ state[t] = "any" /\ state' = [state EXCEPT ![t] = "elsewhere"]

Next ==
  \E t \in Tasks :
    Dispatch(t) \/ DispatchOnMainThread(t) \/ DispatchOnMainThreadWhenIdle(t) \/ Run(t)

(* The main thread need never be idle. *)
Fairness == \A t \in Tasks : WF_state(state[t] # "idle" /\ Run(t))

Spec == Init /\ [][Next]_state
FairSpec == Spec /\ Fairness
=============================================================================
