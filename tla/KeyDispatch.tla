----------------------------- MODULE KeyDispatch -----------------------------
(***************************************************************************)
(* Multi-stroke input of a window (crates/gpui/src/window.rs): keystrokes  *)
(* are held back while they may begin a longer binding, replayed when they *)
(* turn out not to, or when a timer is over, and forgotten when the focus  *)
(* moves.  Interceptors, actions and listeners run in the middle of it,    *)
(* and they may move the focus, change the keymap and dispatch keystrokes. *)
(***************************************************************************)
EXTENDS Keymap

CONSTANTS
  Keys, Focuses,
  NoFocus,      \* nothing has the focus: the root of the dispatch tree
  Keymaps,      \* keymaps to begin with, and
  BindingPool,  \* bindings that may be added
  MaxBindings,  \* bounds: bindings in the keymap,
  MaxKeys,      \* keystrokes,
  MaxOps        \* other operations of user code

ASSUME FocusAssumption == NoFocus \notin Focuses
ASSUME KeymapsAssumption == \A map \in Keymaps : map \in Seq(ToSet(map))
ASSUME BoundsAssumption == {MaxBindings, MaxKeys, MaxOps} \subseteq Nat

VARIABLES
  keymap, focus,
  pending,    \* Window::pending_input
  deferred,   \* a notification of the observers waits for the end of the update
  stack,      \* dispatches in progress, outermost first
  fuel,
  told,       \* what observe_pending_input's observers saw last
  blurred,    \* history: the window was blurred since
  keyOf,      \* history: of each keystroke, by number, its key,
  simulated,  \*   whether user code dispatched it, in another dispatch
  acted,      \* history: the keystrokes dispatched as such, in that order
  timed,      \* history: the keystrokes that pended with a timeout
  gone        \* history: those that began a binding, were intercepted or forgotten

input == <<keymap, focus, pending, deferred>>
typing == <<keyOf, simulated>>
history == <<typing, acted, timed, gone>>
vars == <<input, stack, fuel, told, blurred, history>>

NoPending == [keys |-> <<>>, focus |-> NoFocus, timeout |-> FALSE]
Pending == pending.keys # <<>>
ActiveKeys(p, at) == IF p.focus = at THEN p.keys ELSE <<>>

Top == stack[Len(stack)]
Pop == stack' = Front(stack)
Become(call) == stack' = Append(Front(stack), call)

(* A dispatch of keystroke key, at the focus at; a timer replays only. *)
Dispatch(n, at) == [pc |-> "intercept", key |-> n, at |-> at, cur |-> NoPending,
                    replays |-> <<>>, pending |-> <<>>, bound |-> FALSE, taken |-> <<>>]
Replaying(replays) == [Dispatch(0, NoFocus) EXCEPT !.pc = "next", !.replays = replays]

Between == stack = <<>>
Pc(pcs) == ~Between /\ Top.pc \in pcs
Quiet == Between /\ ~deferred
UserCode == Between \/ Pc({"intercept", "replay", "act"})

Init ==
  /\ keymap \in Keymaps
  /\ focus \in Focuses \cup {NoFocus}
  /\ pending = NoPending
  /\ deferred = FALSE
  /\ stack = <<>>
  /\ fuel = MaxOps
  /\ told = <<>> /\ blurred = FALSE
  /\ keyOf = <<>> /\ simulated = {}
  /\ acted = <<>> /\ timed = {} /\ gone = {}

-----------------------------------------------------------------------------
(* Operations of user code, outside of any dispatch or within one *)

Operation == UserCode /\ fuel > 0 /\ fuel' = fuel - 1

(* Mutant of Focus: leaves the observers as they are. *)
FocusQuietly(f) ==
  /\ Operation
  /\ f # focus
  /\ focus' = f
  /\ pending' = NoPending
  /\ gone' = gone \cup ToSet(pending.keys)
  /\ UNCHANGED <<keymap, deferred, stack, told, blurred, typing, acted, timed>>

(* Window::focus *)
Focus(f) ==
  /\ Operation
  /\ f # focus
  /\ focus' = f
  /\ pending' = NoPending
  /\ gone' = gone \cup ToSet(pending.keys)
  /\ deferred' = TRUE
  /\ UNCHANGED <<keymap, stack, told, blurred, typing, acted, timed>>

(* Window::blur forgets nothing, and tells nobody. *)
Blur ==
  /\ Operation
  /\ focus # NoFocus
  /\ focus' = NoFocus
  /\ blurred' = TRUE
  /\ UNCHANGED <<keymap, pending, deferred, stack, told, history>>

(* App::bind_keys *)
BindKeys(b) ==
  /\ Operation
  /\ Len(keymap) < MaxBindings
  /\ keymap' = Append(keymap, b)
  /\ UNCHANGED <<focus, pending, deferred, stack, told, blurred, history>>

(* App::clear_key_bindings *)
ClearKeyBindings ==
  /\ Operation
  /\ keymap' = <<>>
  /\ UNCHANGED <<focus, pending, deferred, stack, told, blurred, history>>

(* pending_input_changed *)
Tell(p) == told' = ActiveKeys(p, focus) /\ blurred' = FALSE

(* App::clear_pending_keystrokes, when a menu opens. *)
ClearPendingKeystrokes ==
  /\ Quiet
  /\ ActiveKeys(pending, focus) # <<>>
  /\ pending' = NoPending
  /\ gone' = gone \cup ToSet(pending.keys)
  /\ Tell(NoPending)
  /\ UNCHANGED <<keymap, focus, deferred, stack, fuel, typing, acted, timed>>

(* What focus deferred, at the end of the update. *)
TellDeferred ==
  /\ Between /\ deferred
  /\ deferred' = FALSE
  /\ Tell(pending)
  /\ UNCHANGED <<keymap, focus, pending, stack, fuel, history>>

-----------------------------------------------------------------------------
(* dispatch_key_event *)

(* A key is pressed, or user code calls dispatch_keystroke. *)
KeyDown(k) ==
  /\ Quiet \/ (~Between /\ UserCode)
  /\ Len(keyOf) < MaxKeys
  /\ keyOf' = Append(keyOf, k)
  /\ simulated' = IF Between THEN simulated ELSE simulated \cup {Len(keyOf) + 1}
  /\ stack' = Append(stack, Dispatch(Len(keyOf) + 1, focus))
  /\ UNCHANGED <<input, fuel, told, blurred, acted, timed, gone>>

(* An interceptor stops the keystroke. *)
Intercept ==
  /\ Pc({"intercept"})
  /\ gone' = gone \cup {Top.key}
  /\ Pop
  /\ UNCHANGED <<input, fuel, told, blurred, typing, acted, timed>>

(* The pending input is taken, unless it is of another focus, and the      *)
(* keystroke matched after it.                                             *)
Stale == pending.focus # NoFocus /\ pending.focus # focus

Match ==
  /\ Pc({"intercept"})
  /\ LET cur == IF Stale THEN NoPending ELSE pending
         out == DispatchKey(keymap, cur.keys, Top.key, keyOf, Top.at) IN
       Become([Top EXCEPT !.pc = "next", !.cur = cur, !.replays = out.replays,
                          !.pending = out.pending, !.bound = out.bound, !.taken = out.taken])
  /\ pending' = NoPending
  /\ gone' = IF Stale THEN gone \cup ToSet(pending.keys) ELSE gone
  /\ UNCHANGED <<keymap, focus, deferred, fuel, told, blurred, typing, acted, timed>>

(* Mutant of Replay: the last first. *)
ReplayLast ==
  /\ Pc({"next", "replay"}) /\ Top.replays # <<>>
  /\ acted' = Append(acted, Last(Last(Top.replays)))
  /\ gone' = gone \cup ToSet(Front(Last(Top.replays)))
  /\ Become([Top EXCEPT !.pc = "replay", !.replays = Front(@)])
  /\ UNCHANGED <<input, fuel, told, blurred, typing, timed>>

(* replay_pending_input: the bindings of the next replay, or its last      *)
(* keystroke.                                                              *)
Replay ==
  /\ Pc({"next", "replay"}) /\ Top.replays # <<>>
  /\ acted' = Append(acted, Last(Head(Top.replays)))
  /\ gone' = gone \cup ToSet(Front(Head(Top.replays)))
  /\ Become([Top EXCEPT !.pc = "replay", !.replays = Tail(@)])
  /\ UNCHANGED <<input, fuel, told, blurred, typing, timed>>

Replayed == Pc({"next", "replay"}) /\ Top.replays = <<>>

(* Mutant of Hold: a timeout is needed only for what pends now. *)
HoldAfresh(text) ==
  /\ Replayed /\ Top.pending # <<>>
  /\ pending' = [keys |-> Top.pending, focus |-> focus, timeout |-> Top.bound \/ text]
  /\ timed' = IF pending'.timeout THEN timed \cup ToSet(pending'.keys) ELSE timed
  /\ Tell(pending')
  /\ Pop
  /\ UNCHANGED <<keymap, focus, deferred, fuel, typing, acted, gone>>

(* The keystroke is held back, with a timeout if it completes a binding,   *)
(* or types text.                                                          *)
Hold(text) ==
  /\ Replayed /\ Top.pending # <<>>
  /\ pending' = [keys |-> Top.pending, focus |-> focus,
                 timeout |-> Top.cur.timeout \/ Top.bound \/ text]
  /\ timed' = IF pending'.timeout THEN timed \cup ToSet(pending'.keys) ELSE timed
  /\ Tell(pending')
  /\ Pop
  /\ UNCHANGED <<keymap, focus, deferred, fuel, typing, acted, gone>>

(* Or else the bindings run, and listeners if these do not handle it; or    *)
(* the listeners alone, if the keystroke rather types text.  Whichever it   *)
(* is, the keystroke acts, and callbacks of the program run.                *)
Act ==
  /\ Replayed /\ Top.taken # <<>>
  /\ acted' = Append(acted, Last(Top.taken))
  /\ gone' = gone \cup ToSet(Front(Top.taken))
  /\ Become([Top EXCEPT !.pc = "act"])
  /\ UNCHANGED <<input, fuel, told, blurred, typing, timed>>

EndAct ==
  /\ Pc({"act"})
  /\ Tell(pending)
  /\ Pop
  /\ UNCHANGED <<input, fuel, history>>

-----------------------------------------------------------------------------
(* The timer of the pending input fires, while nothing runs. *)
TimeOut ==
  /\ Quiet
  /\ Pending /\ pending.timeout
  /\ pending' = NoPending
  /\ IF pending.focus = focus
     THEN /\ Tell(NoPending)
          /\ stack' = <<Replaying(Flush(keymap, pending.keys, keyOf, focus))>>
          /\ UNCHANGED gone
     ELSE gone' = gone \cup ToSet(pending.keys) /\ UNCHANGED <<stack, told, blurred>>
  /\ UNCHANGED <<keymap, focus, deferred, fuel, typing, acted, timed>>

EndTimeOut ==
  /\ Replayed /\ Top.pending = <<>> /\ Top.taken = <<>>
  /\ Pop
  /\ UNCHANGED <<input, fuel, told, blurred, history>>

Next ==
  \/ \E f \in Focuses : Focus(f)
  \/ Blur \/ ClearKeyBindings \/ ClearPendingKeystrokes
  \/ \E b \in BindingPool : BindKeys(b)
  \/ \E k \in Keys : KeyDown(k)
  \/ Intercept \/ Match \/ Replay \/ Act \/ EndAct
  \/ \E text \in BOOLEAN : Hold(text)
  \/ TimeOut \/ EndTimeOut \/ TellDeferred

Spec == Init /\ [][Next]_vars

-----------------------------------------------------------------------------
(* Properties *)

TypeOK ==
  /\ \A i \in DOMAIN keymap : keymap[i] \in BindingPool \cup UNION {ToSet(m) : m \in Keymaps}
  /\ focus \in Focuses \cup {NoFocus}
  /\ pending.keys \in Seq(1..Len(keyOf)) /\ pending.focus \in Focuses \cup {NoFocus}
  /\ pending.timeout \in BOOLEAN /\ deferred \in BOOLEAN /\ blurred \in BOOLEAN
  /\ fuel \in 0..MaxOps
  /\ keyOf \in Seq(Keys) /\ Len(keyOf) <= MaxKeys
  /\ told \in Seq(1..Len(keyOf)) /\ acted \in Seq(1..Len(keyOf))
  /\ simulated \cup timed \cup gone \subseteq 1..Len(keyOf)

(* The keystrokes that the user types act in that order, each at most      *)
(* once, and when nothing is in progress only those that are pending have  *)
(* not: none is lost in a replay, or in a dispatch out of one.             *)
KeysActInOrder ==
  /\ \A i, j \in DOMAIN acted :
       i < j /\ acted[i] \notin simulated /\ acted[j] \notin simulated => acted[i] < acted[j]
  /\ ToSet(acted) \cap gone = {}
  /\ Between => \A n \in DOMAIN keyOf \ (simulated \cup gone) :
                  (n \in ToSet(acted)) # (n \in ToSet(pending.keys))

(* "Register a callback to be invoked when the window's pending input      *)
(* changes": between updates the observers know it.                        *)
ObserversUpToDate == Quiet /\ ~blurred => told = ActiveKeys(pending, focus)

(* A timer is set as long as anything is pending that completed a binding, *)
(* or typed text, when it was held back: those keystrokes are not kept     *)
(* back until the next one, however many have joined them.                 *)
TimeoutsStand ==
  Between => (ToSet(pending.keys) \cap timed # {} => pending.timeout)
=============================================================================
