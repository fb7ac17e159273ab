--------------------------- MODULE WindowLifecycle ---------------------------
(***************************************************************************)
(* The windows of an App (crates/gpui/src/app.rs): a window is taken out   *)
(* of its slot while it is updated, opened or drawn for the first time,    *)
(* and put back, or closed, when that ends.  Closing calls the close       *)
(* observers, the flush of effects runs deferred updates and the observers *)
(* of new entities in their window, and shutdown clears the slots; all of  *)
(* them run user code, which may do it all again.                          *)
(***************************************************************************)
EXTENDS Naturals, Sequences, FiniteSets, FiniteSetsExt

CONSTANTS
  Windows,
  NoWindow,
  ClosedObservers,   \* how many callbacks of on_window_closed,
  NewObservers,      \* of observe_new, and
  QuitObservers,     \* of on_app_quit there are
  MaxOps             \* bound: operations of user code

ASSUME NoWindowAssumption == NoWindow \notin Windows
ASSUME CountsAssumption == {ClosedObservers, NewObservers, QuitObservers, MaxOps} \subseteq Nat

VARIABLES
  slot,       \* App::windows: a key that is empty or filled, or is not there (new, gone)
  handles,    \* App::window_handles
  removed,    \* Window::removed
  quitMode,
  quit,       \* Platform::quit was called
  effects, pendingUpdates, flushing,
  stack,      \* the calls in progress, outermost first
  fuel,       \* operations user code may still do
  panicked,
  heard,      \* history: which windows the close observers were called for
  closed,     \* history: windows that were closed,
  unheard     \* and of those, the ones closed while another was announced

vars == <<slot, handles, removed, quitMode, quit, effects, pendingUpdates, flushing, stack,
          fuel, panicked, heard, closed, unheard>>

Call(at) == [at |-> at, win |-> NoWindow, todo |-> {}]
CallFor(at, w, n) == [at |-> at, win |-> w, todo |-> 1..n]

(* User code: the closures of App::update, update_window and open_window,  *)
(* a first draw, and callbacks that are given the App.                     *)
UserCode == {"update", "window", "build", "draw", "user"}
Holding == {"window", "build", "draw"}
Announcing == {"closed", "created", "quit"}   \* retain or remove of a set of observers
Updates == Holding \cup {"update", "leave", "closed"}

Running == stack # <<>>
Top == stack[Len(stack)]
At(at) == ~panicked /\ Running /\ Top.at = at
Under == SubSeq(stack, 1, Len(stack) - 1)
Push(call) == stack' = Append(stack, call)
Pop == stack' = Under
Become(call) == stack' = Append(Under, call)

Calls(at) == {i \in DOMAIN stack : stack[i].at \in at}
Holders(w) == {i \in Calls(Holding) : stack[i].win = w}
OpenWindows == {w \in Windows : slot[w] \in {"empty", "filled"}}

Init ==
  /\ slot = [w \in Windows |-> "new"]
  /\ handles = {} /\ removed = {}
  /\ quitMode \in {"last", "explicit"}
  /\ quit = FALSE
  /\ effects = <<>> /\ pendingUpdates = 0 /\ flushing = FALSE
  /\ stack = <<>>
  /\ fuel = MaxOps
  /\ panicked = FALSE
  /\ heard = {} /\ closed = {} /\ unheard = {}

windowState == <<slot, handles, removed>>
cycle == <<effects, pendingUpdates, flushing>>
history == <<heard, closed, unheard>>

-----------------------------------------------------------------------------
(* Updates *)

(* The platform or an executor calls into the App: App::update. *)
Begin ==
  /\ ~panicked /\ ~Running
  /\ fuel > 0
  /\ Push(Call("update"))
  /\ pendingUpdates' = pendingUpdates + 1
  /\ UNCHANGED <<windowState, quitMode, quit, effects, flushing, fuel, panicked, history>>

(* finish_update *)
Finish ==
  /\ At("update") \/ At("leave")
  /\ IF ~flushing /\ pendingUpdates = 1
     THEN flushing' = TRUE /\ Become(Call("flush")) /\ UNCHANGED pendingUpdates
     ELSE pendingUpdates' = pendingUpdates - 1 /\ Pop /\ UNCHANGED flushing
  /\ UNCHANGED <<windowState, quitMode, quit, effects, fuel, panicked, history>>

Return ==
  /\ At("user")
  /\ Pop
  /\ UNCHANGED <<windowState, quitMode, quit, cycle, fuel, panicked, history>>

(* update_window_id takes the window out of its slot. *)
Enter(w, calls) ==
  /\ slot[w] = "filled"
  /\ slot' = [slot EXCEPT ![w] = "empty"]
  /\ stack' = Append(calls, CallFor("window", w, 0))
  /\ pendingUpdates' = pendingUpdates + 1

(* Mutant of Trail: the key of a closed window stays. *)
TrailKept ==
  /\ At("window")
  /\ LET w == Top.win
         nested == Calls({"closed"}) # {} IN
       IF w \in removed
       THEN /\ handles' = handles \ {w}
            /\ Become(CallFor("closed", w, IF nested THEN 0 ELSE ClosedObservers))
            /\ closed' = closed \cup {w}
            /\ unheard' = IF nested THEN unheard \cup {w} ELSE unheard
            /\ UNCHANGED slot
       ELSE /\ slot' = [slot EXCEPT ![w] = "filled"]
            /\ Become(Call("leave"))
            /\ UNCHANGED <<handles, closed, unheard>>
  /\ UNCHANGED <<removed, quitMode, quit, cycle, fuel, panicked, heard>>

(* The closure returns.  A window that was removed meanwhile is closed and *)
(* announced, unless the observers are being called for another one: their *)
(* retain has taken them out of the set.                                   *)
Trail ==
  /\ At("window")
  /\ LET w == Top.win
         nested == Calls({"closed"}) # {} IN
       IF w \in removed
       THEN /\ slot' = [slot EXCEPT ![w] = "gone"]
            /\ handles' = handles \ {w}
            /\ Become(CallFor("closed", w, IF nested THEN 0 ELSE ClosedObservers))
            /\ closed' = closed \cup {w}
            /\ unheard' = IF nested THEN unheard \cup {w} ELSE unheard
       ELSE /\ slot' = [slot EXCEPT ![w] = "filled"]
            /\ Become(Call("leave"))
            /\ UNCHANGED <<handles, closed, unheard>>
  /\ UNCHANGED <<removed, quitMode, quit, cycle, fuel, panicked, heard>>

(* The next observer is called. *)
Announced == /\ Top.todo # {}
             /\ stack' = Append(Append(Under, [Top EXCEPT !.todo = @ \ {Min(@)}]), Call("user"))

RunClosed ==
  /\ At("closed") /\ Announced
  /\ heard' = heard \cup {<<Top.win, Min(Top.todo)>>}
  /\ UNCHANGED <<windowState, quitMode, quit, cycle, fuel, panicked, closed, unheard>>

EndClosed ==
  /\ At("closed") /\ Top.todo = {}
  /\ quit' = (quit \/ (quitMode = "last" /\ OpenWindows = {}))
  /\ Become(Call("leave"))
  /\ UNCHANGED <<windowState, quitMode, cycle, fuel, panicked, history>>

-----------------------------------------------------------------------------
(* Operations of user code *)

Operation ==
  /\ ~panicked /\ Running /\ Top.at \in UserCode
  /\ fuel > 0
  /\ fuel' = fuel - 1

(* Windows that the code on top has a reference to: a callback, which is   *)
(* kept, has none to those of the calls it is called from.                 *)
InHand == {stack[i].win : i \in {j \in Calls(Holding) :
             \A k \in j + 1..Len(stack) : stack[k].at \in {"update", "window", "build"}}}

(* window_update_stack.last(); a first draw is not on it. *)
CurrentWindow ==
  LET S == Calls({"window", "build"}) IN IF S = {} THEN NoWindow ELSE stack[Max(S)].win

Update ==
  /\ Operation
  /\ Push(Call("update"))
  /\ pendingUpdates' = pendingUpdates + 1
  /\ UNCHANGED <<windowState, quitMode, quit, effects, flushing, panicked, history>>

(* Mutant of UpdateWindow: a window that is out of its slot is updated too. *)
UpdateAnyWindow(w) ==
  /\ Operation
  /\ slot[w] \in {"filled", "empty"}
  /\ slot' = [slot EXCEPT ![w] = "empty"]
  /\ Push(CallFor("window", w, 0))
  /\ pendingUpdates' = pendingUpdates + 1
  /\ UNCHANGED <<handles, removed, quitMode, quit, effects, flushing, panicked, history>>

(* Of a window that is not in its slot, an update returns an error. *)
UpdateWindow(w) ==
  /\ Operation
  /\ Enter(w, stack)
  /\ UNCHANGED <<handles, removed, quitMode, quit, effects, flushing, panicked, history>>

RemoveWindow(w) ==
  /\ Operation
  /\ w \in InHand \ removed
  /\ removed' = removed \cup {w}
  /\ UNCHANGED <<slot, handles, quitMode, quit, cycle, stack, panicked, history>>

(* Window::defer; App::defer, which needs no window, and no update either: *)
(* what the quit observers defer is left for shutdown to flush.            *)
Defer(w) ==
  /\ Operation
  /\ w \in InHand \cup {NoWindow}
  /\ effects' = Append(effects, [kind |-> "deferred", win |-> w])
  /\ UNCHANGED <<windowState, quitMode, quit, pendingUpdates, flushing, stack, panicked, history>>

(* App::new, whose own update only matters where none is in progress. *)
NewEntity ==
  /\ Operation
  /\ pendingUpdates > 0
  /\ effects' = Append(effects, [kind |-> "created", win |-> CurrentWindow])
  /\ UNCHANGED <<windowState, quitMode, quit, pendingUpdates, flushing, stack, panicked, history>>

(* open_window; when the platform has no window to give, nothing changes.  *)
Open(w) ==
  /\ Operation
  /\ slot[w] = "new"
  /\ slot' = [slot EXCEPT ![w] = "empty"]
  /\ Push(CallFor("build", w, 0))
  /\ pendingUpdates' = pendingUpdates + 1
  /\ UNCHANGED <<handles, removed, quitMode, quit, effects, flushing, panicked, history>>

(* Mutant of Built: nothing is deferred. *)
BuiltOnly ==
  /\ At("build")
  /\ Become(CallFor("draw", Top.win, 0))
  /\ UNCHANGED <<windowState, quitMode, quit, cycle, fuel, panicked, history>>

(* The root view is there: appearance_changed is deferred, and the window  *)
(* drawn.                                                                  *)
Built ==
  /\ At("build")
  /\ effects' = Append(effects, [kind |-> "deferred", win |-> Top.win])
  /\ Become(CallFor("draw", Top.win, 0))
  /\ UNCHANGED <<windowState, quitMode, quit, pendingUpdates, flushing, fuel, panicked, history>>

Drawn ==
  /\ At("draw")
  /\ handles' = handles \cup {Top.win}
  /\ slot' = [slot EXCEPT ![Top.win] = "filled"]
  /\ Become(Call("leave"))
  /\ UNCHANGED <<removed, quitMode, quit, cycle, fuel, panicked, history>>

-----------------------------------------------------------------------------
(* flush_effects *)

(* The flush of shutdown is not part of an update, so that an update in one *)
(* of its callbacks flushes within it.                                      *)
Flushing == At("flush") \/ At("drain")
NextEffect(kind) == /\ Flushing
                    /\ effects # <<>> /\ Head(effects).kind = kind
                    /\ effects' = Tail(effects)

(* A deferred update of a window that is not in its slot does nothing. *)
ApplyDeferred ==
  /\ NextEffect("deferred")
  /\ LET w == Head(effects).win IN
       \/ w = NoWindow /\ Push(Call("user")) /\ UNCHANGED <<slot, pendingUpdates>>
       \/ w # NoWindow /\ Enter(w, stack)
       \/ w # NoWindow /\ slot[w] # "filled" /\ UNCHANGED <<slot, stack, pendingUpdates>>
  /\ UNCHANGED <<handles, removed, quitMode, quit, flushing, fuel, panicked, history>>

(* apply_entity_created_effect; retain, as in Trail. *)
ApplyCreated ==
  /\ NextEffect("created")
  /\ Push(CallFor("created", Head(effects).win,
                  IF Calls({"created"}) # {} THEN 0 ELSE NewObservers))
  /\ UNCHANGED <<windowState, quitMode, quit, pendingUpdates, flushing, fuel, panicked, history>>

(* The next observer, in the window of the entity; that the window is      *)
(* there is expected.                                                      *)
RunCreated ==
  /\ At("created") /\ Top.todo # {}
  /\ LET w == Top.win IN
       IF w = NoWindow THEN Announced /\ UNCHANGED <<slot, pendingUpdates, panicked>>
       ELSE IF slot[w] = "filled"
            THEN /\ Enter(w, Append(Under, [Top EXCEPT !.todo = @ \ {Min(@)}]))
                 /\ UNCHANGED panicked
            ELSE panicked' = TRUE /\ UNCHANGED <<slot, stack, pendingUpdates>>
  /\ UNCHANGED <<handles, removed, quitMode, quit, effects, flushing, fuel, history>>

EndCreated ==
  /\ At("created") /\ Top.todo = {}
  /\ Pop
  /\ UNCHANGED <<windowState, quitMode, quit, cycle, fuel, panicked, history>>

EndFlush ==
  /\ Flushing
  /\ effects = <<>>
  /\ Pop
  /\ IF Top.at = "flush"
     THEN flushing' = FALSE /\ pendingUpdates' = pendingUpdates - 1
     ELSE UNCHANGED <<flushing, pendingUpdates>>
  /\ UNCHANGED <<windowState, quitMode, quit, effects, fuel, panicked, history>>

-----------------------------------------------------------------------------
(* shutdown, which the platform calls between updates *)

Shutdown ==
  /\ ~panicked /\ ~Running
  /\ fuel > 0
  /\ fuel' = fuel - 1
  /\ Push(CallFor("quit", NoWindow, QuitObservers))
  /\ UNCHANGED <<windowState, quitMode, quit, cycle, panicked, history>>

RunQuit ==
  /\ At("quit") /\ Announced
  /\ UNCHANGED <<windowState, quitMode, quit, cycle, fuel, panicked, history>>

ClearWindows ==
  /\ At("quit") /\ Top.todo = {}
  /\ slot' = [w \in Windows |-> IF w \in OpenWindows THEN "gone" ELSE slot[w]]
  /\ handles' = {}
  /\ Become(Call("drain"))
  /\ UNCHANGED <<removed, quitMode, quit, cycle, fuel, panicked, history>>

-----------------------------------------------------------------------------
Operations ==
  \/ Update \/ NewEntity
  \/ \E w \in Windows : UpdateWindow(w) \/ RemoveWindow(w) \/ Open(w)
  \/ \E w \in Windows \cup {NoWindow} : Defer(w)

Next ==
  \/ Begin \/ Finish \/ Return \/ Trail \/ RunClosed \/ EndClosed
  \/ Operations \/ Built \/ Drawn
  \/ ApplyDeferred \/ ApplyCreated \/ RunCreated \/ EndCreated \/ EndFlush
  \/ Shutdown \/ RunQuit \/ ClearWindows

Spec == Init /\ [][Next]_vars

-----------------------------------------------------------------------------
(* Properties *)

(* The state keeps its type, and pending_updates is how many updates are   *)
(* in progress: were it ever too large, no flush would begin again.        *)
TypeOK ==
  /\ slot \in [Windows -> {"new", "empty", "filled", "gone"}]
  /\ handles \cup removed \cup closed \cup unheard \subseteq Windows
  /\ quitMode \in {"last", "explicit"} /\ quit \in BOOLEAN /\ panicked \in BOOLEAN
  /\ effects \in Seq([kind : {"deferred", "created"}, win : Windows \cup {NoWindow}])
  /\ flushing = (Calls({"flush"}) # {})
  /\ pendingUpdates = Cardinality(Calls(Updates \cup {"flush"}))
  /\ \A i \in DOMAIN stack : stack[i].at \in UserCode \cup Updates \cup Announcing \cup {"flush", "drain"}
  /\ fuel \in 0..MaxOps

(* A window is in one place: in its slot or in the hands of one call, and  *)
(* the handles name those that are open.  So every call that takes a       *)
(* window puts it back or closes it, no two ever have it, and no flush     *)
(* begins while one has: "all windows should be off the stack when         *)
(* flushing effects".                                                      *)
InOnePlace ==
  /\ \A w \in Windows : Cardinality(Holders(w)) = IF slot[w] = "empty" THEN 1 ELSE 0
  /\ handles = {w \in OpenWindows : \A i \in Holders(w) : stack[i].at = "window"}
  /\ \A i \in Calls({"flush", "drain"}) : \A j \in 1..i - 1 : stack[j].at \notin Holding

(* A window that asked to be closed, even while it was being built or      *)
(* first drawn, is closed by the time the App rests.                       *)
RemovedIsClosed == ~Running => \A w \in removed : slot[w] # "filled"

(* The close observers have all been called for a window that was closed,  *)
(* and for no window that is still there.                                  *)
ClosedIsHeard ==
  /\ ~Running => (closed \ unheard) \X (1..ClosedObservers) = heard
  /\ \A h \in heard : slot[h[1]] = "gone"

(* With quit mode LastWindowClosed, an App that has closed its last window *)
(* has asked the platform to quit.                                         *)
QuitsWhenLastCloses ==
  ~Running /\ quitMode = "last" /\ closed # {} /\ {w \in Windows : slot[w] # "new"} = closed => quit

(* What RunCreated expects (app.rs:1776). *)
WindowIsThere == ~panicked
=============================================================================
