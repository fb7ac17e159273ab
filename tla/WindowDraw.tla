------------------------------ MODULE WindowDraw ------------------------------
(***************************************************************************)
(* Which windows redraw when an entity is notified                         *)
(* (crates/gpui/src/window.rs, view.rs and App::notify in app.rs).         *)
(*                                                                         *)
(* A draw renders the window's views as a tree.  A cached view whose       *)
(* subtree nobody notified is taken over from the rendered frame, with the *)
(* entities it accessed.  What a draw accessed decides which windows the   *)
(* next notify of an entity makes dirty; a dirty window asks the platform  *)
(* for a frame.                                                            *)
(*                                                                         *)
(* What a view renders is user code: any children, plain or cached.  Every *)
(* entity here is a view, shown at most once in a window.                  *)
(***************************************************************************)
EXTENDS Naturals, Sequences, FiniteSets, SequencesExt

CONSTANTS
  Windows, Entities,
  Root,             \* the root view of each window
  None,             \* the parent of a view that is not shown
  ReadOthers,       \* whether a view may read other entities as it renders
  OpenWhileDrawing  \* whether a window may be opened out of a draw

ASSUME RootAssumption == Root \in [Windows -> Entities]
ASSUME NoneAssumption == None \notin Entities /\ None \notin Windows
ASSUME KindsAssumption == Windows \cap Entities = {} /\ IsFiniteSet(Entities)
ASSUME ModesAssumption == ReadOthers \in BOOLEAN /\ OpenWhileDrawing \in BOOLEAN

VARIABLES
  status,        \* a window is unopened, opening, open or closed
  dirty, views,  \* of its WindowInvalidator: dirty and dirty_views
  refreshing,    \* Window::refreshing: this draw ignores caches
  callbacks,     \* whether next_frame_callbacks has any
  wake,          \* the platform owes the window a frame request
  frame,         \* the rendered frame
  tracked,       \* App::tracked_entities
  invalidators,  \* App::window_invalidators_by_entity
  accessed,      \* EntityMap::accessed_entities, one set for all draws
  draws,         \* the draws in progress, outermost first
  serving,       \* the frame request that is being served
  stale          \* history: views shown that were notified since they rendered

demand == <<callbacks, wake, serving>>
lookup == <<tracked, invalidators>>
vars == <<status, dirty, views, refreshing, demand, frame, lookup, accessed, draws, stale>>

(* A frame: the parent of each view shown (the window for its root), the   *)
(* views embedded as cached, and the accessed_entities kept with them.     *)
Frames == [up : [Entities -> Entities \cup Windows \cup {None}],
           cached : SUBSET Entities, kept : [Entities -> SUBSET Entities]]
NoFrame == [up |-> [e \in Entities |-> None], cached |-> {},
            kept |-> [e \in Entities |-> {}]]
Shown(f) == {e \in Entities : f.up[e] # None}

(* A view and its ancestors, up to the root: what every set has that has   *)
(* the view and the parent of each view in it.                             *)
HasParents(f, S) == \A x \in S : f.up[x] \in Entities => f.up[x] \in S
ViewPath(f, e) ==
  {x \in Entities : \A S \in SUBSET Entities : e \in S /\ HasParents(f, S) => x \in S}
Subtree(f, e) == {x \in Shown(f) : e \in ViewPath(f, x)}

(* Rendering the root, or a cached view whose cache does not serve: the    *)
(* entities accessed before it, the plain views to lay out in order, and   *)
(* the cached views to prepaint after them.                                *)
Blocks == [view : Entities, start : SUBSET Entities,
           plain : Seq(Entities), cached : SUBSET Entities]
Block(e, start) == [view |-> e, start |-> start, plain |-> <<e>>, cached |-> {}]

Draws == [win : Windows, marked : SUBSET Entities, next : Frames, blocks : Seq(Blocks)]

WellFormed(f, w) ==
  /\ f.cached \subseteq Shown(f)
  /\ \A e \in Entities : f.kept[e] # {} => e \in f.cached
  /\ \A e \in Shown(f) : Root[w] \in ViewPath(f, e)

TypeOK ==
  /\ status \in [Windows -> {"unopened", "opening", "open", "closed"}]
  /\ dirty \in [Windows -> BOOLEAN] /\ refreshing \in [Windows -> BOOLEAN]
  /\ callbacks \in [Windows -> BOOLEAN] /\ wake \in [Windows -> BOOLEAN]
  /\ views \in [Windows -> SUBSET Entities]
  /\ frame \in [Windows -> Frames]
  /\ \A w \in Windows : WellFormed(frame[w], w) /\ stale[w] \subseteq Shown(frame[w])
  /\ tracked \in [Windows -> SUBSET Entities]
  /\ invalidators \in [Entities -> SUBSET Windows]
  /\ accessed \subseteq Entities
  /\ draws \in Seq(Draws)
  /\ \A i \in DOMAIN draws : WellFormed(draws[i].next, draws[i].win)
  /\ serving \in [win : Windows \cup {None}, stage : {"none", "asked", "ran", "drawn"}]

Init ==
  /\ status = [w \in Windows |-> "unopened"]
  /\ dirty = [w \in Windows |-> FALSE] /\ views = [w \in Windows |-> {}]
  /\ refreshing = [w \in Windows |-> FALSE]
  /\ callbacks = [w \in Windows |-> FALSE] /\ wake = [w \in Windows |-> FALSE]
  /\ frame = [w \in Windows |-> NoFrame]
  /\ tracked = [w \in Windows |-> {}]
  /\ invalidators = [e \in Entities |-> {}]
  /\ accessed = {}
  /\ draws = <<>>
  /\ serving = [win |-> None, stage |-> "none"]
  /\ stale = [w \in Windows |-> {}]

-----------------------------------------------------------------------------
(* User code *)

Drawing(w) == \E i \in DOMAIN draws : draws[i].win = w

(* Outside of frame requests, from their callbacks, and out of draws: from *)
(* prepaint and paint closures and from focus listeners.                   *)
UserCode == serving.stage # "asked"

(* Mutant of Dirtied: the waker is not called. *)
DirtiedAsleep(ws) ==
  /\ dirty' = [w \in Windows |-> dirty[w] \/ w \in ws]
  /\ UNCHANGED wake

(* WindowInvalidator: a window that becomes dirty wakes the platform. *)
Dirtied(ws) ==
  /\ dirty' = [w \in Windows |-> dirty[w] \/ w \in ws]
  /\ wake' = [w \in Windows |-> wake[w] \/ (w \in ws /\ ~dirty[w])]

(* App::notify: invalidates the view in the windows that track the entity. *)
(* A window in the middle of a draw only notes the view.                   *)
Notify(e) ==
  /\ UserCode
  /\ LET live == {w \in invalidators[e] : e \in tracked[w]}
     IN /\ views' = [w \in Windows |-> views[w] \cup (IF w \in live THEN {e} ELSE {})]
        /\ Dirtied({w \in live : ~Drawing(w)})
  /\ stale' = [w \in Windows |->
                 IF e \in Shown(frame[w]) /\ ~Drawing(w) THEN stale[w] \cup {e} ELSE stale[w]]
  /\ UNCHANGED <<status, refreshing, callbacks, serving, frame, lookup, accessed, draws>>

(* Window::refresh, or a refresh of all windows. *)
Refresh(w) ==
  /\ UserCode
  /\ status[w] = "open" /\ ~Drawing(w)
  /\ refreshing' = [refreshing EXCEPT ![w] = TRUE]
  /\ Dirtied({w})
  /\ UNCHANGED <<status, views, callbacks, serving, frame, lookup, accessed, draws, stale>>

OnNextFrame(w) ==
  /\ UserCode
  /\ status[w] \in {"opening", "open"}
  /\ callbacks' = [callbacks EXCEPT ![w] = TRUE]
  /\ wake' = [wake EXCEPT ![w] = TRUE]
  /\ UNCHANGED <<status, dirty, views, refreshing, serving, frame, lookup, accessed, draws, stale>>

(* Mutant of Forgotten: the invalidators keep the window. *)
NotForgotten(w) == invalidators

Forgotten(w) ==
  [e \in Entities |-> IF e \in tracked[w] THEN invalidators[e] \ {w} ELSE invalidators[e]]

(* The end of an update in which the window was removed. *)
Close(w) ==
  /\ UserCode
  /\ status[w] = "open" /\ ~Drawing(w)
  /\ status' = [status EXCEPT ![w] = "closed"]
  /\ tracked' = [tracked EXCEPT ![w] = {}]
  /\ invalidators' = Forgotten(w)
  /\ dirty' = [dirty EXCEPT ![w] = FALSE]
  /\ views' = [views EXCEPT ![w] = {}]
  /\ refreshing' = [refreshing EXCEPT ![w] = FALSE]
  /\ callbacks' = [callbacks EXCEPT ![w] = FALSE]
  /\ wake' = [wake EXCEPT ![w] = FALSE]
  /\ frame' = [frame EXCEPT ![w] = NoFrame]
  /\ stale' = [stale EXCEPT ![w] = {}]
  /\ UNCHANGED <<serving, accessed, draws>>

-----------------------------------------------------------------------------
(* Drawing *)

InDraw == draws # <<>>
Draw == draws[Len(draws)]
Rendered == frame[Draw.win]
Outer == SubSeq(draws, 1, Len(draws) - 1)
Current == Draw.blocks[Len(Draw.blocks)]

Continue(next, blocks) ==
  draws' = Append(Outer, [Draw EXCEPT !.next = next, !.blocks = blocks])
Within(block) == Append(SubSeq(Draw.blocks, 1, Len(Draw.blocks) - 1), block)

(* Mutant of Marked: without the ancestors. *)
MarkedAlone(w) == views[w] \cap Shown(frame[w])

(* mark_view_dirty: a dirty view that the rendered frame shows dirties its *)
(* ancestors.                                                              *)
Marked(w) == UNION {ViewPath(frame[w], e) : e \in views[w] \cap Shown(frame[w])}

(* The start of Window::draw. *)
BeginDraw(w) ==
  /\ draws' = Append(draws, [win |-> w, marked |-> Marked(w),
                             next |-> [NoFrame EXCEPT !.up[Root[w]] = w],
                             blocks |-> <<Block(Root[w], {})>>])
  /\ views' = [views EXCEPT ![w] = {}]
  /\ dirty' = [dirty EXCEPT ![w] = FALSE]
  /\ accessed' = {}

(* open_window: a new window is dirty and wakes the platform, and is drawn *)
(* before open_window returns.                                             *)
Open(w) ==
  /\ UserCode
  /\ status[w] = "unopened"
  /\ InDraw => OpenWhileDrawing
  /\ status' = [status EXCEPT ![w] = "opening"]
  /\ wake' = [wake EXCEPT ![w] = TRUE]
  /\ BeginDraw(w)
  /\ UNCHANGED <<refreshing, callbacks, serving, frame, lookup, stale>>

(* A view renders: it is accessed, may read others, and embeds children.   *)
(* Its plain children render next; cached ones wait for the prepaint.      *)
Render ==
  /\ InDraw /\ Current.plain # <<>>
  /\ LET v == Head(Current.plain)
         free == Entities \ (Shown(Draw.next) \cup {Root[w] : w \in Windows})
     IN /\ \E reads \in SUBSET (IF ReadOthers THEN Entities ELSE {}) :
             accessed' = accessed \cup {v} \cup reads
        /\ \E plain \in SUBSET free :
             \E cached \in SUBSET (free \ plain), order \in SetToSeqs(plain) :
                  Continue([Draw.next EXCEPT !.up = [e \in Entities |->
                              IF e \in plain \cup cached THEN v ELSE @[e]],
                                             !.cached = @ \cup cached],
                           Within([Current EXCEPT !.plain = order \o Tail(@),
                                                  !.cached = @ \cup cached]))
        /\ stale' = [stale EXCEPT ![Draw.win] = @ \ {v}]
  /\ UNCHANGED <<status, dirty, views, refreshing, demand, frame, lookup>>

(* A cached view has its state from the last frame when it was cached at   *)
(* the same place there.                                                   *)
SamePlace(v) ==
  \A x \in ViewPath(Draw.next, v) : Rendered.up[x] = Draw.next.up[x]

Reusable(v) ==
  /\ v \in Rendered.cached /\ SamePlace(v)
  /\ v \notin Draw.marked
  /\ ~refreshing[Draw.win] /\ Len(Draw.blocks) = 1

(* The subtree of a cached view is taken over from the rendered frame. *)
Reuse(v) ==
  /\ InDraw /\ Current.plain = <<>> /\ v \in Current.cached
  /\ Reusable(v)
  /\ LET sub == Subtree(Rendered, v)
     IN /\ (sub \ {v}) \cap Shown(Draw.next) = {}   \* a view is shown once
        /\ Continue([up |-> [e \in Entities |-> IF e \in sub THEN Rendered.up[e]
                                                ELSE Draw.next.up[e]],
                     cached |-> Draw.next.cached \cup (Rendered.cached \cap sub),
                     kept |-> [e \in Entities |-> IF e \in sub THEN Rendered.kept[e]
                                                  ELSE Draw.next.kept[e]]],
                    Within([Current EXCEPT !.cached = @ \ {v}]))
  /\ accessed' = accessed \cup Rendered.kept[v]
  /\ UNCHANGED <<status, dirty, views, refreshing, demand, frame, lookup, stale>>

(* Or it is rendered, because it may not be reused or its bounds or style  *)
(* changed; caches inside it are then ignored.                             *)
Rerender(v) ==
  /\ InDraw /\ Current.plain = <<>> /\ v \in Current.cached
  /\ Continue(Draw.next, Append(Within([Current EXCEPT !.cached = @ \ {v}]),
                                Block(v, accessed)))
  /\ UNCHANGED <<status, dirty, views, refreshing, demand, frame, lookup, accessed, stale>>

(* detect_accessed_entities keeps what was accessed first in the subtree. *)
Rerendered ==
  /\ InDraw /\ Len(Draw.blocks) > 1
  /\ Current.plain = <<>> /\ Current.cached = {}
  /\ Continue([Draw.next EXCEPT !.kept[Current.view] = accessed \ Current.start],
              SubSeq(Draw.blocks, 1, Len(Draw.blocks) - 1))
  /\ UNCHANGED <<status, dirty, views, refreshing, demand, frame, lookup, accessed, stale>>

(* record_entities_accessed *)
Recorded(w) ==
  [e \in Entities |-> IF e \in accessed THEN invalidators[e] \cup {w}
                      ELSE Forgotten(w)[e]]

(* The end of Window::draw.  A focus listener that moved the focus has the *)
(* window drawn again.                                                     *)
EndDraw ==
  /\ InDraw /\ Len(Draw.blocks) = 1
  /\ Current.plain = <<>> /\ Current.cached = {}
  /\ LET w == Draw.win
     IN /\ tracked' = [tracked EXCEPT ![w] = accessed]
        /\ invalidators' = Recorded(w)
        /\ frame' = [frame EXCEPT ![w] = Draw.next]
        /\ stale' = [stale EXCEPT ![w] = @ \cap Shown(Draw.next)]
        /\ status' = [status EXCEPT ![w] = "open"]
        /\ \E moved \in BOOLEAN :
             /\ refreshing' = [refreshing EXCEPT ![w] = moved]
             /\ Dirtied(IF moved THEN {w} ELSE {})
  /\ draws' = Outer
  /\ UNCHANGED <<views, callbacks, serving, accessed>>

-----------------------------------------------------------------------------
(* Frame requests, of a platform that asks for frames only when woken *)

Served(w, stage) == serving = [win |-> w, stage |-> stage]
Serve(w, stage) == serving' = [win |-> w, stage |-> stage]
Idle == serving' = [win |-> None, stage |-> "none"]

RequestFrame(w) ==
  /\ ~InDraw /\ serving.stage = "none"
  /\ status[w] = "open" /\ wake[w]
  /\ wake' = [wake EXCEPT ![w] = FALSE]
  /\ Serve(w, "asked")
  /\ UNCHANGED <<status, dirty, views, refreshing, callbacks, frame, lookup, accessed, draws, stale>>

(* Mutant of Throttle: the platform is not woken for the retry. *)
ThrottleAsleep(w) ==
  /\ Served(w, "asked") /\ callbacks[w]
  /\ Idle
  /\ UNCHANGED <<status, dirty, views, refreshing, callbacks, wake, frame, lookup, accessed, draws, stale>>

(* Frames that callbacks ask for come at a limited rate. *)
Throttle(w) ==
  /\ Served(w, "asked") /\ callbacks[w]
  /\ wake' = [wake EXCEPT ![w] = TRUE]
  /\ Idle
  /\ UNCHANGED <<status, dirty, views, refreshing, callbacks, frame, lookup, accessed, draws, stale>>

(* The callbacks are taken, and run. *)
RunCallbacks(w) ==
  /\ Served(w, "asked")
  /\ callbacks' = [callbacks EXCEPT ![w] = FALSE]
  /\ Serve(w, "ran")
  /\ UNCHANGED <<status, dirty, views, refreshing, wake, frame, lookup, accessed, draws, stale>>

(* A dirty window is drawn, unless a callback closed it. *)
DrawFrame(w) ==
  /\ ~InDraw /\ Served(w, "ran")
  /\ Serve(w, "drawn")
  /\ IF status[w] = "open" /\ dirty[w]
     THEN BeginDraw(w)
     ELSE UNCHANGED <<draws, views, dirty, accessed>>
  /\ UNCHANGED <<status, refreshing, callbacks, wake, frame, lookup, stale>>

EndFrame(w) ==
  /\ ~InDraw /\ Served(w, "drawn")
  /\ wake' = [wake EXCEPT ![w] = @ \/ dirty[w] \/ callbacks[w]]
  /\ Idle
  /\ UNCHANGED <<status, dirty, views, refreshing, callbacks, frame, lookup, accessed, draws, stale>>

DrawStep ==
  \/ Render \/ Rerendered \/ EndDraw
  \/ \E v \in Entities : Reuse(v) \/ Rerender(v)
FrameStep(w) == DrawFrame(w) \/ EndFrame(w)

Next ==
  \/ \E e \in Entities : Notify(e)
  \/ \E w \in Windows : Refresh(w) \/ OnNextFrame(w) \/ Close(w) \/ Open(w)
  \/ DrawStep
  \/ \E w \in Windows : RequestFrame(w) \/ Throttle(w) \/ RunCallbacks(w) \/ FrameStep(w)

(* Draws and the serving of frames run on; the platform answers a wake,    *)
(* whatever it does for other windows; throttling lasts for a time.        *)
Fairness ==
  /\ WF_vars(DrawStep)
  /\ \A w \in Windows : /\ SF_vars(RequestFrame(w))
                        /\ SF_vars(RunCallbacks(w))
                        /\ WF_vars(FrameStep(w))

Spec == Init /\ [][Next]_vars /\ Fairness

-----------------------------------------------------------------------------
(* Properties *)

(* A view on screen that was notified since it rendered is about to be     *)
(* drawn: its window is dirty and knows the view.  This is what App::notify *)
(* promises of the windows that display the entity, and what makes a cache *)
(* that is busted by notify alone sound.                                   *)
NotifiedViewsRedraw ==
  \A w \in Windows : ~Drawing(w) /\ stale[w] # {} => dirty[w] /\ stale[w] \subseteq views[w]

(* The two maps that notify looks in agree: a window is an invalidator of  *)
(* an entity exactly while it tracks it, and a closed one of none.         *)
TrackedBothWays ==
  \A w \in Windows, e \in Entities :
    /\ w \in invalidators[e] <=> e \in tracked[w]
    /\ e \in tracked[w] => status[w] \in {"open", "opening"}

(* No demand for a frame is stranded: a window that is dirty or has        *)
(* callbacks waiting is owed a frame request, or is being served by one.   *)
DemandWakes ==
  \A w \in Windows : dirty[w] \/ callbacks[w] => wake[w] \/ serving.win = w

(* A dirty window is drawn in the end, if it is not closed: user code that *)
(* notifies or schedules callbacks without end cannot keep it from that.   *)
Redrawn == \A w \in Windows : dirty[w] ~> ~dirty[w]
===============================================================================
