--------------------------- MODULE WindowDrawProofs ---------------------------
(***************************************************************************)
(* For any windows and entities, whatever is drawn and nested in other     *)
(* draws or not: the maps that decide whom a notify reaches agree, and no  *)
(* demand for a frame is stranded.  For any views, cached or not, that     *)
(* read only themselves: none on screen stays as it was when notified.     *)
(* The types hold of all of these.                                         *)
(***************************************************************************)
EXTENDS WindowDraw, FiniteSetTheorems, SequenceTheorems, TLAPS

(* The domains of the maps, which is all the argument needs of types. *)
MapsTotal ==
  /\ DOMAIN status = Windows /\ status = [w \in Windows |-> status[w]]
  /\ DOMAIN tracked = Windows /\ tracked = [w \in Windows |-> tracked[w]]
  /\ DOMAIN invalidators = Entities
  /\ invalidators = [e \in Entities |-> invalidators[e]]

IInv == MapsTotal /\ TrackedBothWays

-----------------------------------------------------------------------------
(* The steps that touch a map *)

(* Closing a window removes it from both maps (the trail of update_window_id). *)
LEMMA CloseKeeps ==
  ASSUME IInv, NEW w \in Windows, Close(w)
  PROVE  IInv'
<1>1. MapsTotal'
  BY DEF IInv, MapsTotal, Close, Forgotten
<1>2. ASSUME NEW v \in Windows, NEW e \in Entities
      PROVE  (v \in invalidators[e])' <=> (e \in tracked[v])'
  <2>1. CASE v = w
    BY <2>1 DEF IInv, MapsTotal, TrackedBothWays, Close, Forgotten
  <2>2. CASE v # w
    BY <2>2 DEF IInv, MapsTotal, TrackedBothWays, Close, Forgotten
  <2> QED BY <2>1, <2>2
<1>3. ASSUME NEW v \in Windows, NEW e \in Entities, (e \in tracked[v])'
      PROVE  (status[v] \in {"open", "opening"})'
  BY <1>3 DEF IInv, MapsTotal, TrackedBothWays, Close
<1> QED BY <1>1, <1>2, <1>3 DEF IInv, TrackedBothWays

(* The end of a draw records what was accessed in both maps, and takes the *)
(* window out of the invalidators of what it tracked before                *)
(* (record_entities_accessed).                                             *)
LEMMA EndDrawKeeps ==
  ASSUME IInv, EndDraw
  PROVE  IInv'
<1> DEFINE w == Draw.win
<1>0. /\ tracked' = [tracked EXCEPT ![w] = accessed]
      /\ invalidators' = Recorded(w)
      /\ status' = [status EXCEPT ![w] = "open"]
  BY DEF EndDraw
<1> HIDE DEF w
<1>1. MapsTotal'
  BY <1>0 DEF IInv, MapsTotal, Recorded
<1>2. ASSUME NEW v \in Windows, NEW e \in Entities
      PROVE  (v \in invalidators[e])' <=> (e \in tracked[v])'
  <2>1. CASE v = w
    BY <1>0, <2>1 DEF IInv, MapsTotal, TrackedBothWays, Recorded, Forgotten
  <2>2. CASE v # w
    BY <1>0, <2>2 DEF IInv, MapsTotal, TrackedBothWays, Recorded, Forgotten
  <2> QED BY <2>1, <2>2
<1>3. ASSUME NEW v \in Windows, NEW e \in Entities, (e \in tracked[v])'
      PROVE  (status[v] \in {"open", "opening"})'
  BY <1>0, <1>3 DEF IInv, MapsTotal, TrackedBothWays
<1> QED BY <1>1, <1>2, <1>3 DEF IInv, TrackedBothWays

(* A window that opens tracks nothing yet. *)
LEMMA OpenKeeps ==
  ASSUME IInv, NEW w \in Windows, Open(w)
  PROVE  IInv'
<1>1. UNCHANGED lookup /\ status' = [status EXCEPT ![w] = "opening"]
  BY DEF Open
<1>2. MapsTotal'
  BY <1>1 DEF IInv, MapsTotal, lookup
<1> QED BY <1>1, <1>2 DEF IInv, MapsTotal, TrackedBothWays, lookup

(* No other step touches a map, or whether a window is open. *)
LEMMA OthersKeep ==
  ASSUME IInv, UNCHANGED <<status, lookup>>
  PROVE  IInv'
BY DEF IInv, MapsTotal, TrackedBothWays, lookup

-----------------------------------------------------------------------------
LEMMA InitMaps == Init => IInv
BY DEF Init, IInv, MapsTotal, TrackedBothWays

LEMMA NextKeeps == IInv /\ [Next]_vars => IInv'
<1> SUFFICES ASSUME IInv, [Next]_vars PROVE IInv'
  OBVIOUS
<1>1. ASSUME NEW w \in Windows, Close(w) PROVE IInv'
  BY <1>1, CloseKeeps
<1>2. ASSUME NEW w \in Windows, Open(w) PROVE IInv'
  BY <1>2, OpenKeeps
<1>3. CASE EndDraw
  BY <1>3, EndDrawKeeps
<1>4. CASE Render \/ Rerendered \/ \E v \in Entities : Reuse(v) \/ Rerender(v)
  <2>1. UNCHANGED <<status, lookup>>
    BY <1>4 DEF Render, Rerendered, Reuse, Rerender
  <2> QED BY <2>1, OthersKeep
<1>5. CASE \/ \E e \in Entities : Notify(e)
           \/ \E w \in Windows : Refresh(w) \/ OnNextFrame(w)
  <2>1. UNCHANGED <<status, lookup>>
    BY <1>5 DEF Notify, Refresh, OnNextFrame
  <2> QED BY <2>1, OthersKeep
<1>6. CASE \E w \in Windows : RequestFrame(w) \/ Throttle(w) \/ RunCallbacks(w) \/ FrameStep(w)
  <2>1. UNCHANGED <<status, lookup>>
    BY <1>6 DEF RequestFrame, Throttle, RunCallbacks, FrameStep, DrawFrame, EndFrame
  <2> QED BY <2>1, OthersKeep
<1>7. CASE UNCHANGED vars
  BY <1>7, OthersKeep DEF vars
<1> QED BY <1>1, <1>2, <1>3, <1>4, <1>5, <1>6, <1>7 DEF Next, DrawStep

(* After any draws, nested or not, and any closing of windows: a notify    *)
(* finds a window through the entity exactly while the window tracks it,   *)
(* and never a closed one (App::notify, record_entities_accessed).         *)
THEOREM MapsAgree == Spec => []TrackedBothWays
<1>1. IInv => TrackedBothWays
  BY DEF IInv
<1> QED BY <1>1, InitMaps, NextKeeps, PTL DEF Spec

-----------------------------------------------------------------------------
(* No demand for a frame is stranded *)

FlagsOK ==
  /\ dirty \in [Windows -> BOOLEAN]
  /\ callbacks \in [Windows -> BOOLEAN]
  /\ wake \in [Windows -> BOOLEAN]

(* No window is being served between frame requests, so that a request of  *)
(* one window does not take the place of another's.                        *)
ServedWhole == serving.stage = "none" => serving.win = None

DInv == FlagsOK /\ ServedWhole /\ DemandWakes

(* A window that becomes dirty wakes the platform; one that was dirty      *)
(* already had demanded a frame before (invalidate_view, set_dirty).       *)
LEMMA DirtiedWakes ==
  ASSUME DInv, NEW ws, Dirtied(ws), UNCHANGED <<callbacks, serving>>
  PROVE  DInv'
<1>1. FlagsOK' /\ ServedWhole'
  BY DEF DInv, FlagsOK, ServedWhole, Dirtied
<1>2. ASSUME NEW w \in Windows, dirty'[w] \/ callbacks'[w]
      PROVE  wake'[w] \/ serving'.win = w
  <2>1. wake[w] => wake'[w]
    BY DEF Dirtied
  <2>2. CASE dirty[w] \/ callbacks[w]
    BY <2>1, <2>2 DEF DInv, DemandWakes
  <2>3. CASE ~dirty[w] /\ ~callbacks[w]
    BY <1>2, <2>3 DEF Dirtied
  <2> QED BY <2>2, <2>3
<1> QED BY <1>1, <1>2 DEF DInv, DemandWakes

(* A step that only adds to the wakes and takes demands away. *)
LEMMA WakesMore ==
  ASSUME DInv, FlagsOK', UNCHANGED serving,
         \A w \in Windows : /\ wake[w] => wake'[w]
                            /\ dirty'[w] \/ callbacks'[w] => dirty[w] \/ callbacks[w] \/ wake'[w]
  PROVE  DInv'
BY DEF DInv, ServedWhole, DemandWakes

(* Serving a frame: the wake is used up when the request is served, and    *)
(* renewed when it ends with demands unserved (on_request_frame).          *)
LEMMA ServingKeeps ==
  ASSUME DInv, NEW w \in Windows,
         RequestFrame(w) \/ Throttle(w) \/ RunCallbacks(w) \/ FrameStep(w)
  PROVE  DInv'
<1>1. CASE RequestFrame(w)
  <2>1. FlagsOK' /\ ServedWhole'
    BY <1>1 DEF DInv, FlagsOK, ServedWhole, RequestFrame, Serve
  <2>2. ASSUME NEW v \in Windows, dirty'[v] \/ callbacks'[v]
        PROVE  wake'[v] \/ serving'.win = v
    <3>1. dirty[v] \/ callbacks[v]
      BY <1>1, <2>2 DEF RequestFrame
    <3>2. serving.win # v
      BY <1>1, NoneAssumption DEF DInv, ServedWhole, RequestFrame
    <3>3. wake[v]
      BY <3>1, <3>2 DEF DInv, DemandWakes
    <3> QED BY <1>1, <3>3 DEF RequestFrame, Serve, DInv, FlagsOK
  <2> QED BY <2>1, <2>2 DEF DInv, DemandWakes
<1>2. CASE Throttle(w)
  <2>1. FlagsOK' /\ ServedWhole'
    BY <1>2 DEF DInv, FlagsOK, ServedWhole, Throttle, Idle
  <2>2. ASSUME NEW v \in Windows, dirty'[v] \/ callbacks'[v]
        PROVE  wake'[v] \/ serving'.win = v
    BY <1>2, <2>2 DEF DInv, DemandWakes, FlagsOK, Throttle, Served
  <2> QED BY <2>1, <2>2 DEF DInv, DemandWakes
<1>3. CASE RunCallbacks(w)
  <2>1. FlagsOK' /\ ServedWhole' /\ serving'.win = serving.win
    BY <1>3 DEF DInv, FlagsOK, ServedWhole, RunCallbacks, Served, Serve
  <2>2. \A v \in Windows : dirty'[v] \/ callbacks'[v] => dirty[v] \/ callbacks[v]
    BY <1>3 DEF DInv, FlagsOK, RunCallbacks
  <2> QED BY <1>3, <2>1, <2>2 DEF DInv, DemandWakes, RunCallbacks
<1>4. CASE DrawFrame(w)
  <2>1. FlagsOK' /\ ServedWhole' /\ serving'.win = serving.win
    BY <1>4 DEF DInv, FlagsOK, ServedWhole, DrawFrame, BeginDraw, Served, Serve
  <2>2. \A v \in Windows : dirty'[v] \/ callbacks'[v] => dirty[v] \/ callbacks[v]
    BY <1>4 DEF DInv, FlagsOK, DrawFrame, BeginDraw
  <2> QED BY <1>4, <2>1, <2>2 DEF DInv, DemandWakes, DrawFrame
<1>5. CASE EndFrame(w)
  <2>1. FlagsOK' /\ ServedWhole'
    BY <1>5 DEF DInv, FlagsOK, ServedWhole, EndFrame, Idle
  <2>2. ASSUME NEW v \in Windows, dirty'[v] \/ callbacks'[v]
        PROVE  wake'[v] \/ serving'.win = v
    BY <1>5, <2>2 DEF DInv, DemandWakes, FlagsOK, EndFrame, Served
  <2> QED BY <2>1, <2>2 DEF DInv, DemandWakes
<1> QED BY <1>1, <1>2, <1>3, <1>4, <1>5 DEF FrameStep

LEMMA InitDemand == Init => DInv
BY DEF Init, DInv, FlagsOK, ServedWhole, DemandWakes

LEMMA NextKeepsDemand == DInv /\ [Next]_vars => DInv'
<1> SUFFICES ASSUME DInv, [Next]_vars PROVE DInv'
  OBVIOUS
<1>1. ASSUME NEW e \in Entities, Notify(e) PROVE DInv'
  BY <1>1, DirtiedWakes DEF Notify
<1>2. ASSUME NEW w \in Windows, Refresh(w) PROVE DInv'
  BY <1>2, DirtiedWakes DEF Refresh
<1>3. ASSUME NEW w \in Windows, OnNextFrame(w) PROVE DInv'
  BY <1>3, WakesMore DEF OnNextFrame, DInv, FlagsOK
<1>4. ASSUME NEW w \in Windows, Close(w) PROVE DInv'
  BY <1>4 DEF Close, DInv, FlagsOK, ServedWhole, DemandWakes
<1>5. ASSUME NEW w \in Windows, Open(w) PROVE DInv'
  BY <1>5, WakesMore DEF Open, BeginDraw, DInv, FlagsOK
<1>6. CASE EndDraw
  <2>1. PICK moved \in BOOLEAN : Dirtied(IF moved THEN {Draw.win} ELSE {})
    BY <1>6 DEF EndDraw
  <2> QED BY <1>6, <2>1, DirtiedWakes DEF EndDraw
<1>7. CASE Render \/ Rerendered \/ \E v \in Entities : Reuse(v) \/ Rerender(v)
  <2>1. UNCHANGED <<dirty, demand>>
    BY <1>7 DEF Render, Rerendered, Reuse, Rerender
  <2> QED BY <2>1, WakesMore DEF DInv, FlagsOK, demand
<1>8. CASE \E w \in Windows : RequestFrame(w) \/ Throttle(w) \/ RunCallbacks(w) \/ FrameStep(w)
  BY <1>8, ServingKeeps
<1>9. CASE UNCHANGED vars
  BY <1>9, WakesMore DEF vars, DInv, FlagsOK, demand
<1> QED BY <1>1, <1>2, <1>3, <1>4, <1>5, <1>6, <1>7, <1>8, <1>9 DEF Next, DrawStep

(* A window that is dirty or has callbacks waiting is owed a frame request *)
(* or is being served by one, whatever user code, throttling, draws and    *)
(* closings come in between (WindowInvalidator, on_request_frame).         *)
THEOREM DemandNeverStranded == Spec => []DemandWakes
<1>1. DInv => DemandWakes
  BY DEF DInv
<1> QED BY <1>1, InitDemand, NextKeepsDemand, PTL DEF Spec

-----------------------------------------------------------------------------
(* Views notified since they rendered are drawn again *)

(* Paths *)

LEMMA PathIs ==
  ASSUME NEW f, NEW e \in Entities
  PROVE  /\ ViewPath(f, e) \subseteq Entities /\ e \in ViewPath(f, e)
         /\ HasParents(f, ViewPath(f, e))
         /\ \A S \in SUBSET Entities : e \in S /\ HasParents(f, S) => ViewPath(f, e) \subseteq S
<1>1. ViewPath(f, e) \subseteq Entities /\ e \in ViewPath(f, e)
  BY DEF ViewPath
<1>2. ASSUME NEW x \in ViewPath(f, e), f.up[x] \in Entities  PROVE f.up[x] \in ViewPath(f, e)
  <2>1. ASSUME NEW S \in SUBSET Entities, e \in S, HasParents(f, S)  PROVE f.up[x] \in S
    <3>1. x \in S
      BY <2>1 DEF ViewPath
    <3>. QED  BY <1>2, <2>1, <3>1 DEF HasParents
  <2>. QED  BY <1>2, <2>1 DEF ViewPath
<1>3. ASSUME NEW S \in SUBSET Entities, e \in S, HasParents(f, S)  PROVE ViewPath(f, e) \subseteq S
  BY <1>3 DEF ViewPath
<1>. QED  BY <1>1, <1>2, <1>3 DEF HasParents

(* The path of a view is the view and the path of its parent. *)
LEMMA PathStep ==
  ASSUME NEW f, NEW e \in Entities, f.up[e] \in Entities
  PROVE  ViewPath(f, e) = {e} \cup ViewPath(f, f.up[e])
<1>. DEFINE p == f.up[e]
            S == {e} \cup ViewPath(f, p)
<1>1. /\ ViewPath(f, p) \subseteq Entities /\ p \in ViewPath(f, p) /\ HasParents(f, ViewPath(f, p))
      /\ \A T \in SUBSET Entities : p \in T /\ HasParents(f, T) => ViewPath(f, p) \subseteq T
  BY PathIs
<1>2. /\ ViewPath(f, e) \subseteq Entities /\ e \in ViewPath(f, e) /\ HasParents(f, ViewPath(f, e))
      /\ \A T \in SUBSET Entities : e \in T /\ HasParents(f, T) => ViewPath(f, e) \subseteq T
  BY PathIs
<1>3. HasParents(f, S) /\ S \in SUBSET Entities /\ e \in S
  BY <1>1 DEF HasParents
<1>4. ViewPath(f, e) \subseteq S
  BY <1>2, <1>3
<1>5. p \in ViewPath(f, e)
  BY <1>2 DEF HasParents
<1>6. ViewPath(f, p) \subseteq ViewPath(f, e)
  BY <1>1, <1>2, <1>5
<1>. QED  BY <1>2, <1>4, <1>6

(* Two frames that agree on views and all their ancestors. *)
SameParents(f, g, S) == \A x \in S : g.up[x] = f.up[x]

LEMMA PathsAgree ==
  ASSUME NEW f, NEW g, NEW S \in SUBSET Entities, HasParents(f, S), SameParents(f, g, S)
  PROVE  \A e \in S : ViewPath(g, e) = ViewPath(f, e) /\ ViewPath(f, e) \subseteq S
<1>. SUFFICES ASSUME NEW e \in S
              PROVE  ViewPath(g, e) = ViewPath(f, e) /\ ViewPath(f, e) \subseteq S
  OBVIOUS
<1>. DEFINE F == ViewPath(f, e)
            G == ViewPath(g, e)
<1>0. \A x \in S : g.up[x] = f.up[x]
  BY DEF SameParents
<1>. USE <1>0
<1>1. /\ F \subseteq Entities /\ e \in F /\ HasParents(f, F)
      /\ \A T \in SUBSET Entities : e \in T /\ HasParents(f, T) => F \subseteq T
  BY PathIs
<1>2. /\ G \subseteq Entities /\ e \in G /\ HasParents(g, G)
      /\ \A T \in SUBSET Entities : e \in T /\ HasParents(g, T) => G \subseteq T
  BY PathIs
<1>3. F \subseteq S
  BY <1>1
<1>4. HasParents(g, F)
  BY <1>1, <1>3 DEF HasParents
<1>5. G \subseteq F
  BY <1>1, <1>2, <1>4
<1>6. HasParents(f, G)
  BY <1>2, <1>3, <1>5 DEF HasParents
<1>. QED  BY <1>1, <1>2, <1>3, <1>5, <1>6

LEMMA PathOfRoot ==
  ASSUME NEW f, NEW e \in Entities, f.up[e] \notin Entities
  PROVE  ViewPath(f, e) = {e}
<1>1. HasParents(f, {e})
  BY DEF HasParents
<1>. QED  BY <1>1, PathIs

LEMMA PathOfAncestor ==
  ASSUME NEW f, NEW e \in Entities, NEW u \in ViewPath(f, e)
  PROVE  u \in Entities /\ ViewPath(f, u) \subseteq ViewPath(f, e)
<1>1. /\ ViewPath(f, e) \in SUBSET Entities /\ HasParents(f, ViewPath(f, e))
  BY PathIs
<1>. QED  BY <1>1, PathIs

LEMMA LeafPath ==
  ASSUME NEW f, NEW p \in Entities, \A x \in Entities : f.up[x] # p
  PROVE  \A x \in Entities : p \in ViewPath(f, x) <=> x = p
<1>. SUFFICES ASSUME NEW x \in Entities, x # p  PROVE p \notin ViewPath(f, x)
  BY PathIs
<1>1. HasParents(f, Entities \ {p})
  BY DEF HasParents
<1>. QED  BY <1>1, PathIs

(* Frames in which the parents of views are views or the window, and what  *)
(* is cached is shown; a cached view has kept its subtree.                 *)
Tree(f) ==
  /\ \A e \in Shown(f) : f.up[e] \in Shown(f) \cup Windows
  /\ f.cached \subseteq Shown(f)

Whole(f, v) == f.kept[v] = Subtree(f, v)

LEMMA ShownHasParents ==
  ASSUME NEW f, Tree(f)
  PROVE  HasParents(f, Shown(f)) /\ Shown(f) \in SUBSET Entities
BY KindsAssumption DEF HasParents, Shown, Tree

(* What is shown stays in its subtrees when more is shown. *)
LEMMA SubtreesStay ==
  ASSUME NEW f, NEW g, Tree(f), \A x \in Shown(f) : g.up[x] = f.up[x]
  PROVE  /\ \A x \in Shown(f) : ViewPath(g, x) = ViewPath(f, x) /\ ViewPath(f, x) \subseteq Shown(f)
         /\ \A u : Subtree(f, u) = Subtree(g, u) \cap Shown(f)
<1>. DEFINE S == Shown(f)
<1>0. HasParents(f, S) /\ S \in SUBSET Entities
  BY ShownHasParents
<1>1. \A x \in S : ViewPath(g, x) = ViewPath(f, x) /\ ViewPath(f, x) \subseteq S
  <2>. HIDE DEF S
  <2>1. SameParents(f, g, S)
    BY DEF S, SameParents
  <2>. QED  BY <1>0, <2>1, PathsAgree
<1>2. Shown(f) \subseteq Shown(g)
  BY DEF Shown
<1>. QED  BY <1>1, <1>2 DEF Subtree

-----------------------------------------------------------------------------
(* A draw in progress *)

Pend(b) == {b.plain[i] : i \in DOMAIN b.plain} \cup b.cached
Waiting(bs) == {p \in Entities : \E i \in DOMAIN bs : p \in Pend(bs[i])}

(* What is accessed is what is shown and does not wait to be rendered. *)
Known(f, bs, acc) == Waiting(bs) \subseteq Shown(f) /\ acc = Shown(f) \ Waiting(bs)

Leaves(f, bs) == \A p \in Waiting(bs), x \in Entities : f.up[x] # p

Once(b) ==
  /\ \A i, j \in DOMAIN b.plain : b.plain[i] = b.plain[j] => i = j
  /\ \A i \in DOMAIN b.plain : b.plain[i] \notin b.cached

(* Blocks are of views each below the one before; what waits in a block is *)
(* in the subtree of its view, and in that of no later block.              *)
Nested(f, bs) ==
  \A i, j \in DOMAIN bs :
    /\ i <= j => Pend(bs[j]) \subseteq Subtree(f, bs[i].view)
    /\ j < i => Pend(bs[j]) \cap Subtree(f, bs[i].view) = {}

(* What was accessed since a block began is of the subtree of its view. *)
Since(f, bs, acc) ==
  \A i \in DOMAIN bs :
    /\ bs[i].start \subseteq acc /\ bs[i].start \cap Subtree(f, bs[i].view) = {}
    /\ acc \ bs[i].start \subseteq Subtree(f, bs[i].view)

Settled(f, bs, v) == Whole(f, v) /\ Subtree(f, v) \cap Waiting(bs) = {}

(* A cached view waits, or is the view of a block, or has all its subtree. *)
Finished(f, bs) ==
  \A v \in f.cached :
    \/ Settled(f, bs, v)
    \/ \E i \in DOMAIN bs : v \in bs[i].cached \/ (i > 1 /\ v = bs[i].view)

Sound(f, bs, acc) ==
  /\ Tree(f) /\ Known(f, bs, acc) /\ Leaves(f, bs)
  /\ \A i \in DOMAIN bs : Once(bs[i])
  /\ Nested(f, bs) /\ Since(f, bs, acc) /\ Finished(f, bs)

LEMMA PendIs ==
  ASSUME NEW b \in Blocks
  PROVE  Pend(b) \subseteq Entities
BY DEF Pend, Blocks

LEMMA WaitingIs ==
  ASSUME NEW bs \in Seq(Blocks)
  PROVE  \A p : p \in Waiting(bs) <=> \E i \in DOMAIN bs : p \in Pend(bs[i])
<1>1. \A i \in DOMAIN bs : bs[i] \in Blocks
  OBVIOUS
<1>. QED  BY <1>1, PendIs DEF Waiting

(* Views that wait are in no other subtree of views that wait. *)
LEMMA WaitingAlone ==
  ASSUME NEW f, NEW bs \in Seq(Blocks), NEW acc, Sound(f, bs, acc), NEW p \in Waiting(bs)
  PROVE  Subtree(f, p) = {p}
<1>1. \A x \in Entities : p \in ViewPath(f, x) <=> x = p
  BY LeafPath DEF Sound, Leaves, Waiting
<1>2. p \in Shown(f) /\ Shown(f) \subseteq Entities
  BY DEF Sound, Known, Shown
<1>. QED  BY <1>1, <1>2 DEF Subtree

(* A view in hand stops waiting, and gets a tree of new views below it, of *)
(* which some wait.                                                        *)
LEMMA Grown ==
  ASSUME NEW f, NEW bs \in Seq(Blocks), NEW acc, Sound(f, bs, acc), bs # <<>>,
         NEW g, NEW cs \in Seq(Blocks), NEW n, n = Len(bs),
         NEW v \in Pend(bs[n]), NEW N \in SUBSET Entities, NEW M \in SUBSET N,
         Tree(g), Shown(g) = Shown(f) \cup N, N \cap Shown(f) = {},
         \A x \in Shown(f) : g.up[x] = f.up[x],
         \A x \in N, u \in Shown(f) : u \in ViewPath(g, x) <=> u \in ViewPath(f, v),
         \A x \in N : g.up[x] \notin M /\ (g.up[x] = v \/ g.up[x] \notin Waiting(bs)),
         Len(cs) = n, \A i \in 1..n - 1 : cs[i] = bs[i],
         cs[n].view = bs[n].view, cs[n].start = bs[n].start, Once(cs[n]),
         Pend(cs[n]) = (Pend(bs[n]) \ {v}) \cup M, bs[n].cached \ {v} \subseteq cs[n].cached,
         \A u \in g.cached :
           \/ /\ u \in f.cached /\ g.kept[u] = f.kept[u]
              /\ u # v \/ v \notin bs[n].cached
           \/ u \in cs[n].cached
           \/ Whole(g, u) /\ Subtree(g, u) \cap ((Waiting(bs) \ {v}) \cup M) = {}
  PROVE  Sound(g, cs, acc \cup {v} \cup (N \ M))
<1>. DEFINE acc2 == acc \cup {v} \cup (N \ M)
<1>1. /\ DOMAIN bs = 1..n /\ DOMAIN cs = 1..n /\ n \in Nat \ {0} /\ n \in DOMAIN bs
      /\ \A i \in DOMAIN bs : i = n \/ i \in 1..n - 1
      /\ \A i, j \in DOMAIN bs : i <= j \/ j < i
      /\ \A i \in DOMAIN bs : i <= n /\ (i # n => i < n)
  OBVIOUS
<1>2. /\ \A p : p \in Waiting(bs) <=> \E i \in DOMAIN bs : p \in Pend(bs[i])
      /\ \A p : p \in Waiting(cs) <=> \E i \in DOMAIN cs : p \in Pend(cs[i])
  BY WaitingIs
<1>3. /\ Tree(f) /\ Known(f, bs, acc) /\ Leaves(f, bs) /\ \A i \in DOMAIN bs : Once(bs[i])
      /\ Nested(f, bs) /\ Since(f, bs, acc) /\ Finished(f, bs)
  BY DEF Sound
<1>. /\ Shown(f) \subseteq Entities /\ v \in Waiting(bs) /\ v \in Shown(f)
  BY <1>1, <1>2, <1>3 DEF Known, Shown
<1>4. \A i \in DOMAIN bs : cs[i].view = bs[i].view /\ cs[i].start = bs[i].start /\ Once(cs[i])
  BY <1>1, <1>3
<1>5. /\ \A i \in DOMAIN bs : i # n => Pend(cs[i]) = Pend(bs[i]) /\ v \notin Pend(bs[i])
      /\ Pend(cs[n]) = (Pend(bs[n]) \ {v}) \cup M
  <2>1. ASSUME NEW i \in DOMAIN bs, i # n  PROVE cs[i] = bs[i] /\ v \notin Pend(bs[i])
    <3>1. Pend(bs[i]) \cap Subtree(f, bs[n].view) = {} /\ Pend(bs[n]) \subseteq Subtree(f, bs[n].view)
      BY <1>1, <1>3, <2>1 DEF Nested
    <3>. QED  BY <1>1, <2>1, <3>1
  <2>. QED  BY <2>1
<1>6. Waiting(cs) = (Waiting(bs) \ {v}) \cup M
  <2>1. ASSUME NEW p  PROVE p \in Waiting(cs) <=> p \in (Waiting(bs) \ {v}) \cup M
    <3>1. v \notin M
      OBVIOUS
    <3>. QED  BY <1>1, <1>2, <1>5, <3>1
  <2>. QED  BY <2>1
<1>7. \A u \in Shown(f) : Subtree(g, u) = Subtree(f, u) \cup (IF v \in Subtree(f, u) THEN N ELSE {})
  <2>1. \A x \in Shown(f) : ViewPath(g, x) = ViewPath(f, x)
    BY <1>3, SubtreesStay
  <2>2. ASSUME NEW u \in Shown(f), NEW x
        PROVE  x \in Subtree(g, u) <=> x \in Subtree(f, u) \/ (x \in N /\ v \in Subtree(f, u))
    <3>1. CASE x \in Shown(f)
      BY <2>1, <3>1 DEF Subtree
    <3>2. CASE x \in N
      BY <3>2 DEF Subtree
    <3>. QED  BY <3>1, <3>2 DEF Subtree
  <2>. QED  BY <2>2
<1>8. \A i \in DOMAIN bs : /\ bs[i].view \in Shown(f)
                           /\ v \in Subtree(f, bs[i].view)
                           /\ Subtree(g, bs[i].view) = Subtree(f, bs[i].view) \cup N
  <2>1. ASSUME NEW i \in DOMAIN bs  PROVE bs[i].view \in Shown(f) /\ v \in Subtree(f, bs[i].view)
    <3>1. v \in Subtree(f, bs[i].view)
      BY <1>1, <1>3 DEF Nested
    <3>2. bs[i].view \in ViewPath(f, v)
      BY <3>1 DEF Subtree
    <3>3. ViewPath(f, v) \subseteq Shown(f)
      BY <1>3, SubtreesStay
    <3>. QED  BY <3>1, <3>2, <3>3
  <2>. QED  BY <1>7, <2>1
<1>9. \A u : Subtree(f, u) \subseteq Shown(f)
  BY DEF Subtree
<1>10. Known(g, cs, acc2)
  BY <1>3, <1>6 DEF Known
<1>11. Leaves(g, cs)
  <2>1. ASSUME NEW p \in Waiting(cs), NEW x \in Entities, g.up[x] = p  PROVE FALSE
    <3>1. p \in Shown(g) /\ (p \in M \/ (p \in Waiting(bs) /\ p # v))
      BY <1>3, <1>6 DEF Known
    <3>2. CASE x \in N
      BY <2>1, <3>1, <3>2
    <3>3. CASE x \in Shown(f)
      <4>1. f.up[x] = p
        BY <2>1, <3>3
      <4>2. p \in Shown(f)
        BY <1>3, <3>1, <3>3, <4>1, KindsAssumption DEF Tree
      <4>. QED  BY <1>3, <3>1, <4>1, <4>2 DEF Leaves
    <3>4. CASE x \notin Shown(g)
      BY <2>1, <3>4, NoneAssumption DEF Shown, Waiting
    <3>. QED  BY <3>2, <3>3, <3>4
  <2>. QED  BY <2>1 DEF Leaves
<1>12. Nested(g, cs)
  <2>1. ASSUME NEW i \in DOMAIN bs, NEW j \in DOMAIN bs, i <= j
        PROVE  Pend(cs[j]) \subseteq Subtree(g, bs[i].view)
    <3>1. Pend(bs[j]) \subseteq Subtree(f, bs[i].view)
      BY <1>3, <2>1 DEF Nested
    <3>2. Pend(cs[j]) \subseteq Pend(bs[j]) \cup N
      BY <1>5
    <3>3. Subtree(g, bs[i].view) = Subtree(f, bs[i].view) \cup N
      BY <1>8
    <3>. QED  BY <3>1, <3>2, <3>3
  <2>2. ASSUME NEW i \in DOMAIN bs, NEW j \in DOMAIN bs, j < i
        PROVE  Pend(cs[j]) \cap Subtree(g, bs[i].view) = {}
    <3>1. Pend(bs[j]) \cap Subtree(f, bs[i].view) = {}
      BY <1>3, <2>2 DEF Nested
    <3>2. j # n
      BY <1>1, <2>2
    <3>3. Pend(bs[j]) \subseteq Shown(f)
      BY <1>2, <1>3 DEF Known
    <3>. QED  BY <1>5, <1>8, <3>1, <3>2, <3>3
  <2>. QED  BY <1>1, <1>4, <2>1, <2>2 DEF Nested
<1>13. Since(g, cs, acc2)
  <2>1. ASSUME NEW i \in DOMAIN bs
        PROVE  /\ bs[i].start \subseteq acc2 /\ bs[i].start \cap Subtree(g, bs[i].view) = {}
               /\ acc2 \ bs[i].start \subseteq Subtree(g, bs[i].view)
    <3>1. /\ bs[i].start \subseteq acc /\ bs[i].start \cap Subtree(f, bs[i].view) = {}
          /\ acc \ bs[i].start \subseteq Subtree(f, bs[i].view)
      BY <1>3 DEF Since
    <3>2. bs[i].start \subseteq Shown(f)
      BY <1>3, <3>1 DEF Known
    <3>. QED  BY <1>8, <3>1, <3>2
  <2>. QED  BY <1>1, <1>4, <2>1 DEF Since
<1>14. Finished(g, cs)
  <2>1. ASSUME NEW u \in g.cached, u \in f.cached, g.kept[u] = f.kept[u],
               u # v \/ v \notin bs[n].cached
        PROVE  Settled(g, cs, u) \/ \E i \in DOMAIN cs : u \in cs[i].cached \/ (i > 1 /\ u = cs[i].view)
    <3>1. u \in Shown(f)
      BY <1>3, <2>1 DEF Tree
    <3>2. CASE Settled(f, bs, u)
      <4>1. v \notin Subtree(f, u) /\ Subtree(f, u) \cap Waiting(bs) = {} /\ f.kept[u] = Subtree(f, u)
        BY <3>2 DEF Settled, Whole
      <4>2. Subtree(g, u) = Subtree(f, u)
        <5>1. Subtree(g, u) = Subtree(f, u) \cup (IF v \in Subtree(f, u) THEN N ELSE {})
          BY <1>7, <3>1
        <5>. QED  BY <4>1, <5>1
      <4>. QED  BY <1>6, <1>9, <2>1, <4>1, <4>2 DEF Settled, Whole
    <3>3. ASSUME NEW i \in DOMAIN bs, u \in bs[i].cached  PROVE u \in cs[i].cached
      <4>1. CASE i = n
        BY <2>1, <3>3, <4>1
      <4>2. CASE i # n
        BY <1>1, <3>3, <4>2
      <4>. QED  BY <4>1, <4>2
    <3>. QED  BY <1>1, <1>3, <1>4, <2>1, <3>2, <3>3 DEF Finished
  <2>. QED  BY <1>1, <1>6, <2>1 DEF Finished, Settled
<1>. QED  BY <1>1, <1>4, <1>10, <1>11, <1>12, <1>13, <1>14 DEF Sound

(* Blocks get one more, of a view that waited cached in the last. *)
Opens(bs, cs, v, acc) ==
  LET n == Len(bs) IN
    /\ bs # <<>> /\ v \in bs[n].cached /\ Len(cs) = n + 1
    /\ \A i \in 1..n - 1 : cs[i] = bs[i]
    /\ cs[n].view = bs[n].view /\ cs[n].start = bs[n].start
    /\ cs[n].plain = bs[n].plain /\ cs[n].cached = bs[n].cached \ {v}
    /\ cs[n + 1] = Block(v, acc)

(* A cached view that is rendered begins a block. *)
LEMMA Deeper ==
  ASSUME NEW f, NEW bs \in Seq(Blocks), NEW acc, Sound(f, bs, acc),
         NEW cs \in Seq(Blocks), NEW v, Opens(bs, cs, v, acc)
  PROVE  Sound(f, cs, acc) /\ Waiting(cs) = Waiting(bs)
<1>. DEFINE n == Len(bs)
<1>0. /\ n = Len(bs) /\ bs # <<>> /\ v \in bs[n].cached /\ Len(cs) = n + 1
      /\ \A i \in 1..n - 1 : cs[i] = bs[i]
      /\ cs[n].view = bs[n].view /\ cs[n].start = bs[n].start
      /\ cs[n].plain = bs[n].plain /\ cs[n].cached = bs[n].cached \ {v}
      /\ cs[n + 1] = Block(v, acc)
  BY DEF Opens
<1>. HIDE DEF n
<1>. USE <1>0
<1>1. /\ DOMAIN bs = 1..n /\ DOMAIN cs = 1..n + 1 /\ n \in Nat \ {0} /\ n \in DOMAIN bs
      /\ \A i \in DOMAIN bs : i \in DOMAIN cs /\ i <= n /\ i # n + 1
                           /\ (i = n \/ (i \in 1..n - 1 /\ i < n))
      /\ \A i \in DOMAIN cs : i \in DOMAIN bs \/ i = n + 1
      /\ n + 1 \in DOMAIN cs /\ n + 1 > 1
  OBVIOUS
<1>2. /\ \A p : p \in Waiting(bs) <=> \E i \in DOMAIN bs : p \in Pend(bs[i])
      /\ \A p : p \in Waiting(cs) <=> \E i \in DOMAIN cs : p \in Pend(cs[i])
  BY WaitingIs
<1>3. /\ Tree(f) /\ Known(f, bs, acc) /\ Leaves(f, bs) /\ \A i \in DOMAIN bs : Once(bs[i])
      /\ Nested(f, bs) /\ Since(f, bs, acc) /\ Finished(f, bs)
  BY DEF Sound
<1>4. bs[n] \in Blocks /\ v \in Pend(bs[n]) /\ v \in Waiting(bs)
  <2>1. bs[n] \in Blocks /\ v \in Pend(bs[n])
    BY <1>1 DEF Pend
  <2>. QED  BY <1>1, <1>2, <2>1
<1>5. /\ \A i \in DOMAIN bs : cs[i].view = bs[i].view /\ cs[i].start = bs[i].start
      /\ \A i \in DOMAIN bs : Once(cs[i])
  <2>1. Once(bs[n])
    BY <1>1, <1>3
  <2>2. Once(cs[n])
    BY <2>1 DEF Once
  <2>. QED  BY <1>1, <1>3, <2>2
<1>6. /\ cs[n + 1].view = v /\ cs[n + 1].start = acc /\ cs[n + 1].cached = {}
      /\ Pend(cs[n + 1]) = {v} /\ Once(cs[n + 1])
  BY DEF Block, Pend, Once
<1>7. \A i \in DOMAIN bs : Pend(cs[i]) = Pend(bs[i]) \ {v}
  <2>1. CASE Pend(cs[n]) = Pend(bs[n]) \ {v}
    <3>1. ASSUME NEW i \in DOMAIN bs, i # n  PROVE cs[i] = bs[i] /\ v \notin Pend(bs[i])
      <4>1. Pend(bs[i]) \cap Subtree(f, bs[n].view) = {} /\ Pend(bs[n]) \subseteq Subtree(f, bs[n].view)
        BY <1>1, <1>3, <3>1 DEF Nested
      <4>. QED  BY <1>1, <1>4, <3>1, <4>1
    <3>. QED  BY <2>1, <3>1
  <2>2. Pend(cs[n]) = Pend(bs[n]) \ {v}
    <3>1. Once(bs[n])
      BY <1>1, <1>3
    <3>. QED  BY <3>1 DEF Once, Pend
  <2>. QED  BY <2>1, <2>2
<1>8. Waiting(cs) = Waiting(bs)
  <2>1. ASSUME NEW p \in Waiting(cs)  PROVE p \in Waiting(bs)
    <3>1. PICK i \in DOMAIN cs : p \in Pend(cs[i])
      BY <1>2
    <3>2. CASE i \in DOMAIN bs
      BY <1>2, <1>7, <3>1, <3>2
    <3>3. CASE i = n + 1
      BY <1>4, <1>6, <3>1, <3>3
    <3>. QED  BY <1>1, <3>2, <3>3
  <2>2. ASSUME NEW p \in Waiting(bs)  PROVE p \in Waiting(cs)
    <3>1. CASE p = v
      <4>1. v \in Pend(cs[n + 1]) /\ n + 1 \in DOMAIN cs
        BY <1>1, <1>6
      <4>. QED  BY <1>2, <3>1, <4>1
    <3>2. CASE p # v
      <4>1. PICK i \in DOMAIN bs : p \in Pend(bs[i])
        BY <1>2
      <4>2. p \in Pend(cs[i]) /\ i \in DOMAIN cs
        BY <1>1, <1>7, <3>2, <4>1
      <4>. QED  BY <1>2, <4>2
    <3>. QED  BY <3>1, <3>2
  <2>. QED  BY <2>1, <2>2
<1>9. Subtree(f, v) = {v} /\ v \notin acc
  BY <1>3, <1>4, WaitingAlone DEF Known
<1>10. Known(f, cs, acc) /\ Leaves(f, cs)
  BY <1>3, <1>8 DEF Known, Leaves
<1>11. Nested(f, cs)
  <2>1. \A i \in DOMAIN bs : v \in Subtree(f, bs[i].view)
    BY <1>1, <1>3, <1>4 DEF Nested
  <2>2. ASSUME NEW i \in DOMAIN cs, NEW j \in DOMAIN cs, i <= j
        PROVE  Pend(cs[j]) \subseteq Subtree(f, cs[i].view)
    <3>1. CASE i = n + 1
      <4>1. j = n + 1
        BY <1>1, <2>2, <3>1
      <4>. QED  BY <1>6, <1>9, <3>1, <4>1
    <3>2. CASE i \in DOMAIN bs /\ j = n + 1
      BY <1>5, <1>6, <2>1, <3>2
    <3>3. CASE i \in DOMAIN bs /\ j \in DOMAIN bs
      <4>1. Pend(bs[j]) \subseteq Subtree(f, bs[i].view)
        BY <1>3, <2>2, <3>3 DEF Nested
      <4>. QED  BY <1>5, <1>7, <3>3, <4>1
    <3>. QED  BY <1>1, <3>1, <3>2, <3>3
  <2>3. ASSUME NEW i \in DOMAIN cs, NEW j \in DOMAIN cs, j < i
        PROVE  Pend(cs[j]) \cap Subtree(f, cs[i].view) = {}
    <3>0. j \in DOMAIN bs
      BY <1>1, <2>3
    <3>1. CASE i = n + 1
      BY <1>6, <1>7, <1>9, <3>0, <3>1
    <3>2. CASE i \in DOMAIN bs
      <4>1. Pend(bs[j]) \cap Subtree(f, bs[i].view) = {}
        BY <1>3, <2>3, <3>0, <3>2 DEF Nested
      <4>. QED  BY <1>5, <1>7, <3>0, <3>2, <4>1
    <3>. QED  BY <1>1, <3>1, <3>2
  <2>. QED  BY <2>2, <2>3 DEF Nested
<1>12. Since(f, cs, acc)
  <2>1. ASSUME NEW i \in DOMAIN bs
        PROVE  /\ cs[i].start \subseteq acc /\ cs[i].start \cap Subtree(f, cs[i].view) = {}
               /\ acc \ cs[i].start \subseteq Subtree(f, cs[i].view)
    BY <1>3, <1>5 DEF Since
  <2>2. /\ cs[n + 1].start \subseteq acc /\ cs[n + 1].start \cap Subtree(f, cs[n + 1].view) = {}
        /\ acc \ cs[n + 1].start \subseteq Subtree(f, cs[n + 1].view)
    BY <1>6, <1>9
  <2>. QED  BY <1>1, <2>1, <2>2 DEF Since
<1>13. Finished(f, cs)
  <2>1. ASSUME NEW u \in f.cached
        PROVE  Settled(f, cs, u) \/ \E i \in DOMAIN cs : u \in cs[i].cached \/ (i > 1 /\ u = cs[i].view)
    <3>1. CASE Settled(f, bs, u)
      BY <1>8, <3>1 DEF Settled
    <3>2. CASE u = v
      BY <1>1, <1>6, <3>2
    <3>3. ASSUME NEW i \in DOMAIN bs, u \in bs[i].cached, u # v  PROVE u \in cs[i].cached
      <4>1. CASE i = n
        BY <3>3, <4>1
      <4>2. CASE i # n
        BY <1>1, <3>3, <4>2
      <4>. QED  BY <4>1, <4>2
    <3>. QED  BY <1>1, <1>3, <1>5, <3>1, <3>2, <3>3 DEF Finished
  <2>. QED  BY <2>1 DEF Finished
<1>14. \A i \in DOMAIN cs : Once(cs[i])
  BY <1>1, <1>5, <1>6
<1>. QED  BY <1>3, <1>8, <1>10, <1>11, <1>12, <1>13, <1>14 DEF Sound

(* The last block has nothing to render and goes, and its view is given *)
(* what was accessed since it began.                                    *)
Shuts(f, g, bs, cs, acc) ==
  LET n == Len(bs) IN
    /\ n > 1 /\ Pend(bs[n]) = {} /\ Len(cs) = n - 1
    /\ \A i \in 1..n - 1 : cs[i] = bs[i]
    /\ g.up = f.up /\ g.cached = f.cached
    /\ g.kept[bs[n].view] = acc \ bs[n].start
    /\ \A u \in Entities : u # bs[n].view => g.kept[u] = f.kept[u]

(* A block whose views are rendered ends: its view has its subtree. *)
LEMMA Shallower ==
  ASSUME NEW f, NEW bs \in Seq(Blocks), NEW acc, Sound(f, bs, acc),
         NEW g, NEW cs \in Seq(Blocks), Shuts(f, g, bs, cs, acc)
  PROVE  Sound(g, cs, acc) /\ Waiting(cs) = Waiting(bs)
<1>. DEFINE n == Len(bs)
<1>0. /\ n = Len(bs) /\ n > 1 /\ Pend(bs[n]) = {} /\ Len(cs) = n - 1
      /\ \A i \in 1..n - 1 : cs[i] = bs[i]
      /\ g.up = f.up /\ g.cached = f.cached
      /\ g.kept[bs[n].view] = acc \ bs[n].start
      /\ \A u \in Entities : u # bs[n].view => g.kept[u] = f.kept[u]
  BY DEF Shuts
<1>. HIDE DEF n
<1>. USE <1>0
<1>1. /\ DOMAIN bs = 1..n /\ DOMAIN cs = 1..n - 1 /\ n \in DOMAIN bs
      /\ \A i \in DOMAIN bs : i = n \/ i \in DOMAIN cs
      /\ \A i \in DOMAIN cs : i \in DOMAIN bs /\ i < n /\ cs[i] = bs[i]
  OBVIOUS
<1>2. /\ \A p : p \in Waiting(bs) <=> \E i \in DOMAIN bs : p \in Pend(bs[i])
      /\ \A p : p \in Waiting(cs) <=> \E i \in DOMAIN cs : p \in Pend(cs[i])
  BY WaitingIs
<1>3. /\ Tree(f) /\ Known(f, bs, acc) /\ Leaves(f, bs) /\ \A i \in DOMAIN bs : Once(bs[i])
      /\ Nested(f, bs) /\ Since(f, bs, acc) /\ Finished(f, bs)
  BY DEF Sound
<1>4. Waiting(cs) = Waiting(bs)
  <2>1. ASSUME NEW p  PROVE p \in Waiting(cs) <=> p \in Waiting(bs)
    <3>1. (\E i \in DOMAIN bs : p \in Pend(bs[i])) <=> \E i \in DOMAIN cs : p \in Pend(cs[i])
      BY <1>1
    <3>. QED  BY <1>2, <3>1
  <2>. QED  BY <2>1
<1>5. Shown(g) = Shown(f) /\ \A u : Subtree(g, u) = Subtree(f, u)
  BY DEF Shown, Subtree, ViewPath, HasParents
<1>6. Tree(g) /\ Known(g, cs, acc) /\ Leaves(g, cs)
  BY <1>3, <1>4, <1>5 DEF Tree, Known, Leaves
<1>7. Nested(g, cs)
  <2>1. ASSUME NEW i \in DOMAIN cs, NEW j \in DOMAIN cs
        PROVE  /\ i <= j => Pend(cs[j]) \subseteq Subtree(g, cs[i].view)
               /\ j < i => Pend(cs[j]) \cap Subtree(g, cs[i].view) = {}
    <3>1. i \in DOMAIN bs /\ j \in DOMAIN bs /\ cs[i] = bs[i] /\ cs[j] = bs[j]
      BY <1>1
    <3>2. Subtree(g, bs[i].view) = Subtree(f, bs[i].view)
      BY <1>5
    <3>. QED  BY <1>3, <3>1, <3>2 DEF Nested
  <2>. QED  BY <2>1 DEF Nested
<1>8. Since(g, cs, acc)
  BY <1>1, <1>3, <1>5 DEF Since
<1>9. Finished(g, cs)
  <2>1. ASSUME NEW u \in g.cached
        PROVE  Settled(g, cs, u) \/ \E i \in DOMAIN cs : u \in cs[i].cached \/ (i > 1 /\ u = cs[i].view)
    <3>0. u \in Entities
      BY <1>3, <2>1 DEF Tree, Shown
    <3>1. CASE u = bs[n].view
      <4>1. \A i \in DOMAIN bs : Pend(bs[i]) \cap Subtree(f, u) = {}
        BY <1>1, <1>3, <3>1 DEF Nested
      <4>2. Subtree(f, u) \cap Waiting(bs) = {}
        BY <1>2, <4>1
      <4>3. Subtree(f, u) \subseteq Shown(f)
        BY DEF Subtree
      <4>4. Subtree(f, u) = acc \ bs[n].start
        BY <1>1, <1>3, <3>1, <4>2, <4>3 DEF Known, Since
      <4>. QED  BY <1>4, <1>5, <3>0, <3>1, <4>2, <4>4 DEF Settled, Whole
    <3>2. CASE u # bs[n].view
      <4>1. g.kept[u] = f.kept[u]
        BY <3>0, <3>2
      <4>2. bs[n].cached = {}
        BY DEF Pend
      <4>. QED  BY <1>1, <1>3, <1>4, <1>5, <2>1, <3>2, <4>1, <4>2 DEF Finished, Settled, Whole
    <3>. QED  BY <3>1, <3>2
  <2>. QED  BY <2>1 DEF Finished
<1>. QED  BY <1>1, <1>3, <1>4, <1>6, <1>7, <1>8, <1>9 DEF Sound

(* A draw begins with the root to be rendered, and ends with everything    *)
(* accessed that is shown, and every cached view with its subtree.         *)
LEMMA Started ==
  ASSUME NEW w \in Windows
  PROVE  LET f == [NoFrame EXCEPT !.up[Root[w]] = w] IN
           /\ f \in Frames /\ Shown(f) = {Root[w]}
           /\ <<Block(Root[w], {})>> \in Seq(Blocks)
           /\ Sound(f, <<Block(Root[w], {})>>, {})
           /\ Waiting(<<Block(Root[w], {})>>) = {Root[w]}
<1>. DEFINE r == Root[w]
            f == [NoFrame EXCEPT !.up[r] = w]
            b == Block(r, {})
            bs == <<b>>
<1>0. r \in Entities /\ w # None /\ w \notin Entities
  BY RootAssumption, NoneAssumption, KindsAssumption
<1>1. /\ f \in Frames /\ f.cached = {} /\ f.up[r] = w
      /\ \A e \in Entities : e # r => f.up[e] = None
  BY <1>0 DEF NoFrame, Frames
<1>2. b \in Blocks /\ b.view = r /\ b.start = {} /\ Pend(b) = {r} /\ Once(b)
  BY <1>0 DEF Block, Blocks, Pend, Once
<1>. HIDE DEF r, f, b
<1>3. bs \in Seq(Blocks) /\ DOMAIN bs = {1} /\ bs[1] = b
  BY <1>2
<1>. HIDE DEF bs
<1>4. Shown(f) = {r}
  BY <1>0, <1>1 DEF Shown
<1>5. Waiting(bs) = {r}
  BY <1>0, <1>2, <1>3 DEF Waiting
<1>6. Tree(f) /\ Known(f, bs, {}) /\ Finished(f, bs)
  BY <1>1, <1>4, <1>5 DEF Tree, Known, Finished
<1>7. Leaves(f, bs)
  BY <1>0, <1>1, <1>5, NoneAssumption DEF Leaves
<1>8. r \in Subtree(f, r)
  BY <1>0, <1>4, PathIs DEF Subtree
<1>9. Nested(f, bs) /\ Since(f, bs, {})
  BY <1>2, <1>3, <1>8 DEF Nested, Since
<1>10. Sound(f, bs, {})
  BY <1>2, <1>3, <1>6, <1>7, <1>9 DEF Sound
<1>. QED  BY <1>1, <1>3, <1>4, <1>5, <1>10 DEF r, f, b, bs

LEMMA Ended ==
  ASSUME NEW f, NEW bs \in Seq(Blocks), NEW acc, Sound(f, bs, acc), Len(bs) = 1, Pend(bs[1]) = {}
  PROVE  Tree(f) /\ Shown(f) = acc /\ Waiting(bs) = {} /\ \A u \in f.cached : Whole(f, u)
<1>1. DOMAIN bs = {1}
  OBVIOUS
<1>2. Waiting(bs) = {}
  BY <1>1 DEF Waiting
<1>3. bs[1].cached = {}
  BY DEF Pend
<1>. QED  BY <1>1, <1>2, <1>3 DEF Sound, Known, Finished, Settled

-----------------------------------------------------------------------------
(* Sequences of views and blocks *)

LEMMA FirstOfSeq ==
  ASSUME NEW T, NEW s \in Seq(T), s # <<>>
  PROVE  LET t == SubSeq(s, 1, Len(s) - 1) IN
           t \in Seq(T) /\ Len(t) = Len(s) - 1 /\ \A i \in 1..Len(s) - 1 : t[i] = s[i]
<1>. DEFINE n == Len(s) - 1
<1>0. Len(s) \in Nat \ {0} /\ s \in [1..Len(s) -> T]
  BY EmptySeq, LenProperties
<1>1. 1 \in Int /\ n \in Nat /\ n - 1 + 1 = n /\ (1 <= n \/ n = 0) /\ \A i \in 1..n : s[i] \in T
  BY <1>0
<1>2. \A i \in 1..n : 1 + i - 1 = i
  OBVIOUS
<1>3. /\ SubSeq(s, 1, n) \in Seq(T)
      /\ Len(SubSeq(s, 1, n)) = IF 1 <= n THEN n - 1 + 1 ELSE 0
      /\ \A i \in 1..n - 1 + 1 : SubSeq(s, 1, n)[i] = s[1 + i - 1]
  <2>. HIDE DEF n
  <2>1. 1 \in Int /\ n \in Int /\ \A i \in 1..n : s[i] \in T
    BY <1>1
  <2>. QED  BY <2>1, SubSeqProperties
<1>4. /\ SubSeq(s, 1, n) \in Seq(T) /\ Len(SubSeq(s, 1, n)) = n
      /\ \A i \in 1..n : SubSeq(s, 1, n)[i] = s[i]
  <2>. HIDE DEF n
  <2>. QED  BY <1>1, <1>2, <1>3
<1>. QED  BY <1>4

(* A sequence with its last member replaced. *)
LEMMA LastReplaced ==
  ASSUME NEW T, NEW s \in Seq(T), s # <<>>, NEW b \in T
  PROVE  LET t == Append(SubSeq(s, 1, Len(s) - 1), b) IN
           /\ t \in Seq(T) /\ t # <<>> /\ Len(t) = Len(s) /\ t[Len(s)] = b
           /\ \A i \in 1..Len(s) - 1 : t[i] = s[i]
<1>. DEFINE n == Len(s) - 1
            u == SubSeq(s, 1, n)
<1>1. n \in Nat /\ n + 1 = Len(s)
  BY EmptySeq
<1>2. u \in Seq(T) /\ Len(u) = n /\ \A i \in 1..n : u[i] = s[i]
  BY FirstOfSeq
<1>. HIDE DEF u, n
<1>3. /\ Append(u, b) \in Seq(T) /\ Append(u, b) # <<>>
      /\ Len(Append(u, b)) = n + 1 /\ Append(u, b)[n + 1] = b
      /\ \A i \in 1..n : Append(u, b)[i] = u[i]
  BY <1>1, <1>2, AppendProperties
<1>4. /\ Append(u, b) \in Seq(T) /\ Append(u, b) # <<>>
      /\ Len(Append(u, b)) = Len(s) /\ Append(u, b)[Len(s)] = b
      /\ \A i \in 1..n : Append(u, b)[i] = s[i]
  BY <1>1, <1>2, <1>3
<1>. QED  BY <1>4 DEF u, n

LEMMA LastRemoved ==
  ASSUME NEW T, NEW s \in Seq(T), Len(s) > 1
  PROVE  LET t == SubSeq(s, 1, Len(s) - 1) IN
           /\ t \in Seq(T) /\ t # <<>> /\ Len(t) = Len(s) - 1
           /\ \A i \in 1..Len(s) - 1 : t[i] = s[i]
<1>. DEFINE l == Len(s)
            n == l - 1
            u == SubSeq(s, 1, n)
<1>0. l \in Nat /\ l > 1
  BY LenProperties
<1>1. n \in Nat \ {0}
  <2>. HIDE DEF l, u
  <2>. QED  BY <1>0
<1>2. u \in Seq(T) /\ Len(u) = n /\ \A i \in 1..n : u[i] = s[i]
  <2>1. s # <<>>
    OBVIOUS
  <2>. QED  BY <2>1, FirstOfSeq
<1>. HIDE DEF u
<1>3. u # <<>>
  BY <1>1, <1>2
<1>. QED  BY <1>2, <1>3 DEF u

(* Each member of the set is in an order of it once. *)
LEMMA OrderIs ==
  ASSUME NEW S \in SUBSET Entities, NEW order \in SetToSeqs(S)
  PROVE  /\ order \in Seq(S) /\ {order[i] : i \in DOMAIN order} = S
         /\ \A i, j \in DOMAIN order : order[i] = order[j] => i = j
<1>. DEFINE D == 1..Cardinality(S)
<1>1. IsFiniteSet(S) /\ Cardinality(S) \in Nat
  BY KindsAssumption, FS_Subset, FS_CardinalityType
<1>2. IsFiniteSet(D) /\ Cardinality(D) = Cardinality(S)
  BY <1>1, FS_Interval
<1>3. order \in [D -> S] /\ \A i, j \in D : i # j => order[i] # order[j]
  BY DEF SetToSeqs
<1>4. order \in Injection(D, S)
  BY <1>3 DEF Injection, IsInjective
<1>5. order \in Surjection(D, S)
  BY <1>1, <1>2, <1>4, FS_Injection
<1>6. \A x \in S : \E i \in D : order[i] = x
  BY <1>5 DEF Surjection
<1>7. order \in Seq(S)
  BY <1>1, <1>3
<1>. QED  BY <1>3, <1>6, <1>7

(* The children of the first view in place of it. *)
LEMMA HeadReplaced ==
  ASSUME NEW S \in SUBSET Entities, NEW order \in Seq(S), {order[i] : i \in DOMAIN order} = S,
         \A i, j \in DOMAIN order : order[i] = order[j] => i = j,
         NEW p \in Seq(Entities), p # <<>>, \A i, j \in DOMAIN p : p[i] = p[j] => i = j,
         \A i \in DOMAIN p : p[i] \notin S
  PROVE  LET q == order \o Tail(p) IN
           /\ q \in Seq(Entities)
           /\ {q[i] : i \in DOMAIN q} = S \cup ({p[i] : i \in DOMAIN p} \ {Head(p)})
           /\ \A i, j \in DOMAIN q : q[i] = q[j] => i = j
<1>. DEFINE t == Tail(p)
            q == order \o t
            k == Len(order)
            m == Len(t)
<1>1. /\ t \in Seq(Entities) /\ m = Len(p) - 1 /\ m \in Nat /\ Head(p) = p[1] /\ Len(p) \in Nat
      /\ \A i \in 1..m : t[i] = p[i + 1] /\ i + 1 \in DOMAIN p
      /\ DOMAIN p = 1..m + 1
  OBVIOUS
<1>2. order \in Seq(Entities) /\ k \in Nat /\ DOMAIN order = 1..k
  OBVIOUS
<1>. HIDE DEF t, k, m
<1>3. /\ q \in Seq(Entities) /\ DOMAIN q = 1..k + m
      /\ \A i \in 1..k : q[i] = order[i]
      /\ \A i \in k + 1..k + m : q[i] = t[i - k]
  BY <1>1, <1>2 DEF k, m
<1>. HIDE DEF q
<1>4. \A i \in 1..k : i \in DOMAIN q /\ q[i] = order[i] /\ i \in DOMAIN order /\ q[i] \in S
  BY <1>1, <1>2, <1>3
<1>5. \A i \in k + 1..k + m : /\ i \in DOMAIN q /\ q[i] = p[i - k + 1] /\ i - k + 1 \in DOMAIN p
                              /\ i - k + 1 # 1 /\ q[i] \notin S
  <2>1. ASSUME NEW i \in k + 1..k + m
        PROVE  /\ i \in DOMAIN q /\ q[i] = p[i - k + 1] /\ i - k + 1 \in DOMAIN p
               /\ i - k + 1 # 1 /\ q[i] \notin S
    <3>1. i - k \in 1..m /\ i \in DOMAIN q /\ i - k + 1 # 1
      BY <1>1, <1>2, <1>3
    <3>2. q[i] = t[i - k] /\ t[i - k] = p[i - k + 1] /\ i - k + 1 \in DOMAIN p
      BY <1>1, <1>3, <3>1
    <3>. QED  BY <3>1, <3>2
  <2>. QED  BY <2>1
<1>6. \A i \in DOMAIN q : i \in 1..k \/ i \in k + 1..k + m
  BY <1>1, <1>2, <1>3
<1>7. \A i, j \in DOMAIN q : q[i] = q[j] => i = j
  <2>1. ASSUME NEW i \in 1..k, NEW j \in 1..k, q[i] = q[j]  PROVE i = j
    BY <1>4, <2>1
  <2>2. ASSUME NEW i \in k + 1..k + m, NEW j \in k + 1..k + m, q[i] = q[j]  PROVE i = j
    <3>1. i - k + 1 = j - k + 1
      BY <1>5, <2>2
    <3>. QED  BY <1>1, <1>2, <3>1
  <2>3. ASSUME NEW i \in 1..k, NEW j \in k + 1..k + m  PROVE q[i] # q[j]
    BY <1>4, <1>5
  <2>. QED  BY <1>6, <2>1, <2>2, <2>3
<1>8. {q[i] : i \in DOMAIN q} = S \cup ({p[i] : i \in DOMAIN p} \ {Head(p)})
  <2>1. ASSUME NEW i \in DOMAIN q  PROVE q[i] \in S \cup ({p[j] : j \in DOMAIN p} \ {Head(p)})
    <3>1. CASE i \in 1..k
      BY <1>4, <3>1
    <3>2. CASE i \in k + 1..k + m
      <4>1. 1 \in DOMAIN p
        BY <1>1
      <4>2. q[i] = p[i - k + 1] /\ i - k + 1 \in DOMAIN p /\ i - k + 1 # 1
        BY <1>5, <3>2
      <4>3. q[i] # p[1]
        BY <4>1, <4>2
      <4>. QED  BY <1>1, <4>2, <4>3
    <3>. QED  BY <1>6, <3>1, <3>2
  <2>2. ASSUME NEW x \in S  PROVE x \in {q[i] : i \in DOMAIN q}
    <3>1. PICK i \in DOMAIN order : x = order[i]
      OBVIOUS
    <3>. QED  BY <1>2, <1>4, <3>1
  <2>3. ASSUME NEW i \in DOMAIN p, p[i] # Head(p)  PROVE p[i] \in {q[j] : j \in DOMAIN q}
    <3>1. i # 1
      BY <1>1, <2>3
    <3>. DEFINE j == i + k - 1
    <3>2. i \in 1..m + 1
      BY <1>1
    <3>3. j \in k + 1..k + m /\ j - k + 1 = i
      <4>1. i \in Int /\ i > 1 /\ i <= m + 1
        BY <1>1, <3>1, <3>2
      <4>. QED  BY <1>1, <1>2, <4>1
    <3>. HIDE DEF j
    <3>4. j \in DOMAIN q /\ q[j] = p[j - k + 1]
      BY <1>5, <3>3
    <3>. QED  BY <3>3, <3>4
  <2>. QED  BY <2>1, <2>2, <2>3
<1>. QED  BY <1>3, <1>7, <1>8 DEF q, t

-----------------------------------------------------------------------------
(* The invariant *)

ViewsTyped ==
  /\ draws \in Seq(Draws) /\ Len(draws) <= 1
  /\ frame \in [Windows -> Frames] /\ stale \in [Windows -> SUBSET Entities]
  /\ views \in [Windows -> SUBSET Entities] /\ dirty \in [Windows -> BOOLEAN]
  /\ accessed \in SUBSET Entities

FramesWhole ==
  \A w \in Windows : Tree(frame[w]) /\ \A v \in frame[w].cached : Whole(frame[w], v)

(* A window tracks what it shows, so that a notify of it finds the window. *)
ShownTracked == \A w \in Windows : ~Drawing(w) => Shown(frame[w]) \subseteq tracked[w]

StaleShown == \A w \in Windows : stale[w] \subseteq Shown(frame[w])

(* The draw has marked the views that were notified and their ancestors,   *)
(* and those of them that it shows wait to be rendered.                    *)
DrawsStale ==
  InDraw => /\ Draw.blocks # <<>> /\ Sound(Draw.next, Draw.blocks, accessed)
            /\ \A e \in stale[Draw.win] : ViewPath(frame[Draw.win], e) \subseteq Draw.marked
            /\ stale[Draw.win] \cap Shown(Draw.next) \subseteq Waiting(Draw.blocks)

VInv ==
  ViewsTyped /\ FramesWhole /\ ShownTracked /\ StaleShown /\ DrawsStale /\ NotifiedViewsRedraw

(* The one draw. *)
LEMMA DrawIs ==
  ASSUME ViewsTyped, InDraw
  PROVE  /\ Len(draws) = 1 /\ DOMAIN draws = {1} /\ Draw = draws[1] /\ Outer = <<>>
         /\ Draw \in Draws /\ Draw.win \in Windows /\ Draw.next \in Frames
         /\ Draw.blocks \in Seq(Blocks) /\ Draw.marked \in SUBSET Entities
         /\ \A w : Drawing(w) <=> w = Draw.win
<1>1. draws \in Seq(Draws) /\ draws # <<>> /\ Len(draws) \in Nat \ {0} /\ Len(draws) <= 1
  BY EmptySeq DEF ViewsTyped, InDraw
<1>2. Len(draws) = 1 /\ DOMAIN draws = {1} /\ draws[1] \in Draws
  BY <1>1
<1>3. Outer = <<>>
  BY <1>2, SubSeqEmpty DEF Outer
<1>. QED  BY <1>2, <1>3 DEF Draw, Draws, Drawing

LEMMA NoDraw ==
  ASSUME ~InDraw
  PROVE  \A w : ~Drawing(w)
BY DEF InDraw, Drawing

(* The draw goes on: nothing else is touched, but that a view renders. *)
LEMMA GoesOn ==
  ASSUME VInv, InDraw, NEW next \in Frames, NEW blocks \in Seq(Blocks), blocks # <<>>,
         Continue(next, blocks), UNCHANGED <<dirty, views, frame, tracked>>,
         accessed' \in SUBSET Entities, stale' \in [Windows -> SUBSET Entities],
         \A w \in Windows : stale'[w] \subseteq stale[w],
         Sound(next, blocks, accessed'),
         stale'[Draw.win] \cap Shown(next) \subseteq Waiting(blocks)
  PROVE  VInv'
<1>. DEFINE d == [Draw EXCEPT !.next = next, !.blocks = blocks]
<1>0. ViewsTyped
  BY DEF VInv
<1>1. /\ Draw \in Draws /\ DOMAIN draws = {1} /\ Draw = draws[1] /\ Outer = <<>>
      /\ \A w : Drawing(w) <=> w = Draw.win
  BY <1>0, DrawIs
<1>2. /\ d \in Draws /\ d.win = Draw.win /\ d.marked = Draw.marked
      /\ d.next = next /\ d.blocks = blocks
  BY <1>1 DEF Draws
<1>. HIDE DEF d
<1>3. draws' = <<d>>
  BY <1>1 DEF Continue, d
<1>4. draws' \in Seq(Draws) /\ Len(draws') = 1 /\ DOMAIN draws' = {1} /\ draws'[1] = d /\ draws' # <<>>
  BY <1>2, <1>3
<1>5. ViewsTyped'
  BY <1>0, <1>4 DEF ViewsTyped
<1>6. InDraw' /\ Draw' = d
  BY <1>4 DEF InDraw, Draw
<1>7. \A w : Drawing(w)' <=> Drawing(w)
  BY <1>1, <1>2, <1>4 DEF Drawing
<1>8. FramesWhole' /\ ShownTracked' /\ StaleShown' /\ NotifiedViewsRedraw'
  BY <1>7 DEF VInv, FramesWhole, ShownTracked, StaleShown, NotifiedViewsRedraw
<1>9. Draw.win \in Windows
  BY <1>0, DrawIs
<1>10. DrawsStale'
  BY <1>2, <1>6, <1>9 DEF VInv, DrawsStale
<1>. QED  BY <1>5, <1>8, <1>10 DEF VInv

(* A view renders: its children wait. *)
LEMMA RenderKeeps ==
  ASSUME VInv, Render, ~ReadOthers
  PROVE  VInv'
<1>. DEFINE f == Draw.next
            bs == Draw.blocks
            n == Len(bs)
            b == bs[n]
            v == Head(b.plain)
            free == Entities \ (Shown(f) \cup {Root[w] : w \in Windows})
<1>0. ViewsTyped /\ DrawsStale
  BY DEF VInv
<1>1. InDraw /\ b.plain # <<>>
  BY DEF Render, Current
<1>2. /\ f \in Frames /\ bs \in Seq(Blocks) /\ bs # <<>> /\ Sound(f, bs, accessed)
      /\ Draw.win \in Windows
  BY <1>0, <1>1, DrawIs DEF DrawsStale
<1>3. n \in Nat \ {0} /\ n \in DOMAIN bs /\ DOMAIN bs = 1..n /\ b \in Blocks
  BY <1>2, EmptySeq
<1>4. /\ b.plain \in Seq(Entities) /\ b.cached \in SUBSET Entities
      /\ v = b.plain[1] /\ 1 \in DOMAIN b.plain /\ v \in Entities
  BY <1>1, <1>3 DEF Blocks
<1>4a. PICK plain \in SUBSET free :
         \E cached \in SUBSET (free \ plain), order \in SetToSeqs(plain) :
           Continue([f EXCEPT !.up = [e \in Entities |-> IF e \in plain \cup cached THEN v ELSE @[e]],
                              !.cached = @ \cup cached],
                    Within([b EXCEPT !.plain = order \o Tail(@), !.cached = @ \cup cached]))
  BY DEF Render, Current
<1>5. PICK cached \in SUBSET (free \ plain), order \in SetToSeqs(plain) :
        Continue([f EXCEPT !.up = [e \in Entities |-> IF e \in plain \cup cached THEN v ELSE @[e]],
                           !.cached = @ \cup cached],
                 Within([b EXCEPT !.plain = order \o Tail(@), !.cached = @ \cup cached]))
  BY <1>4a
<1>6. /\ accessed' = accessed \cup {v} /\ stale' = [stale EXCEPT ![Draw.win] = @ \ {v}]
      /\ UNCHANGED <<dirty, views, frame, tracked>>
  BY DEF Render, Current, lookup
<1>. DEFINE N == plain \cup cached
            g == [f EXCEPT !.up = [e \in Entities |-> IF e \in N THEN v ELSE @[e]],
                           !.cached = @ \cup cached]
            c == [b EXCEPT !.plain = order \o Tail(@), !.cached = @ \cup cached]
            cs == Within(c)
<1>7. /\ g \in Frames /\ g.cached = f.cached \cup cached /\ g.kept = f.kept
      /\ \A e \in Entities : g.up[e] = IF e \in N THEN v ELSE f.up[e]
  BY <1>2, <1>4 DEF Frames
<1>8. Once(b) /\ v \in Pend(b) /\ v \in Shown(f) /\ v \notin b.cached
  BY <1>2, <1>3, <1>4, WaitingIs DEF Sound, Known, Pend, Once
<1>9. /\ order \in Seq(plain) /\ {order[i] : i \in DOMAIN order} = plain
      /\ \A i, j \in DOMAIN order : order[i] = order[j] => i = j
  BY OrderIs
<1>10. Pend(b) \subseteq Shown(f) /\ \A i \in DOMAIN b.plain : b.plain[i] \in Pend(b)
  BY <1>2, <1>3, WaitingIs DEF Sound, Known, Pend
<1>11. LET q == order \o Tail(b.plain) IN
         /\ q \in Seq(Entities)
         /\ {q[i] : i \in DOMAIN q} = plain \cup ({b.plain[i] : i \in DOMAIN b.plain} \ {v})
         /\ \A i, j \in DOMAIN q : q[i] = q[j] => i = j
  <2>. DEFINE p == b.plain
  <2>1. /\ p \in Seq(Entities) /\ p # <<>> /\ \A i \in DOMAIN p : p[i] \notin plain
        /\ \A i, j \in DOMAIN p : p[i] = p[j] => i = j
        /\ plain \in SUBSET Entities
    BY <1>1, <1>4, <1>8, <1>10 DEF Once
  <2>. HIDE DEF p
  <2>2. LET q == order \o Tail(p) IN
         /\ q \in Seq(Entities)
         /\ {q[i] : i \in DOMAIN q} = plain \cup ({p[i] : i \in DOMAIN p} \ {Head(p)})
         /\ \A i, j \in DOMAIN q : q[i] = q[j] => i = j
    BY <1>9, <2>1, HeadReplaced
  <2>. QED  BY <2>2 DEF p
<1>12. /\ c \in Blocks /\ c.view = b.view /\ c.start = b.start
       /\ c.plain = order \o Tail(b.plain) /\ c.cached = b.cached \cup cached
  BY <1>3, <1>11 DEF Blocks
<1>13. /\ cs \in Seq(Blocks) /\ cs # <<>> /\ Len(cs) = n /\ cs[n] = c
       /\ \A i \in 1..n - 1 : cs[i] = bs[i]
  BY <1>2, <1>12, LastReplaced DEF Within
<1>. HIDE DEF f, bs, n, b, v, g, c, cs
<1>14a. {c.plain[i] : i \in DOMAIN c.plain} = plain \cup ({b.plain[i] : i \in DOMAIN b.plain} \ {v})
  BY <1>11, <1>12
<1>14. Pend(c) = (Pend(b) \ {v}) \cup N
  BY <1>8, <1>12, <1>14a DEF Pend
<1>15. Once(c)
  <2>1. ASSUME NEW x \in {c.plain[i] : i \in DOMAIN c.plain}  PROVE x \notin c.cached
    <3>1. CASE x \in plain
      BY <1>8, <1>10, <1>12, <3>1 DEF Pend
    <3>2. CASE x \in {b.plain[i] : i \in DOMAIN b.plain}
      <4>1. x \notin b.cached /\ x \in Shown(f)
        BY <1>8, <1>10, <3>2 DEF Once
      <4>. QED  BY <1>12, <4>1
    <3>. QED  BY <1>14a, <2>1, <3>1, <3>2
  <2>. QED  BY <1>11, <1>12, <2>1 DEF Once
<1>16. /\ Shown(g) = Shown(f) \cup N /\ N \cap Shown(f) = {} /\ N \subseteq Entities
       /\ \A x \in Shown(f) : g.up[x] = f.up[x]
  BY <1>4, <1>7, NoneAssumption DEF Shown
<1>17. Tree(f)
  BY <1>2 DEF Sound
<1>18. Tree(g)
  BY <1>7, <1>8, <1>16, <1>17 DEF Tree
<1>19. \A x \in N, u \in Shown(f) : u \in ViewPath(g, x) <=> u \in ViewPath(f, v)
  <2>1. ViewPath(g, v) = ViewPath(f, v)
    BY <1>8, <1>16, <1>17, SubtreesStay
  <2>2. ASSUME NEW x \in N  PROVE ViewPath(g, x) = {x} \cup ViewPath(g, v)
    BY <1>4, <1>7, <1>16, PathStep
  <2>. QED  BY <1>16, <2>1, <2>2
<1>20. Sound(g, cs, accessed')
  <2>1. bs[n] = b
    BY DEF b
  <2>2. \A x \in N : g.up[x] \notin N /\ g.up[x] = v
    BY <1>7, <1>8, <1>16
  <2>3. \A u \in g.cached : \/ /\ u \in f.cached /\ g.kept[u] = f.kept[u]
                               /\ u # v \/ v \notin bs[n].cached
                            \/ u \in cs[n].cached
                            \/ Whole(g, u) /\ Subtree(g, u) \cap ((Waiting(bs) \ {v}) \cup N) = {}
    BY <1>7, <1>8, <1>12, <1>13, <2>1
  <2>4. bs[n].cached \ {v} \subseteq cs[n].cached
    BY <1>12, <1>13, <2>1
  <2>5. n = Len(bs) /\ accessed' = accessed \cup {v} \cup (N \ N)
    BY <1>6 DEF n
  <2>6. \A x \in N : g.up[x] \notin N /\ (g.up[x] = v \/ g.up[x] \notin Waiting(bs))
    BY <2>2
  <2>7. /\ cs[n].view = bs[n].view /\ cs[n].start = bs[n].start /\ Once(cs[n])
        /\ Pend(cs[n]) = (Pend(bs[n]) \ {v}) \cup N /\ v \in Pend(bs[n])
    BY <1>8, <1>12, <1>13, <1>14, <1>15, <2>1
  <2>. HIDE DEF N
  <2>. QED  BY <1>2, <1>13, <1>16, <1>18, <1>19, <2>3, <2>4, <2>5, <2>6, <2>7, Grown
<1>21. stale[Draw.win] \cap Shown(f) \subseteq Waiting(bs)
  BY <1>0, <1>1 DEF DrawsStale, f, bs
<1>22. /\ stale' \in [Windows -> SUBSET Entities] /\ \A w \in Windows : stale'[w] \subseteq stale[w]
       /\ stale'[Draw.win] = stale[Draw.win] \ {v}
  BY <1>0, <1>2, <1>6 DEF ViewsTyped
<1>23. stale'[Draw.win] \cap Shown(g) \subseteq Waiting(cs)
  <2>1. ASSUME NEW x \in Waiting(bs), x # v  PROVE x \in Waiting(cs)
    <3>1. PICK i \in DOMAIN bs : x \in Pend(bs[i])
      BY <1>2, WaitingIs
    <3>2. x \in Pend(cs[i]) /\ i \in DOMAIN cs
      BY <1>3, <1>13, <1>14, <2>1, <3>1 DEF b
    <3>. QED  BY <1>13, <3>2, WaitingIs
  <2>2. ASSUME NEW x \in N  PROVE x \in Waiting(cs)
    <3>1. x \in Pend(cs[n]) /\ n \in DOMAIN cs
      BY <1>3, <1>13, <1>14
    <3>. QED  BY <1>13, <3>1, WaitingIs
  <2>. QED  BY <1>16, <1>21, <1>22, <2>1, <2>2
<1>24. Continue(g, cs) /\ accessed' \in SUBSET Entities
  BY <1>0, <1>4, <1>5, <1>6 DEF g, cs, c, ViewsTyped
<1>. QED  BY <1>1, <1>6, <1>7, <1>13, <1>20, <1>22, <1>23, <1>24, GoesOn

(* A cached view is taken over with its subtree, which nobody notified. *)
LEMMA ReuseKeeps ==
  ASSUME VInv, NEW v \in Entities, Reuse(v)
  PROVE  VInv'
<1>. DEFINE f == Draw.next
            R == frame[Draw.win]
            bs == Draw.blocks
            n == Len(bs)
            b == bs[n]
            sub == Subtree(R, v)
            N == sub \ {v}
            g == [up |-> [e \in Entities |-> IF e \in sub THEN R.up[e] ELSE f.up[e]],
                  cached |-> f.cached \cup (R.cached \cap sub),
                  kept |-> [e \in Entities |-> IF e \in sub THEN R.kept[e] ELSE f.kept[e]]]
            c == [b EXCEPT !.cached = @ \ {v}]
            cs == Within(c)
<1>0. ViewsTyped /\ FramesWhole /\ DrawsStale
  BY DEF VInv
<1>1. /\ InDraw /\ v \in b.cached /\ v \in R.cached /\ v \notin Draw.marked
      /\ \A x \in ViewPath(f, v) : R.up[x] = f.up[x]
      /\ N \cap Shown(f) = {} /\ Continue(g, cs)
      /\ accessed' = accessed \cup R.kept[v]
      /\ UNCHANGED <<dirty, views, frame, tracked, stale>>
  BY DEF Reuse, Reusable, SamePlace, Current, Rendered, lookup
<1>2. /\ f \in Frames /\ bs \in Seq(Blocks) /\ bs # <<>> /\ Sound(f, bs, accessed)
      /\ Draw.win \in Windows /\ R \in Frames
      /\ \A e \in stale[Draw.win] : ViewPath(R, e) \subseteq Draw.marked
      /\ stale[Draw.win] \cap Shown(f) \subseteq Waiting(bs)
  BY <1>0, <1>1, DrawIs DEF DrawsStale, ViewsTyped
<1>3. Tree(R) /\ (\A u \in R.cached : Whole(R, u)) /\ stale[Draw.win] \subseteq Entities
  BY <1>0, <1>2 DEF FramesWhole, ViewsTyped
<1>4. n \in Nat \ {0} /\ n \in DOMAIN bs /\ DOMAIN bs = 1..n /\ b \in Blocks
  BY <1>2, EmptySeq
<1>5. Tree(f) /\ Waiting(bs) \subseteq Shown(f) /\ Once(b)
  BY <1>2, <1>4 DEF Sound, Known
<1>6. v \in Pend(b) /\ v \in Waiting(bs) /\ v \in Shown(f) /\ v \in Entities
  BY <1>1, <1>2, <1>4, <1>5, WaitingIs DEF Pend
<1>7. /\ g \in Frames /\ g.cached = f.cached \cup (R.cached \cap sub)
      /\ \A e \in Entities : /\ g.up[e] = IF e \in sub THEN R.up[e] ELSE f.up[e]
                             /\ g.kept[e] = IF e \in sub THEN R.kept[e] ELSE f.kept[e]
  BY <1>2 DEF Frames
<1>8. /\ c \in Blocks /\ c.view = b.view /\ c.start = b.start /\ c.plain = b.plain
      /\ c.cached = b.cached \ {v}
  BY <1>4 DEF Blocks
<1>9. /\ cs \in Seq(Blocks) /\ cs # <<>> /\ Len(cs) = n /\ cs[n] = c
      /\ \A i \in 1..n - 1 : cs[i] = bs[i]
  BY <1>2, <1>8, LastReplaced DEF Within
<1>10. Pend(c) = Pend(b) \ {v} /\ Once(c)
  <2>1. c.plain = b.plain /\ c.cached = b.cached \ {v}
    BY <1>8
  <2>2. \A i \in DOMAIN b.plain : b.plain[i] # v
    BY <1>1, <1>5 DEF Once
  <2>. QED  BY <1>5, <2>1, <2>2 DEF Pend, Once
<1>11. v \in sub /\ sub \subseteq Shown(R) /\ sub \subseteq Entities
  BY <1>1, <1>3, <1>6, PathIs DEF Subtree, Tree, Shown
<1>. HIDE DEF f, R, bs, n, b, g, c, cs, sub
<1>12. sub \cap Shown(f) = {v} /\ R.up[v] = f.up[v]
  BY <1>1, <1>6, <1>11, PathIs
(* The paths of the subtree are those of the rendered frame. *)
<1>. DEFINE S == sub \cup ViewPath(f, v)
<1>13. \A x \in Shown(f) : g.up[x] = f.up[x]
  BY <1>7, <1>12 DEF Shown
<1>14. /\ ViewPath(f, v) \subseteq Shown(f)
       /\ \A x \in Shown(f) : ViewPath(g, x) = ViewPath(f, x) /\ ViewPath(f, x) \subseteq Shown(f)
  BY <1>5, <1>6, <1>13, SubtreesStay
<1>15. ASSUME NEW x \in N  PROVE R.up[x] \in sub
  <2>1. x \in Shown(R) /\ x \in Entities /\ v \in ViewPath(R, x)
    BY <1>11 DEF sub, Subtree
  <2>2. R.up[x] \in Entities
    BY <2>1, PathOfRoot
  <2>3. v \in ViewPath(R, R.up[x])
    BY <2>1, <2>2, PathStep
  <2>4. R.up[x] \in Shown(R)
    BY <1>3, <2>1, <2>2, KindsAssumption DEF Tree
  <2>. QED  BY <2>3, <2>4 DEF sub, Subtree
<1>16. HasParents(R, S) /\ S \in SUBSET Entities
  <2>1. HasParents(f, ViewPath(f, v)) /\ v \in ViewPath(f, v) /\ ViewPath(f, v) \subseteq Entities
    BY <1>6, PathIs
  <2>2. ASSUME NEW x \in S, R.up[x] \in Entities  PROVE R.up[x] \in S
    <3>1. CASE x \in ViewPath(f, v)
      BY <1>1, <2>1, <2>2, <3>1 DEF HasParents
    <3>2. CASE x \in N
      BY <1>15, <3>2
    <3>. QED  BY <2>1, <3>1, <3>2
  <2>. QED  BY <1>11, <2>1, <2>2 DEF HasParents
<1>17. \A x \in S : ViewPath(g, x) = ViewPath(R, x) /\ ViewPath(R, x) \subseteq S
  <2>1. SameParents(R, g, S)
    BY <1>1, <1>7, <1>16 DEF SameParents
  <2>. HIDE DEF S
  <2>. QED  BY <1>16, <2>1, PathsAgree
<1>18. Shown(g) = Shown(f) \cup N
  BY <1>7, <1>11, <1>12 DEF Shown
<1>19. Tree(g)
  <2>1. ASSUME NEW e \in Shown(g)  PROVE g.up[e] \in Shown(g) \cup Windows
    <3>1. CASE e \in Shown(f)
      BY <1>5, <1>13, <1>18, <3>1 DEF Tree
    <3>2. CASE e \in N
      <4>1. g.up[e] = R.up[e] /\ R.up[e] \in sub
        BY <1>7, <1>11, <1>15, <3>2
      <4>. QED  BY <1>12, <1>18, <4>1
    <3>. QED  BY <1>18, <3>1, <3>2
  <2>2. g.cached \subseteq Shown(g)
    BY <1>5, <1>7, <1>12, <1>18 DEF Tree
  <2>. QED  BY <2>1, <2>2 DEF Tree
<1>20. ASSUME NEW x \in N, NEW u \in Shown(f)
       PROVE  u \in ViewPath(g, x) <=> u \in ViewPath(f, v)
  <2>1. ViewPath(g, x) = ViewPath(R, x) /\ ViewPath(R, x) \subseteq S /\ v \in ViewPath(R, x)
    BY <1>17 DEF sub, Subtree
  <2>2. v \in ViewPath(f, v) /\ ViewPath(g, v) = ViewPath(f, v)
    BY <1>6, <1>14, PathIs
  <2>3. u \in S => u \in ViewPath(f, v)
    BY <1>12, <2>2
  <2>4. ViewPath(g, v) \subseteq ViewPath(g, x)
    BY <1>11, <2>1, PathOfAncestor
  <2>. QED  BY <2>1, <2>2, <2>3, <2>4
<1>21. ASSUME NEW u \in R.cached \cap sub
       PROVE  Whole(g, u) /\ Subtree(g, u) \cap (Waiting(bs) \ {v}) = {}
  <2>0. Subtree(f, v) = {v}
    BY <1>2, <1>6, WaitingAlone
  <2>1. v \in ViewPath(R, u) /\ u \in Entities /\ g.kept[u] = R.kept[u] /\ R.kept[u] = Subtree(R, u)
    BY <1>3, <1>7, <1>11 DEF sub, Subtree, Whole
  <2>2. ASSUME NEW x \in Subtree(R, u)  PROVE x \in Subtree(g, u)
    <3>1. x \in Shown(R) /\ x \in Entities /\ u \in ViewPath(R, x)
      BY <2>2 DEF Subtree, Shown
    <3>2. v \in ViewPath(R, x)
      BY <2>1, <3>1, PathOfAncestor
    <3>3. x \in sub
      BY <3>1, <3>2 DEF sub, Subtree
    <3>4. x \in Shown(g) /\ ViewPath(g, x) = ViewPath(R, x)
      BY <1>12, <1>17, <1>18, <3>3
    <3>. QED  BY <3>1, <3>4 DEF Subtree
  <2>3. ASSUME NEW x \in Subtree(g, u)  PROVE x \in Subtree(R, u) /\ x \in sub
    <3>1. x \in Shown(g) /\ u \in ViewPath(g, x)
      BY <2>3 DEF Subtree
    <3>2. x \in sub
      <4>1. CASE x \in Shown(f)
        <5>1. u \in ViewPath(f, x) /\ u \in Shown(f)
          BY <1>14, <3>1, <4>1
        <5>2. u = v
          BY <1>12, <5>1
        <5>3. x \in Subtree(f, v)
          BY <4>1, <5>1, <5>2 DEF Subtree
        <5>. QED  BY <1>11, <2>0, <5>3
      <4>. QED  BY <1>18, <3>1, <4>1
    <3>3. x \in Shown(R) /\ ViewPath(g, x) = ViewPath(R, x)
      BY <1>11, <1>17, <3>2
    <3>. QED  BY <3>1, <3>2, <3>3 DEF Subtree
  <2>4. Whole(g, u)
    BY <2>1, <2>2, <2>3 DEF Whole
  <2>5. sub \cap (Waiting(bs) \ {v}) = {}
    BY <1>5, <1>12
  <2>. QED  BY <2>3, <2>4, <2>5
<1>22. accessed' = accessed \cup {v} \cup (N \ {})
  BY <1>1, <1>3, <1>11 DEF Whole, sub
<1>23. Sound(g, cs, accessed')
  <2>1. bs[n] = b
    BY DEF b
  <2>2. \A x \in N : g.up[x] \notin {} /\ (g.up[x] = v \/ g.up[x] \notin Waiting(bs))
    <3>1. ASSUME NEW x \in N  PROVE g.up[x] = v \/ g.up[x] \notin Waiting(bs)
      <4>1. g.up[x] \in sub
        BY <1>7, <1>11, <1>15
      <4>. QED  BY <1>5, <1>12, <4>1
    <3>. QED  BY <3>1
  <2>3. \A u \in g.cached : \/ /\ u \in f.cached /\ g.kept[u] = f.kept[u]
                               /\ u # v \/ v \notin bs[n].cached
                            \/ u \in cs[n].cached
                            \/ Whole(g, u) /\ Subtree(g, u) \cap ((Waiting(bs) \ {v}) \cup {}) = {}
    <3>1. ASSUME NEW u \in g.cached, u \notin R.cached \cap sub
          PROVE  u \in f.cached /\ g.kept[u] = f.kept[u] /\ u # v
      <4>1. u \in f.cached /\ u # v
        BY <1>1, <1>7, <1>11, <3>1
      <4>2. u \in Shown(f) /\ u \in Entities
        BY <1>5, <4>1 DEF Tree, Shown
      <4>. QED  BY <1>7, <1>12, <4>1, <4>2
    <3>. QED  BY <1>21, <3>1
  <2>4. bs[n].cached \ {v} \subseteq cs[n].cached
    BY <1>8, <1>9, <2>1
  <2>5. n = Len(bs)
    BY DEF n
  <2>6. /\ cs[n].view = bs[n].view /\ cs[n].start = bs[n].start /\ Once(cs[n])
        /\ Pend(cs[n]) = (Pend(bs[n]) \ {v}) \cup {} /\ v \in Pend(bs[n])
    BY <1>6, <1>8, <1>9, <1>10, <2>1
  <2>7. N \in SUBSET Entities /\ N \cap Shown(f) = {} /\ {} \in SUBSET N
    BY <1>1, <1>11
  <2>. HIDE DEF N
  <2>. QED  BY <1>2, <1>9, <1>13, <1>18, <1>19, <1>20, <1>22, <2>2, <2>3, <2>4, <2>5, <2>6, <2>7, Grown
<1>24. stale'[Draw.win] \cap Shown(g) \subseteq Waiting(cs)
  <2>1. ASSUME NEW x \in stale[Draw.win]  PROVE x \notin sub
    <3>1. ViewPath(R, x) \subseteq Draw.marked
      BY <1>2
    <3>. QED  BY <1>1, <3>1 DEF sub, Subtree
  <2>2. ASSUME NEW x \in Waiting(bs), x # v  PROVE x \in Waiting(cs)
    <3>1. PICK i \in DOMAIN bs : x \in Pend(bs[i])
      BY <1>2, WaitingIs
    <3>2. x \in Pend(cs[i]) /\ i \in DOMAIN cs
      BY <1>4, <1>9, <1>10, <2>2, <3>1 DEF b
    <3>. QED  BY <1>9, <3>2, WaitingIs
  <2>. QED  BY <1>1, <1>2, <1>11, <1>18, <2>1, <2>2
<1>25. accessed' \in SUBSET Entities /\ stale' \in [Windows -> SUBSET Entities]
  BY <1>0, <1>1, <1>11, <1>22 DEF ViewsTyped
<1>26. \A w \in Windows : stale'[w] \subseteq stale[w]
  BY <1>1
<1>. QED  BY <1>1, <1>7, <1>9, <1>23, <1>24, <1>25, <1>26, GoesOn

(* A cached view is rendered, in a block of its own. *)
LEMMA RerenderKeeps ==
  ASSUME VInv, NEW v \in Entities, Rerender(v)
  PROVE  VInv'
<1>. DEFINE f == Draw.next
            bs == Draw.blocks
            n == Len(bs)
            c == [bs[n] EXCEPT !.cached = @ \ {v}]
            q == Within(c)
            d == Block(v, accessed)
            cs == Append(q, d)
<1>0. ViewsTyped /\ DrawsStale
  BY DEF VInv
<1>1. /\ InDraw /\ v \in bs[n].cached /\ Continue(f, cs)
      /\ UNCHANGED <<dirty, views, frame, tracked, stale, accessed>>
  BY DEF Rerender, Current, lookup
<1>2. /\ f \in Frames /\ bs \in Seq(Blocks) /\ bs # <<>> /\ Sound(f, bs, accessed)
      /\ stale[Draw.win] \cap Shown(f) \subseteq Waiting(bs)
  BY <1>0, <1>1, DrawIs DEF DrawsStale
<1>3. n \in Nat \ {0} /\ n \in DOMAIN bs /\ bs[n] \in Blocks
  BY <1>2, EmptySeq
<1>4. c \in Blocks /\ d \in Blocks
  BY <1>0, <1>3 DEF Blocks, Block, ViewsTyped
<1>5. q \in Seq(Blocks) /\ Len(q) = n /\ q[n] = c /\ \A i \in 1..n - 1 : q[i] = bs[i]
  BY <1>2, <1>4, LastReplaced DEF Within
<1>. HIDE DEF f, bs, n, c, q, d
<1>6. /\ cs \in Seq(Blocks) /\ cs # <<>> /\ Len(cs) = n + 1
      /\ cs[n + 1] = d /\ \A i \in 1..n : cs[i] = q[i]
  BY <1>4, <1>5, AppendProperties
<1>. HIDE DEF cs
<1>7. cs[n] = c /\ \A i \in 1..n - 1 : cs[i] = bs[i]
  BY <1>3, <1>5, <1>6
<1>8. Sound(f, cs, accessed) /\ Waiting(cs) = Waiting(bs)
  <2>1. /\ v \in bs[n].cached
        /\ cs[n].view = bs[n].view /\ cs[n].start = bs[n].start
        /\ cs[n].plain = bs[n].plain /\ cs[n].cached = bs[n].cached \ {v}
    BY <1>1, <1>3, <1>7 DEF c, Blocks
  <2>2. cs[n + 1] = Block(v, accessed)
    BY <1>6 DEF d
  <2>3. Opens(bs, cs, v, accessed)
    BY <1>2, <1>6, <1>7, <2>1, <2>2 DEF Opens, n
  <2>. QED  BY <1>2, <1>6, <2>3, Deeper
<1>9. accessed' \in SUBSET Entities /\ stale' \in [Windows -> SUBSET Entities]
  BY <1>0, <1>1 DEF ViewsTyped
<1>. QED  BY <1>1, <1>2, <1>6, <1>8, <1>9, GoesOn

LEMMA RerenderedKeeps ==
  ASSUME VInv, Rerendered
  PROVE  VInv'
<1>. DEFINE f == Draw.next
            bs == Draw.blocks
            n == Len(bs)
            b == bs[n]
            g == [f EXCEPT !.kept[b.view] = accessed \ b.start]
            cs == SubSeq(bs, 1, n - 1)
<1>0. ViewsTyped /\ DrawsStale
  BY DEF VInv
<1>1. /\ InDraw /\ n > 1 /\ b.plain = <<>> /\ b.cached = {} /\ Continue(g, cs)
      /\ UNCHANGED <<dirty, views, frame, tracked, stale, accessed>>
  BY DEF Rerendered, Current, lookup
<1>2. /\ f \in Frames /\ bs \in Seq(Blocks) /\ bs # <<>> /\ Sound(f, bs, accessed)
      /\ stale[Draw.win] \cap Shown(f) \subseteq Waiting(bs)
  BY <1>0, <1>1, DrawIs DEF DrawsStale
<1>3. n \in Nat \ {0} /\ n \in DOMAIN bs /\ b \in Blocks
  BY <1>2, EmptySeq
<1>4. b.view \in Entities /\ accessed \in SUBSET Entities /\ Pend(b) = {}
  BY <1>0, <1>1, <1>3 DEF Blocks, ViewsTyped, Pend
<1>5. /\ g \in Frames /\ g.up = f.up /\ g.cached = f.cached
      /\ \A u \in Entities : g.kept[u] = IF u = b.view THEN accessed \ b.start ELSE f.kept[u]
  BY <1>2, <1>4 DEF Frames
<1>6. /\ cs \in Seq(Blocks) /\ cs # <<>> /\ Len(cs) = n - 1
      /\ \A i \in 1..n - 1 : cs[i] = bs[i]
  BY <1>1, <1>2, LastRemoved
<1>7. Sound(g, cs, accessed) /\ Waiting(cs) = Waiting(bs)
  <2>1. /\ n > 1 /\ Pend(bs[n]) = {}
        /\ g.kept[bs[n].view] = accessed \ bs[n].start
        /\ \A u \in Entities : u # bs[n].view => g.kept[u] = f.kept[u]
    BY <1>1, <1>4, <1>5
  <2>. HIDE DEF f, bs, g, cs
  <2>2. Shuts(f, g, bs, cs, accessed)
    BY <1>5, <1>6, <2>1 DEF Shuts
  <2>. HIDE DEF n
  <2>. QED  BY <1>2, <1>6, <2>2, Shallower
<1>8. Shown(g) = Shown(f)
  BY <1>5 DEF Shown
<1>. HIDE DEF f, bs, n, g, cs
<1>9. accessed' \in SUBSET Entities /\ stale' \in [Windows -> SUBSET Entities]
  BY <1>0, <1>1 DEF ViewsTyped
<1>. QED  BY <1>1, <1>2, <1>5, <1>6, <1>7, <1>8, <1>9, GoesOn

(* A draw of the window begins: it marks what was notified. *)
LEMMA BeginKeeps ==
  ASSUME VInv, ~InDraw, NEW w \in Windows, BeginDraw(w), UNCHANGED <<frame, tracked, stale>>
  PROVE  VInv'
<1>. DEFINE f == [NoFrame EXCEPT !.up[Root[w]] = w]
            bs == <<Block(Root[w], {})>>
            d == [win |-> w, marked |-> Marked(w), next |-> f, blocks |-> bs]
<1>0. ViewsTyped /\ FramesWhole /\ ShownTracked /\ StaleShown /\ NotifiedViewsRedraw
  BY DEF VInv
<1>1. /\ draws' = Append(draws, d) /\ accessed' = {}
      /\ views' = [views EXCEPT ![w] = {}] /\ dirty' = [dirty EXCEPT ![w] = FALSE]
  BY DEF BeginDraw
<1>2. /\ f \in Frames /\ Shown(f) = {Root[w]} /\ bs \in Seq(Blocks) /\ Sound(f, bs, {})
      /\ Waiting(bs) = {Root[w]}
  BY Started
<1>3. bs # <<>>
  OBVIOUS
<1>4. Marked(w) \in SUBSET Entities /\ stale[w] \subseteq views[w] \cap Shown(frame[w])
  <2>1. Marked(w) \in SUBSET Entities
    BY <1>0, PathIs DEF Marked, ViewsTyped
  <2>2. stale[w] \subseteq views[w]
    BY <1>0, NoDraw DEF NotifiedViewsRedraw
  <2>. QED  BY <1>0, <2>1, <2>2 DEF StaleShown
<1>5. \A e \in stale[w] : ViewPath(frame[w], e) \subseteq Marked(w)
  BY <1>4 DEF Marked
<1>. HIDE DEF f, bs
<1>6. /\ d \in Draws /\ d.win = w /\ d.marked = Marked(w) /\ d.next = f /\ d.blocks = bs
  BY <1>2, <1>4 DEF Draws
<1>. HIDE DEF d
<1>7. draws' = <<d>>
  BY <1>1 DEF InDraw
<1>8. draws' \in Seq(Draws) /\ Len(draws') = 1 /\ DOMAIN draws' = {1} /\ draws'[1] = d /\ draws' # <<>>
  BY <1>6, <1>7
<1>9. ViewsTyped'
  BY <1>0, <1>1, <1>8 DEF ViewsTyped
<1>10. InDraw' /\ Draw' = d /\ \A v : Drawing(v)' <=> v = w
  BY <1>6, <1>8 DEF InDraw, Draw, Drawing
<1>11. \A v : ~Drawing(v)
  BY NoDraw
<1>12. FramesWhole' /\ ShownTracked' /\ StaleShown'
  BY <1>0, <1>11 DEF FramesWhole, ShownTracked, StaleShown
<1>13. NotifiedViewsRedraw'
  BY <1>0, <1>1, <1>10, <1>11 DEF NotifiedViewsRedraw, ViewsTyped
<1>14. DrawsStale'
  <2>1. stale[w] \cap Shown(f) \subseteq Waiting(bs)
    BY <1>2
  <2>. QED  BY <1>1, <1>2, <1>3, <1>5, <1>6, <1>10, <2>1 DEF DrawsStale, bs
<1>. QED  BY <1>9, <1>12, <1>13, <1>14 DEF VInv

(* The draw ends: the window tracks what it shows, of which nothing was    *)
(* notified since it rendered.                                             *)
LEMMA EndKeeps ==
  ASSUME IInv, VInv, EndDraw
  PROVE  VInv'
<1>. DEFINE w == Draw.win
            f == Draw.next
            bs == Draw.blocks
<1>0. ViewsTyped /\ FramesWhole /\ ShownTracked /\ StaleShown /\ NotifiedViewsRedraw /\ DrawsStale
  BY DEF VInv
<1>1. /\ InDraw /\ Len(bs) = 1 /\ bs[1].plain = <<>> /\ bs[1].cached = {} /\ draws' = Outer
      /\ tracked' = [tracked EXCEPT ![w] = accessed]
      /\ frame' = [frame EXCEPT ![w] = f]
      /\ stale' = [stale EXCEPT ![w] = @ \cap Shown(f)]
      /\ \E moved \in BOOLEAN : Dirtied(IF moved THEN {w} ELSE {})
      /\ UNCHANGED <<views, accessed>>
  BY DEF EndDraw, Current
<1>2. /\ w \in Windows /\ f \in Frames /\ bs \in Seq(Blocks) /\ Sound(f, bs, accessed)
      /\ stale[w] \cap Shown(f) \subseteq Waiting(bs) /\ Outer = <<>>
      /\ \A v : Drawing(v) <=> v = w
  BY <1>0, <1>1, DrawIs DEF DrawsStale
<1>3. Pend(bs[1]) = {}
  BY <1>1 DEF Pend
<1>4. /\ Tree(f) /\ Shown(f) = accessed /\ Waiting(bs) = {} /\ \A u \in f.cached : Whole(f, u)
  BY <1>1, <1>2, <1>3, Ended
<1>. HIDE DEF w, f, bs
<1>5. /\ draws' = <<>> /\ ~InDraw' /\ \A v : ~Drawing(v)'
  BY <1>1, <1>2 DEF InDraw, Drawing
<1>6. dirty' \in [Windows -> BOOLEAN] /\ \A v \in Windows : dirty[v] => dirty'[v]
  BY <1>0, <1>1 DEF Dirtied, ViewsTyped
<1>7. /\ frame' \in [Windows -> Frames] /\ frame'[w] = f
      /\ \A v \in Windows \ {w} : frame'[v] = frame[v]
  BY <1>0, <1>1, <1>2 DEF ViewsTyped
<1>8. /\ stale' \in [Windows -> SUBSET Entities] /\ stale'[w] = {}
      /\ \A v \in Windows \ {w} : stale'[v] = stale[v]
  BY <1>0, <1>1, <1>2, <1>4 DEF ViewsTyped
<1>9. ViewsTyped'
  BY <1>0, <1>1, <1>5, <1>6, <1>7, <1>8 DEF ViewsTyped
<1>10. FramesWhole'
  BY <1>0, <1>4, <1>7 DEF FramesWhole
<1>11. StaleShown'
  BY <1>0, <1>7, <1>8 DEF StaleShown
<1>12. ShownTracked'
  <2>1. tracked'[w] = accessed /\ \A v \in Windows \ {w} : tracked'[v] = tracked[v]
    BY <1>1, <1>2 DEF IInv, MapsTotal
  <2>. QED  BY <1>0, <1>2, <1>4, <1>5, <1>7, <2>1 DEF ShownTracked
<1>13. NotifiedViewsRedraw'
  BY <1>0, <1>1, <1>2, <1>5, <1>6, <1>8 DEF NotifiedViewsRedraw
<1>14. DrawsStale'
  BY <1>5 DEF DrawsStale
<1>. QED  BY <1>9, <1>10, <1>11, <1>12, <1>13, <1>14 DEF VInv

(* Notifying a view on screen finds its window, if it is not being drawn.  *)
LEMMA NotifyKeeps ==
  ASSUME IInv, VInv, NEW e \in Entities, Notify(e)
  PROVE  VInv'
<1>. DEFINE live == {w \in invalidators[e] : e \in tracked[w]}
<1>0. ViewsTyped /\ FramesWhole /\ ShownTracked /\ StaleShown /\ NotifiedViewsRedraw /\ DrawsStale
  BY DEF VInv
<1>1. /\ views' = [w \in Windows |-> views[w] \cup (IF w \in live THEN {e} ELSE {})]
      /\ dirty' = [w \in Windows |-> dirty[w] \/ w \in {v \in live : ~Drawing(v)}]
      /\ stale' = [w \in Windows |->
                      IF e \in Shown(frame[w]) /\ ~Drawing(w) THEN stale[w] \cup {e} ELSE stale[w]]
      /\ UNCHANGED <<frame, tracked, accessed, draws>>
  BY DEF Notify, Dirtied, lookup
<1>2. \A w : Drawing(w)' <=> Drawing(w)
  BY <1>1 DEF Drawing
<1>3. ViewsTyped'
  BY <1>0, <1>1 DEF ViewsTyped
<1>4. FramesWhole' /\ ShownTracked' /\ StaleShown'
  BY <1>0, <1>1, <1>2 DEF FramesWhole, ShownTracked, StaleShown
<1>5. NotifiedViewsRedraw'
  <2>1. ASSUME NEW w \in Windows, ~Drawing(w), stale'[w] # {}
        PROVE  dirty'[w] /\ stale'[w] \subseteq views'[w]
    <3>1. CASE e \in Shown(frame[w])
      <4>1. w \in live
        BY <1>0, <2>1, <3>1 DEF ShownTracked, IInv, TrackedBothWays
      <4>. QED  BY <1>0, <1>1, <2>1, <3>1, <4>1 DEF NotifiedViewsRedraw
    <3>2. CASE e \notin Shown(frame[w])
      BY <1>0, <1>1, <2>1, <3>2 DEF NotifiedViewsRedraw
    <3>. QED  BY <3>1, <3>2
  <2>. QED  BY <1>2, <2>1 DEF NotifiedViewsRedraw
<1>6. DrawsStale'
  <2>1. ASSUME InDraw  PROVE stale'[Draw.win] = stale[Draw.win]
    BY <1>0, <1>1, <2>1, DrawIs
  <2>2. InDraw' = InDraw /\ Draw' = Draw
    BY <1>1 DEF InDraw, Draw
  <2>. QED  BY <1>0, <1>1, <2>1, <2>2 DEF DrawsStale
<1>. QED  BY <1>3, <1>4, <1>5, <1>6 DEF VInv

LEMMA CloseKeepsViews ==
  ASSUME IInv, VInv, NEW w \in Windows, Close(w)
  PROVE  VInv'
<1>0. ViewsTyped /\ FramesWhole /\ ShownTracked /\ StaleShown /\ NotifiedViewsRedraw /\ DrawsStale
  BY DEF VInv
<1>1. /\ ~Drawing(w) /\ UNCHANGED <<accessed, draws>>
      /\ tracked' = [tracked EXCEPT ![w] = {}] /\ dirty' = [dirty EXCEPT ![w] = FALSE]
      /\ views' = [views EXCEPT ![w] = {}] /\ frame' = [frame EXCEPT ![w] = NoFrame]
      /\ stale' = [stale EXCEPT ![w] = {}]
  BY DEF Close
<1>2. /\ NoFrame \in Frames /\ Shown(NoFrame) = {} /\ NoFrame.cached = {}
  BY DEF NoFrame, Frames, Shown
<1>3. ViewsTyped'
  BY <1>0, <1>1, <1>2 DEF ViewsTyped
<1>4. /\ frame'[w] = NoFrame /\ stale'[w] = {}
      /\ \A v \in Windows : v # w => /\ frame'[v] = frame[v] /\ stale'[v] = stale[v]
                                     /\ views'[v] = views[v] /\ dirty'[v] = dirty[v]
                                     /\ tracked'[v] = tracked[v]
  BY <1>0, <1>1 DEF ViewsTyped, IInv, MapsTotal
<1>5. \A v : Drawing(v)' <=> Drawing(v)
  BY <1>1 DEF Drawing
<1>6. FramesWhole' /\ StaleShown'
  BY <1>0, <1>2, <1>4 DEF FramesWhole, StaleShown, Tree
<1>7. ShownTracked' /\ NotifiedViewsRedraw'
  BY <1>0, <1>2, <1>4, <1>5 DEF ShownTracked, NotifiedViewsRedraw
<1>8. DrawsStale'
  <2>1. InDraw' = InDraw /\ Draw' = Draw
    BY <1>1 DEF InDraw, Draw
  <2>2. InDraw => Draw.win # w /\ Draw.win \in Windows
    BY <1>0, <1>1, DrawIs
  <2>. QED  BY <1>0, <1>1, <1>4, <2>1, <2>2 DEF DrawsStale
<1>. QED  BY <1>3, <1>6, <1>7, <1>8 DEF VInv

(* Steps that touch nothing of this, but that windows may become dirty. *)
LEMMA AsideKeeps ==
  ASSUME VInv, UNCHANGED <<views, frame, tracked, accessed, draws, stale>>,
         dirty' \in [Windows -> BOOLEAN], \A w \in Windows : dirty[w] => dirty'[w]
  PROVE  VInv'
<1>0. ViewsTyped /\ FramesWhole /\ ShownTracked /\ StaleShown /\ NotifiedViewsRedraw /\ DrawsStale
  BY DEF VInv
<1>1. \A v : Drawing(v)' <=> Drawing(v)
  BY DEF Drawing
<1>2. ViewsTyped'
  BY <1>0 DEF ViewsTyped
<1>3. FramesWhole' /\ ShownTracked' /\ StaleShown' /\ NotifiedViewsRedraw'
  BY <1>0, <1>1 DEF FramesWhole, ShownTracked, StaleShown, NotifiedViewsRedraw
<1>4. DrawsStale'
  <2>1. InDraw' = InDraw /\ Draw' = Draw
    BY DEF InDraw, Draw
  <2>. QED  BY <1>0, <2>1 DEF DrawsStale
<1>. QED  BY <1>2, <1>3, <1>4 DEF VInv

LEMMA InitViews == Init => VInv
<1>. SUFFICES ASSUME Init  PROVE VInv
  OBVIOUS
<1>1. NoFrame \in Frames /\ Shown(NoFrame) = {} /\ NoFrame.cached = {}
  BY DEF NoFrame, Frames, Shown
<1>2. /\ draws = <<>> /\ accessed = {}
      /\ \A w \in Windows : frame[w] = NoFrame /\ stale[w] = {}
  BY DEF Init
<1>3. ViewsTyped
  BY <1>1 DEF Init, ViewsTyped
<1>4. FramesWhole /\ ShownTracked /\ StaleShown /\ NotifiedViewsRedraw
  BY <1>1, <1>2 DEF FramesWhole, ShownTracked, StaleShown, NotifiedViewsRedraw, Tree
<1>5. DrawsStale
  BY <1>2 DEF DrawsStale, InDraw
<1>. QED  BY <1>3, <1>4, <1>5 DEF VInv

LEMMA NextKeepsViews ==
  ASSUME ~ReadOthers, ~OpenWhileDrawing
  PROVE  IInv /\ VInv /\ [Next]_vars => VInv'
<1>. SUFFICES ASSUME IInv, VInv, [Next]_vars  PROVE VInv'
  OBVIOUS
<1>0. dirty \in [Windows -> BOOLEAN]
  BY DEF VInv, ViewsTyped
<1>1. ASSUME NEW e \in Entities, Notify(e)  PROVE VInv'
  BY <1>1, NotifyKeeps
<1>2. ASSUME NEW w \in Windows, Refresh(w)  PROVE VInv'
  <2>1. /\ dirty' = [v \in Windows |-> dirty[v] \/ v \in {w}]
        /\ UNCHANGED <<views, frame, tracked, accessed, draws, stale>>
    BY <1>2 DEF Refresh, Dirtied, lookup
  <2>. QED  BY <1>0, <2>1, AsideKeeps
<1>3. ASSUME NEW w \in Windows, OnNextFrame(w) \/ RequestFrame(w) \/ Throttle(w) \/ RunCallbacks(w) \/ EndFrame(w)
      PROVE  VInv'
  <2>1. UNCHANGED <<dirty, views, frame, tracked, accessed, draws, stale>>
    BY <1>3 DEF OnNextFrame, RequestFrame, Throttle, RunCallbacks, EndFrame, lookup
  <2>. QED  BY <1>0, <2>1, AsideKeeps
<1>4. ASSUME NEW w \in Windows, Close(w)  PROVE VInv'
  BY <1>4, CloseKeepsViews
<1>5. ASSUME NEW w \in Windows, Open(w)  PROVE VInv'
  BY <1>5, BeginKeeps DEF Open, lookup
<1>6. ASSUME NEW w \in Windows, DrawFrame(w)  PROVE VInv'
  <2>1. /\ ~InDraw /\ UNCHANGED <<frame, tracked, stale>>
        /\ BeginDraw(w) \/ UNCHANGED <<draws, views, dirty, accessed>>
    BY <1>6 DEF DrawFrame, lookup
  <2>. QED  BY <1>0, <2>1, BeginKeeps, AsideKeeps
<1>7. CASE Render
  BY <1>7, RenderKeeps
<1>8. CASE Rerendered
  BY <1>8, RerenderedKeeps
<1>9. CASE EndDraw
  BY <1>9, EndKeeps
<1>10. ASSUME NEW v \in Entities, Reuse(v) \/ Rerender(v)  PROVE VInv'
  BY <1>10, ReuseKeeps, RerenderKeeps
<1>11. CASE UNCHANGED vars
  BY <1>0, <1>11, AsideKeeps DEF vars, lookup
<1>. QED  BY <1>1, <1>2, <1>3, <1>4, <1>5, <1>6, <1>7, <1>8, <1>9, <1>10, <1>11 DEF Next, DrawStep, FrameStep

(* However views are nested, cached, reused and rendered again: a view on  *)
(* screen that was notified since it rendered has its window dirty, with   *)
(* the view to mark (App::notify, mark_view_dirty, reuse_prepaint,         *)
(* detect_accessed_entities).  No view reads another entity, and no window *)
(* is opened out of a draw: with either, it need not hold.                 *)
THEOREM ViewsRedraw ==
  ASSUME ~ReadOthers, ~OpenWhileDrawing
  PROVE  Spec => []NotifiedViewsRedraw
<1>1. Init => IInv /\ VInv
  BY InitMaps, InitViews
<1>2. IInv /\ VInv /\ [Next]_vars => IInv' /\ VInv'
  BY NextKeeps, NextKeepsViews
<1>3. VInv => NotifiedViewsRedraw
  BY DEF VInv
<1>. QED  BY <1>1, <1>2, <1>3, PTL DEF Spec

-----------------------------------------------------------------------------
(* The types *)

(* A frame is a forest of views in which each shown one has the root among *)
(* its ancestors.                                                          *)
Framed(f, w) == f \in Frames /\ Tree(f) /\ WellFormed(f, w)

(* What waits in a block is shown; what is cached there, or has a block of *)
(* its own, is cached in the frame.                                        *)
Noted(f, bs) ==
  /\ bs # <<>>
  /\ \A i \in DOMAIN bs : /\ Pend(bs[i]) \subseteq Shown(f) /\ bs[i].cached \subseteq f.cached
                          /\ i > 1 => bs[i].view \in f.cached

DrawsTyped ==
  /\ draws \in Seq(Draws)
  /\ \A i \in DOMAIN draws : /\ Framed(draws[i].next, draws[i].win)
                             /\ Noted(draws[i].next, draws[i].blocks)

FramesTyped ==
  /\ frame \in [Windows -> Frames] /\ stale \in [Windows -> SUBSET Entities]
  /\ \A w \in Windows : Framed(frame[w], w) /\ stale[w] \subseteq Shown(frame[w])

FlagsTyped ==
  /\ status \in [Windows -> {"unopened", "opening", "open", "closed"}]
  /\ dirty \in [Windows -> BOOLEAN] /\ refreshing \in [Windows -> BOOLEAN]
  /\ callbacks \in [Windows -> BOOLEAN] /\ wake \in [Windows -> BOOLEAN]
  /\ views \in [Windows -> SUBSET Entities]
  /\ tracked \in [Windows -> SUBSET Entities]
  /\ invalidators \in [Entities -> SUBSET Windows]
  /\ accessed \in SUBSET Entities
  /\ serving \in [win : Windows \cup {None}, stage : {"none", "asked", "ran", "drawn"}]

Typed == FlagsTyped /\ FramesTyped /\ DrawsTyped

(* The innermost draw, and those it is nested in. *)
LEMMA InnermostIs ==
  ASSUME DrawsTyped, InDraw
  PROVE  /\ Draw \in Draws /\ Draw.win \in Windows /\ Draw.marked \in SUBSET Entities
         /\ Draw.next \in Frames /\ Draw.blocks \in Seq(Blocks)
         /\ Framed(Draw.next, Draw.win) /\ Noted(Draw.next, Draw.blocks)
         /\ Len(Draw.blocks) \in Nat \ {0} /\ DOMAIN Draw.blocks = 1..Len(Draw.blocks)
         /\ Current \in Blocks
<1>1. draws \in Seq(Draws) /\ draws # <<>> /\ Len(draws) \in DOMAIN draws
  BY EmptySeq DEF DrawsTyped, InDraw
<1>2. Draw \in Draws /\ Framed(Draw.next, Draw.win) /\ Noted(Draw.next, Draw.blocks)
  BY <1>1 DEF DrawsTyped, Draw
<1>3. /\ Draw.win \in Windows /\ Draw.marked \in SUBSET Entities
      /\ Draw.next \in Frames /\ Draw.blocks \in Seq(Blocks)
  BY <1>2 DEF Draws
<1>4. Draw.blocks # <<>>
  BY <1>2 DEF Noted
<1>. QED  BY <1>2, <1>3, <1>4, EmptySeq DEF Current

LEMMA DrawsGoOn ==
  ASSUME DrawsTyped, InDraw, NEW next \in Frames, NEW blocks \in Seq(Blocks),
         Framed(next, Draw.win), Noted(next, blocks), Continue(next, blocks)
  PROVE  DrawsTyped'
<1>. DEFINE d == [Draw EXCEPT !.next = next, !.blocks = blocks]
<1>1. Draw \in Draws /\ draws \in Seq(Draws) /\ draws # <<>>
  BY InnermostIs DEF DrawsTyped, InDraw
<1>2. d \in Draws /\ d.win = Draw.win /\ d.next = next /\ d.blocks = blocks
  BY <1>1 DEF Draws
<1>3. draws' = Append(SubSeq(draws, 1, Len(draws) - 1), d)
  BY DEF Continue, Outer
<1>. HIDE DEF d
<1>4. /\ draws' \in Seq(Draws) /\ Len(draws') = Len(draws) /\ draws'[Len(draws)] = d
      /\ \A i \in 1..Len(draws) - 1 : draws'[i] = draws[i]
  BY <1>1, <1>2, <1>3, LastReplaced
<1>5. ASSUME NEW i \in DOMAIN draws'
      PROVE  Framed(draws'[i].next, draws'[i].win) /\ Noted(draws'[i].next, draws'[i].blocks)
  <2>1. i \in DOMAIN draws /\ (i = Len(draws) \/ i \in 1..Len(draws) - 1)
    BY <1>1, <1>4
  <2>2. CASE i = Len(draws)
    BY <1>2, <1>4, <2>2
  <2>3. CASE i \in 1..Len(draws) - 1
    BY <1>4, <2>1, <2>3 DEF DrawsTyped
  <2>. QED  BY <2>1, <2>2, <2>3
<1>. QED  BY <1>4, <1>5 DEF DrawsTyped

(* More is shown: what was shown keeps its path. *)
LEMMA FrameGrows ==
  ASSUME NEW w \in Windows, NEW f, Framed(f, w), NEW g \in Frames, Tree(g),
         \A x \in Shown(f) : g.up[x] = f.up[x],
         NEW v \in Shown(f), \A x \in Shown(g) \ Shown(f) : v \in ViewPath(g, x),
         \A e \in Entities : g.kept[e] # {} => e \in g.cached
  PROVE  Framed(g, w)
<1>1. Tree(f) /\ \A x \in Shown(f) : Root[w] \in ViewPath(f, x)
  BY DEF Framed, WellFormed
<1>2. \A x \in Shown(f) : Root[w] \in ViewPath(g, x)
  BY <1>1, SubtreesStay
<1>3. ASSUME NEW x \in Shown(g)  PROVE Root[w] \in ViewPath(g, x)
  <2>1. x \in Entities
    BY DEF Shown
  <2>2. CASE x \in Shown(f)
    BY <1>2, <2>2
  <2>3. CASE x \notin Shown(f)
    <3>1. v \in ViewPath(g, x)
      BY <2>3
    <3>2. ViewPath(g, v) \subseteq ViewPath(g, x)
      BY <2>1, <3>1, PathOfAncestor
    <3>. QED  BY <1>2, <3>2
  <2>. QED  BY <2>2, <2>3
<1>. QED  BY <1>3 DEF Framed, WellFormed, Tree

(* A block in place of the last. *)
LEMMA BlockReplaced ==
  ASSUME NEW f, NEW bs \in Seq(Blocks), Noted(f, bs), NEW g, NEW c \in Blocks, NEW cs,
         cs = Append(SubSeq(bs, 1, Len(bs) - 1), c),
         Shown(f) \subseteq Shown(g), f.cached \subseteq g.cached, c.view = bs[Len(bs)].view,
         Pend(c) \subseteq Shown(g), c.cached \subseteq g.cached
  PROVE  cs \in Seq(Blocks) /\ Len(cs) = Len(bs) /\ Noted(g, cs)
<1>1. bs # <<>> /\ Len(bs) \in DOMAIN bs
  BY EmptySeq DEF Noted
<1>2. /\ cs \in Seq(Blocks) /\ cs # <<>> /\ Len(cs) = Len(bs) /\ cs[Len(bs)] = c
      /\ \A i \in 1..Len(bs) - 1 : cs[i] = bs[i]
  BY <1>1, LastReplaced
<1>3. ASSUME NEW i \in DOMAIN cs
      PROVE  /\ Pend(cs[i]) \subseteq Shown(g) /\ cs[i].cached \subseteq g.cached
             /\ i > 1 => cs[i].view \in g.cached
  <2>1. i \in DOMAIN bs /\ (i = Len(bs) \/ i \in 1..Len(bs) - 1)
    BY <1>2
  <2>2. CASE i = Len(bs)
    BY <1>1, <1>2, <2>2 DEF Noted
  <2>3. CASE i \in 1..Len(bs) - 1
    BY <1>2, <2>1, <2>3 DEF Noted
  <2>. QED  BY <2>1, <2>2, <2>3
<1>. QED  BY <1>2, <1>3 DEF Noted

LEMMA BlockShrinks ==
  ASSUME NEW f, NEW bs \in Seq(Blocks), Noted(f, bs), NEW c \in Blocks,
         c.view = bs[Len(bs)].view, Pend(c) \subseteq Shown(f), c.cached \subseteq f.cached
  PROVE  LET cs == Append(SubSeq(bs, 1, Len(bs) - 1), c) IN
           cs \in Seq(Blocks) /\ Len(cs) = Len(bs) /\ Noted(f, cs)
BY BlockReplaced

(* The children that a view embeds are shown below it. *)
LEMMA RenderTyped ==
  ASSUME Typed, Render
  PROVE  Typed'
<1>. DEFINE f == Draw.next
            bs == Draw.blocks
            b == bs[Len(bs)]
            v == Head(b.plain)
            free == Entities \ (Shown(f) \cup {Root[w] : w \in Windows})
<1>0. FlagsTyped /\ FramesTyped /\ DrawsTyped
  BY DEF Typed
<1>1. InDraw /\ b.plain # <<>>
  BY DEF Render, Current
<1>2. /\ f \in Frames /\ bs \in Seq(Blocks) /\ Framed(f, Draw.win) /\ Noted(f, bs)
      /\ Draw.win \in Windows /\ b \in Blocks /\ Len(bs) \in DOMAIN bs
  BY <1>0, <1>1, InnermostIs DEF Current
<1>3. /\ b.plain \in Seq(Entities) /\ b.cached \in SUBSET Entities
      /\ v = b.plain[1] /\ 1 \in DOMAIN b.plain /\ v \in Entities
  BY <1>1, <1>2 DEF Blocks
<1>4a. PICK plain \in SUBSET free :
         \E cached \in SUBSET (free \ plain), order \in SetToSeqs(plain) :
           Continue([f EXCEPT !.up = [e \in Entities |-> IF e \in plain \cup cached THEN v ELSE @[e]],
                              !.cached = @ \cup cached],
                    Within([b EXCEPT !.plain = order \o Tail(@), !.cached = @ \cup cached]))
  BY DEF Render, Current
<1>4. PICK cached \in SUBSET (free \ plain), order \in SetToSeqs(plain) :
        Continue([f EXCEPT !.up = [e \in Entities |-> IF e \in plain \cup cached THEN v ELSE @[e]],
                           !.cached = @ \cup cached],
                 Within([b EXCEPT !.plain = order \o Tail(@), !.cached = @ \cup cached]))
  BY <1>4a
<1>5. PICK reads \in SUBSET Entities : accessed' = accessed \cup {v} \cup reads
  BY DEF Render, Current
<1>6. /\ stale' = [stale EXCEPT ![Draw.win] = @ \ {v}]
      /\ UNCHANGED <<status, dirty, views, refreshing, demand, frame, lookup>>
  BY DEF Render, Current
<1>. DEFINE N == plain \cup cached
            g == [f EXCEPT !.up = [e \in Entities |-> IF e \in N THEN v ELSE @[e]],
                           !.cached = @ \cup cached]
            c == [b EXCEPT !.plain = order \o Tail(@), !.cached = @ \cup cached]
            cs == Within(c)
<1>7. /\ g \in Frames /\ g.cached = f.cached \cup cached /\ g.kept = f.kept
      /\ \A e \in Entities : g.up[e] = IF e \in N THEN v ELSE f.up[e]
  BY <1>2, <1>3 DEF Frames
<1>8. /\ Pend(b) \subseteq Shown(f) /\ v \in Pend(b) /\ b.cached \subseteq f.cached
      /\ Tree(f) /\ \A e \in Entities : f.kept[e] # {} => e \in f.cached
  BY <1>2, <1>3 DEF Noted, Framed, WellFormed, Pend
<1>9. order \in Seq(plain) /\ {order[i] : i \in DOMAIN order} = plain
  BY OrderIs
<1>10. LET q == order \o Tail(b.plain) IN
         /\ q \in Seq(Entities)
         /\ \A i \in DOMAIN q : q[i] \in plain \/ q[i] \in Pend(b)
  <2>. DEFINE p == b.plain
              t == Tail(p)
              q == order \o t
  <2>1. /\ t \in Seq(Entities) /\ Len(t) = Len(p) - 1
        /\ \A i \in 1..Len(t) : t[i] = p[i + 1] /\ i + 1 \in DOMAIN p
    BY <1>1, <1>3
  <2>2. /\ q \in Seq(Entities) /\ Len(q) = Len(order) + Len(t)
        /\ \A i \in 1..Len(order) : q[i] = order[i]
        /\ \A i \in Len(order) + 1..Len(order) + Len(t) : q[i] = t[i - Len(order)]
    BY <1>9, <2>1
  <2>3. \A i \in DOMAIN p : p[i] \in Pend(b)
    BY DEF Pend
  <2>4. Len(order) \in Nat /\ Len(t) \in Nat /\ \A i \in 1..Len(order) : order[i] \in plain
    BY <1>9, <2>1
  <2>. HIDE DEF p, t, q
  <2>5. ASSUME NEW i \in DOMAIN q  PROVE q[i] \in plain \/ q[i] \in Pend(b)
    <3>1. CASE i \in 1..Len(order)
      BY <2>2, <2>4, <3>1
    <3>2. CASE i \notin 1..Len(order)
      <4>1. i \in Len(order) + 1..Len(order) + Len(t) /\ i - Len(order) \in 1..Len(t)
        BY <2>2, <2>4, <3>2
      <4>. QED  BY <2>1, <2>2, <2>3, <4>1
    <3>. QED  BY <3>1, <3>2
  <2>. QED  BY <2>2, <2>5 DEF q, t, p
<1>11. /\ c \in Blocks /\ c.view = b.view /\ c.plain = order \o Tail(b.plain)
       /\ c.cached = b.cached \cup cached
  BY <1>2, <1>10 DEF Blocks
<1>12. cs = Append(SubSeq(bs, 1, Len(bs) - 1), c)
  BY DEF Within
<1>13. Continue(g, cs)
  BY <1>4
<1>. HIDE DEF f, bs, b, v, g, c, cs
<1>14. Pend(c) \subseteq Pend(b) \cup N
  <2>1. \A i \in DOMAIN c.plain : c.plain[i] \in plain \/ c.plain[i] \in Pend(b)
    BY <1>10, <1>11
  <2>2. b.cached \subseteq Pend(b)
    BY DEF Pend
  <2>. QED  BY <1>11, <2>1, <2>2 DEF Pend
<1>15. /\ Shown(g) = Shown(f) \cup N /\ N \subseteq Entities /\ N \cap Shown(f) = {}
       /\ \A x \in Shown(f) : g.up[x] = f.up[x]
       /\ \A x \in N : g.up[x] = v
  BY <1>3, <1>7, NoneAssumption DEF Shown
<1>16. Tree(g)
  BY <1>7, <1>8, <1>15 DEF Tree
<1>17. \A x \in N : v \in ViewPath(g, x)
  BY <1>3, <1>15, PathIs DEF HasParents
<1>18. Framed(g, Draw.win)
  <2>1. v \in Shown(f) /\ \A x \in Shown(g) \ Shown(f) : v \in ViewPath(g, x)
    BY <1>8, <1>15, <1>17
  <2>2. \A e \in Entities : g.kept[e] # {} => e \in g.cached
    BY <1>7, <1>8
  <2>. HIDE DEF N
  <2>. QED  BY <1>2, <1>7, <1>15, <1>16, <2>1, <2>2, FrameGrows
<1>19. cs \in Seq(Blocks) /\ Noted(g, cs)
  <2>1. Shown(f) \subseteq Shown(g) /\ f.cached \subseteq g.cached /\ c.view = bs[Len(bs)].view
    BY <1>7, <1>11, <1>15 DEF b
  <2>2. Pend(c) \subseteq Shown(g) /\ c.cached \subseteq g.cached
    BY <1>7, <1>8, <1>11, <1>14, <1>15
  <2>. QED  BY <1>2, <1>11, <1>12, <2>1, <2>2, BlockReplaced
<1>20. DrawsTyped'
  BY <1>0, <1>1, <1>7, <1>13, <1>18, <1>19, DrawsGoOn
<1>21. FramesTyped'
  BY <1>0, <1>2, <1>6 DEF FramesTyped
<1>22. FlagsTyped'
  BY <1>0, <1>3, <1>5, <1>6 DEF FlagsTyped, demand, lookup
<1>. QED  BY <1>20, <1>21, <1>22 DEF Typed

(* A subtree that is taken over is below where its view is now.            *)
LEMMA ReuseTyped ==
  ASSUME Typed, NEW v \in Entities, Reuse(v)
  PROVE  Typed'
<1>. DEFINE f == Draw.next
            R == frame[Draw.win]
            bs == Draw.blocks
            b == bs[Len(bs)]
            sub == Subtree(R, v)
            g == [up |-> [e \in Entities |-> IF e \in sub THEN R.up[e] ELSE f.up[e]],
                  cached |-> f.cached \cup (R.cached \cap sub),
                  kept |-> [e \in Entities |-> IF e \in sub THEN R.kept[e] ELSE f.kept[e]]]
            c == [b EXCEPT !.cached = @ \ {v}]
            cs == Within(c)
<1>0. FlagsTyped /\ FramesTyped /\ DrawsTyped
  BY DEF Typed
<1>1. /\ InDraw /\ v \in b.cached /\ v \in R.cached
      /\ \A x \in ViewPath(f, v) : R.up[x] = f.up[x]
      /\ (sub \ {v}) \cap Shown(f) = {} /\ Continue(g, cs)
      /\ accessed' = accessed \cup R.kept[v]
      /\ UNCHANGED <<status, dirty, views, refreshing, demand, frame, lookup, stale>>
  BY DEF Reuse, Reusable, SamePlace, Current, Rendered
<1>2. /\ f \in Frames /\ bs \in Seq(Blocks) /\ Framed(f, Draw.win) /\ Noted(f, bs)
      /\ Draw.win \in Windows /\ b \in Blocks /\ Len(bs) \in DOMAIN bs
  BY <1>0, <1>1, InnermostIs DEF Current
<1>3. R \in Frames /\ Framed(R, Draw.win)
  BY <1>0, <1>2 DEF FramesTyped
<1>4. /\ Tree(f) /\ Tree(R)
      /\ \A e \in Entities : /\ f.kept[e] # {} => e \in f.cached
                             /\ R.kept[e] # {} => e \in R.cached
  BY <1>2, <1>3 DEF Framed, WellFormed
<1>5. v \in Shown(f) /\ Pend(b) \subseteq Shown(f) /\ b.cached \subseteq f.cached
  BY <1>1, <1>2 DEF Noted, Pend
<1>6. /\ g \in Frames /\ g.cached = f.cached \cup (R.cached \cap sub)
      /\ \A e \in Entities : /\ g.up[e] = IF e \in sub THEN R.up[e] ELSE f.up[e]
                             /\ g.kept[e] = IF e \in sub THEN R.kept[e] ELSE f.kept[e]
  BY <1>2, <1>3 DEF Frames
<1>7. /\ c \in Blocks /\ c.view = b.view /\ c.plain = b.plain /\ c.cached = b.cached \ {v}
  BY <1>2 DEF Blocks
<1>8. cs = Append(SubSeq(bs, 1, Len(bs) - 1), c)
  BY DEF Within
<1>9. v \in sub /\ sub \subseteq Shown(R) /\ sub \subseteq Entities
  BY <1>1, <1>4, PathIs DEF Subtree, Tree, Shown
<1>. HIDE DEF f, R, bs, b, g, c, cs, sub
<1>10. sub \cap Shown(f) = {v} /\ R.up[v] = f.up[v]
  BY <1>1, <1>5, <1>9, PathIs
<1>11. /\ Shown(g) = Shown(f) \cup sub
       /\ \A x \in Shown(f) : g.up[x] = f.up[x]
  <2>1. \A x \in Shown(f) : g.up[x] = f.up[x]
    BY <1>6, <1>10 DEF Shown
  <2>. QED  BY <1>6, <1>9, <2>1 DEF Shown
<1>12. ASSUME NEW x \in sub \ {v}  PROVE R.up[x] \in sub
  <2>1. x \in Shown(R) /\ x \in Entities /\ v \in ViewPath(R, x)
    BY <1>9 DEF sub, Subtree
  <2>2. R.up[x] \in Entities
    BY <2>1, PathOfRoot
  <2>3. v \in ViewPath(R, R.up[x])
    BY <2>1, <2>2, PathStep
  <2>4. R.up[x] \in Shown(R)
    BY <1>4, <2>1, <2>2, KindsAssumption DEF Tree
  <2>. QED  BY <2>3, <2>4 DEF sub, Subtree
<1>13. Tree(g)
  <2>1. ASSUME NEW x \in Shown(g)  PROVE g.up[x] \in Shown(g) \cup Windows
    <3>1. CASE x \in Shown(f)
      BY <1>4, <1>11, <3>1 DEF Tree
    <3>2. CASE x \notin Shown(f)
      <4>1. x \in sub \ {v}
        BY <1>5, <1>11, <3>2
      <4>. QED  BY <1>6, <1>9, <1>11, <1>12, <4>1
    <3>. QED  BY <3>1, <3>2
  <2>2. g.cached \subseteq Shown(g)
    BY <1>4, <1>6, <1>11 DEF Tree
  <2>. QED  BY <2>1, <2>2 DEF Tree
<1>14. ASSUME NEW x \in Shown(g) \ Shown(f)  PROVE v \in ViewPath(g, x)
  <2>. DEFINE S == ViewPath(g, x)
  <2>1. x \in sub /\ x \in Entities
    BY <1>9, <1>11
  <2>2. S \subseteq Entities /\ x \in S /\ HasParents(g, S)
    BY <2>1, PathIs
  <2>3. SUFFICES ASSUME v \notin S  PROVE FALSE
    OBVIOUS
  <2>. HIDE DEF S
  <2>4. HasParents(R, S \cap sub)
    <3>1. ASSUME NEW y \in S \cap sub, R.up[y] \in Entities  PROVE R.up[y] \in S \cap sub
      <4>1. R.up[y] \in sub
        BY <1>12, <2>3
      <4>2. g.up[y] = R.up[y]
        BY <1>6, <1>9
      <4>. QED  BY <2>2, <3>1, <4>1, <4>2 DEF HasParents
    <3>. QED  BY <3>1 DEF HasParents
  <2>5. v \in ViewPath(R, x)
    BY <2>1 DEF sub, Subtree
  <2>6. S \cap sub \in SUBSET Entities /\ x \in S \cap sub
    BY <2>1, <2>2
  <2>7. v \in S \cap sub
    BY <2>1, <2>4, <2>5, <2>6, PathIs
  <2>. QED  BY <2>3, <2>7
<1>15. Framed(g, Draw.win)
  <2>1. \A e \in Entities : g.kept[e] # {} => e \in g.cached
    BY <1>4, <1>6
  <2>. QED  BY <1>2, <1>5, <1>6, <1>11, <1>13, <1>14, <2>1, FrameGrows
<1>16. cs \in Seq(Blocks) /\ Noted(g, cs)
  <2>1. Shown(f) \subseteq Shown(g) /\ f.cached \subseteq g.cached /\ c.view = bs[Len(bs)].view
    BY <1>6, <1>7, <1>11 DEF b
  <2>2. Pend(c) \subseteq Pend(b)
    BY <1>7 DEF Pend
  <2>3. Pend(c) \subseteq Shown(g) /\ c.cached \subseteq g.cached
    BY <1>5, <1>6, <1>7, <1>11, <2>2
  <2>. QED  BY <1>2, <1>7, <1>8, <2>1, <2>3, BlockReplaced
<1>17. DrawsTyped'
  BY <1>0, <1>1, <1>6, <1>15, <1>16, DrawsGoOn
<1>18. R.kept[v] \in SUBSET Entities
  BY <1>3 DEF Frames
<1>19. FramesTyped'
  BY <1>0, <1>1 DEF FramesTyped
<1>20. FlagsTyped'
  BY <1>0, <1>1, <1>18 DEF FlagsTyped, demand, lookup
<1>. QED  BY <1>17, <1>19, <1>20 DEF Typed

(* A block of its own for a cached view. *)
LEMMA RerenderTyped ==
  ASSUME Typed, NEW v \in Entities, Rerender(v)
  PROVE  Typed'
<1>. DEFINE f == Draw.next
            bs == Draw.blocks
            n == Len(bs)
            b == bs[n]
            c == [b EXCEPT !.cached = @ \ {v}]
            q == Within(c)
            d == Block(v, accessed)
            cs == Append(q, d)
<1>0. FlagsTyped /\ FramesTyped /\ DrawsTyped
  BY DEF Typed
<1>1. /\ InDraw /\ v \in b.cached /\ Continue(f, cs)
      /\ UNCHANGED <<status, dirty, views, refreshing, demand, frame, lookup, accessed, stale>>
  BY DEF Rerender, Current
<1>2. /\ f \in Frames /\ bs \in Seq(Blocks) /\ Framed(f, Draw.win) /\ Noted(f, bs)
      /\ b \in Blocks /\ n \in DOMAIN bs /\ n \in Nat \ {0}
  BY <1>0, <1>1, InnermostIs DEF Current
<1>3. Pend(b) \subseteq Shown(f) /\ b.cached \subseteq f.cached
  BY <1>2 DEF Noted
<1>4. /\ c \in Blocks /\ c.view = b.view /\ c.plain = b.plain /\ c.cached = b.cached \ {v}
  BY <1>2 DEF Blocks
<1>5. /\ d \in Blocks /\ d.view = v /\ d.plain = <<v>> /\ d.cached = {}
  BY <1>0 DEF Blocks, Block, FlagsTyped
<1>6. q = Append(SubSeq(bs, 1, n - 1), c)
  BY DEF Within
<1>. HIDE DEF f, bs, n, b, c, q, d
<1>7. Pend(c) \subseteq Pend(b) /\ Pend(d) = {v} /\ v \in Pend(b)
  BY <1>1, <1>4, <1>5 DEF Pend
<1>8. q \in Seq(Blocks) /\ Len(q) = n /\ Noted(f, q)
  <2>1. c.view = bs[Len(bs)].view /\ q = Append(SubSeq(bs, 1, Len(bs) - 1), c)
    BY <1>4, <1>6 DEF b, n
  <2>2. Pend(c) \subseteq Shown(f) /\ c.cached \subseteq f.cached
    BY <1>3, <1>4, <1>7
  <2>3. bs \in Seq(Blocks) /\ Noted(f, bs) /\ c \in Blocks
    BY <1>2, <1>4
  <2>4. q \in Seq(Blocks) /\ Len(q) = Len(bs) /\ Noted(f, q)
    BY <2>1, <2>2, <2>3, BlockShrinks
  <2>. QED  BY <2>4 DEF n
<1>9. /\ cs \in Seq(Blocks) /\ cs # <<>> /\ DOMAIN cs = 1..n + 1
      /\ cs[n + 1] = d /\ \A i \in 1..n : cs[i] = q[i]
  BY <1>5, <1>8, AppendProperties
<1>. HIDE DEF cs
<1>10. Noted(f, cs)
  <2>1. ASSUME NEW i \in DOMAIN cs
        PROVE  /\ Pend(cs[i]) \subseteq Shown(f) /\ cs[i].cached \subseteq f.cached
               /\ i > 1 => cs[i].view \in f.cached
    <3>1. CASE i = n + 1
      BY <1>1, <1>3, <1>5, <1>7, <1>9, <3>1
    <3>2. CASE i # n + 1
      <4>1. i \in 1..n /\ i \in DOMAIN q
        BY <1>2, <1>8, <1>9, <3>2
      <4>. QED  BY <1>8, <1>9, <4>1 DEF Noted
    <3>. QED  BY <3>1, <3>2
  <2>. QED  BY <1>9, <2>1 DEF Noted
<1>11. DrawsTyped'
  BY <1>0, <1>1, <1>2, <1>9, <1>10, DrawsGoOn
<1>12. FramesTyped' /\ FlagsTyped'
  BY <1>0, <1>1 DEF FramesTyped, FlagsTyped, demand, lookup
<1>. QED  BY <1>11, <1>12 DEF Typed

(* Only a cached view has kept what was accessed. *)
LEMMA RerenderedTyped ==
  ASSUME Typed, Rerendered
  PROVE  Typed'
<1>. DEFINE f == Draw.next
            bs == Draw.blocks
            n == Len(bs)
            b == bs[n]
            g == [f EXCEPT !.kept[b.view] = accessed \ b.start]
            cs == SubSeq(bs, 1, n - 1)
<1>0. FlagsTyped /\ FramesTyped /\ DrawsTyped
  BY DEF Typed
<1>1. /\ InDraw /\ n > 1 /\ Continue(g, cs)
      /\ UNCHANGED <<status, dirty, views, refreshing, demand, frame, lookup, accessed, stale>>
  BY DEF Rerendered, Current
<1>2. /\ f \in Frames /\ bs \in Seq(Blocks) /\ Framed(f, Draw.win) /\ Noted(f, bs)
      /\ b \in Blocks /\ n \in DOMAIN bs /\ n \in Nat \ {0} /\ DOMAIN bs = 1..n
  BY <1>0, <1>1, InnermostIs DEF Current
<1>3. b.view \in Entities /\ accessed \in SUBSET Entities /\ b.view \in f.cached
  BY <1>0, <1>1, <1>2 DEF Blocks, FlagsTyped, Noted
<1>4. /\ g \in Frames /\ g.up = f.up /\ g.cached = f.cached
      /\ \A u \in Entities : u # b.view => g.kept[u] = f.kept[u]
  BY <1>2, <1>3 DEF Frames
<1>5. /\ cs \in Seq(Blocks) /\ cs # <<>> /\ Len(cs) = n - 1
      /\ \A i \in 1..n - 1 : cs[i] = bs[i]
  BY <1>1, <1>2, LastRemoved
<1>. HIDE DEF f, bs, n, b, g, cs
<1>6. Shown(g) = Shown(f) /\ \A e \in Entities : ViewPath(g, e) = ViewPath(f, e)
  BY <1>4 DEF Shown, ViewPath, HasParents
<1>7. Framed(g, Draw.win)
  <2>1. \A e \in Shown(g) : e \in Entities
    BY DEF Shown
  <2>. QED  BY <1>2, <1>3, <1>4, <1>6, <2>1 DEF Framed, Tree, WellFormed
<1>8. Noted(g, cs)
  <2>1. \A i \in DOMAIN cs : i \in DOMAIN bs /\ cs[i] = bs[i]
    BY <1>2, <1>5
  <2>. QED  BY <1>2, <1>4, <1>5, <1>6, <2>1 DEF Noted
<1>9. DrawsTyped'
  BY <1>0, <1>1, <1>4, <1>5, <1>7, <1>8, DrawsGoOn
<1>10. FramesTyped' /\ FlagsTyped'
  BY <1>0, <1>1 DEF FramesTyped, FlagsTyped, demand, lookup
<1>. QED  BY <1>9, <1>10 DEF Typed

LEMMA NothingShown ==
  ASSUME NEW w \in Windows
  PROVE  Framed(NoFrame, w) /\ Shown(NoFrame) = {}
BY DEF Framed, Tree, WellFormed, NoFrame, Frames, Shown

(* A draw begins with the root. *)
LEMMA BeginTyped ==
  ASSUME Typed, NEW w \in Windows, BeginDraw(w)
  PROVE  DrawsTyped' /\ views' \in [Windows -> SUBSET Entities]
         /\ dirty' \in [Windows -> BOOLEAN] /\ accessed' \in SUBSET Entities
<1>. DEFINE f == [NoFrame EXCEPT !.up[Root[w]] = w]
            bs == <<Block(Root[w], {})>>
            d == [win |-> w, marked |-> Marked(w), next |-> f, blocks |-> bs]
<1>0. FlagsTyped /\ FramesTyped /\ DrawsTyped
  BY DEF Typed
<1>1. draws' = Append(draws, d) /\ accessed' = {}
  BY DEF BeginDraw
<1>2. /\ views' \in [Windows -> SUBSET Entities] /\ dirty' \in [Windows -> BOOLEAN]
  BY <1>0 DEF BeginDraw, FlagsTyped
<1>3. Root[w] \in Entities /\ w # None /\ w \notin Entities
  BY RootAssumption, NoneAssumption, KindsAssumption
<1>4. /\ f \in Frames /\ f.cached = {} /\ f.up[Root[w]] = w
      /\ \A e \in Entities : f.kept[e] = {} /\ (e # Root[w] => f.up[e] = None)
  BY <1>3 DEF NoFrame, Frames
<1>5. /\ bs \in Seq(Blocks) /\ bs # <<>> /\ DOMAIN bs = {1}
      /\ bs[1].plain = <<Root[w]>> /\ bs[1].cached = {}
  BY <1>3 DEF Block, Blocks
<1>6. Marked(w) \in SUBSET Entities
  BY <1>0, PathIs DEF Marked, FlagsTyped
<1>7. d \in Draws /\ d.next = f /\ d.win = w /\ d.blocks = bs
  BY <1>4, <1>5, <1>6 DEF Draws
<1>. HIDE DEF f, bs, d
<1>8. Shown(f) = {Root[w]}
  BY <1>3, <1>4 DEF Shown
<1>9. Framed(f, w)
  BY <1>3, <1>4, <1>8, PathIs DEF Framed, Tree, WellFormed
<1>10. Noted(f, bs)
  <2>1. Pend(bs[1]) = {Root[w]}
    BY <1>5 DEF Pend
  <2>. QED  BY <1>4, <1>5, <1>8, <2>1 DEF Noted
<1>11. draws \in Seq(Draws)
  BY <1>0 DEF DrawsTyped
<1>12. /\ draws' \in Seq(Draws) /\ Len(draws') = Len(draws) + 1 /\ Len(draws) \in Nat
       /\ draws'[Len(draws) + 1] = d /\ \A i \in 1..Len(draws) : draws'[i] = draws[i]
  BY <1>1, <1>7, <1>11, AppendProperties
<1>13. ASSUME NEW i \in DOMAIN draws'
       PROVE  Framed(draws'[i].next, draws'[i].win) /\ Noted(draws'[i].next, draws'[i].blocks)
  <2>1. CASE i = Len(draws) + 1
    BY <1>7, <1>9, <1>10, <1>12, <2>1
  <2>2. CASE i # Len(draws) + 1
    <3>1. i \in 1..Len(draws) /\ i \in DOMAIN draws
      BY <1>11, <1>12, <2>2
    <3>. QED  BY <1>0, <1>12, <3>1 DEF DrawsTyped
  <2>. QED  BY <2>1, <2>2
<1>14. DrawsTyped'
  BY <1>12, <1>13 DEF DrawsTyped
<1>. QED  BY <1>1, <1>2, <1>14

LEMMA OpenTyped ==
  ASSUME Typed, NEW w \in Windows, Open(w)
  PROVE  Typed'
<1>0. FlagsTyped /\ FramesTyped /\ DrawsTyped
  BY DEF Typed
<1>1. /\ status' = [status EXCEPT ![w] = "opening"] /\ wake' = [wake EXCEPT ![w] = TRUE]
      /\ BeginDraw(w) /\ UNCHANGED <<refreshing, callbacks, serving, frame, lookup, stale>>
  BY DEF Open
<1>2. /\ DrawsTyped' /\ views' \in [Windows -> SUBSET Entities]
      /\ dirty' \in [Windows -> BOOLEAN] /\ accessed' \in SUBSET Entities
  BY <1>1, BeginTyped
<1>3. FlagsTyped'
  BY <1>0, <1>1, <1>2 DEF FlagsTyped, lookup
<1>4. FramesTyped'
  BY <1>0, <1>1 DEF FramesTyped
<1>. QED  BY <1>2, <1>3, <1>4 DEF Typed

(* The frame that was drawn is what is rendered. *)
LEMMA EndTyped ==
  ASSUME Typed, EndDraw
  PROVE  Typed'
<1>. DEFINE w == Draw.win
            f == Draw.next
<1>0. FlagsTyped /\ FramesTyped /\ DrawsTyped
  BY DEF Typed
<1>1. /\ InDraw /\ draws' = Outer
      /\ tracked' = [tracked EXCEPT ![w] = accessed]
      /\ invalidators' = Recorded(w)
      /\ frame' = [frame EXCEPT ![w] = f]
      /\ stale' = [stale EXCEPT ![w] = @ \cap Shown(f)]
      /\ status' = [status EXCEPT ![w] = "open"]
      /\ \E moved \in BOOLEAN : /\ refreshing' = [refreshing EXCEPT ![w] = moved]
                                /\ Dirtied(IF moved THEN {w} ELSE {})
      /\ UNCHANGED <<views, callbacks, serving, accessed>>
  BY DEF EndDraw
<1>2. w \in Windows /\ f \in Frames /\ Framed(f, w)
  BY <1>0, <1>1, InnermostIs
<1>. HIDE DEF w, f
<1>3. DrawsTyped'
  <2>1. draws \in Seq(Draws) /\ draws # <<>> /\ Len(draws) \in Nat
    BY <1>0, <1>1 DEF DrawsTyped, InDraw
  <2>2. /\ draws' \in Seq(Draws) /\ Len(draws') = Len(draws) - 1
        /\ \A i \in 1..Len(draws) - 1 : draws'[i] = draws[i]
    BY <1>1, <2>1, FirstOfSeq DEF Outer
  <2>3. \A i \in DOMAIN draws' : i \in DOMAIN draws /\ draws'[i] = draws[i]
    BY <2>1, <2>2
  <2>. QED  BY <1>0, <2>2, <2>3 DEF DrawsTyped
<1>4. FramesTyped'
  <2>1. /\ frame' \in [Windows -> Frames] /\ stale' \in [Windows -> SUBSET Entities]
        /\ frame'[w] = f /\ stale'[w] \subseteq Shown(f)
        /\ \A v \in Windows : v # w => frame'[v] = frame[v] /\ stale'[v] = stale[v]
    BY <1>0, <1>1, <1>2 DEF FramesTyped
  <2>. QED  BY <1>0, <1>2, <2>1 DEF FramesTyped
<1>5. dirty' \in [Windows -> BOOLEAN] /\ wake' \in [Windows -> BOOLEAN]
      /\ refreshing' \in [Windows -> BOOLEAN]
  BY <1>0, <1>1, <1>2 DEF FlagsTyped, Dirtied
<1>6. invalidators' \in [Entities -> SUBSET Windows]
  BY <1>0, <1>1, <1>2 DEF FlagsTyped, Recorded, Forgotten
<1>7. FlagsTyped'
  BY <1>0, <1>1, <1>2, <1>5, <1>6 DEF FlagsTyped
<1>. QED  BY <1>3, <1>4, <1>7 DEF Typed

(* User code between the steps of draws. *)
LEMMA NotifyTyped ==
  ASSUME Typed, NEW e \in Entities, Notify(e)
  PROVE  Typed'
<1>0. FlagsTyped /\ FramesTyped /\ DrawsTyped
  BY DEF Typed
<1>1. FlagsTyped'
  BY <1>0 DEF Notify, Dirtied, FlagsTyped, lookup
<1>2. FramesTyped'
  <2>1. /\ frame' = frame
        /\ stale' = [w \in Windows |->
                       IF e \in Shown(frame[w]) /\ ~Drawing(w) THEN stale[w] \cup {e} ELSE stale[w]]
    BY DEF Notify
  <2>. QED  BY <1>0, <2>1 DEF FramesTyped
<1>3. DrawsTyped'
  BY <1>0 DEF Notify, DrawsTyped
<1>. QED  BY <1>1, <1>2, <1>3 DEF Typed

LEMMA CloseTyped ==
  ASSUME Typed, NEW w \in Windows, Close(w)
  PROVE  Typed'
<1>0. FlagsTyped /\ FramesTyped /\ DrawsTyped
  BY DEF Typed
<1>1. FlagsTyped'
  <2>1. invalidators' \in [Entities -> SUBSET Windows]
    BY <1>0 DEF Close, Forgotten, FlagsTyped
  <2>. QED  BY <1>0, <2>1 DEF Close, FlagsTyped
<1>2. FramesTyped'
  <2>1. frame' = [frame EXCEPT ![w] = NoFrame] /\ stale' = [stale EXCEPT ![w] = {}]
    BY DEF Close
  <2>2. NoFrame \in Frames /\ Framed(NoFrame, w)
    BY NothingShown DEF Framed
  <2>. QED  BY <1>0, <2>1, <2>2 DEF FramesTyped
<1>3. DrawsTyped'
  BY <1>0 DEF Close, DrawsTyped
<1>. QED  BY <1>1, <1>2, <1>3 DEF Typed

(* Steps that leave frames and draws alone. *)
LEMMA FlagsKeep ==
  ASSUME Typed, UNCHANGED <<frame, draws, stale>>, FlagsTyped'
  PROVE  Typed'
BY DEF Typed, FramesTyped, DrawsTyped

LEMMA TypedAtFirst == Init => Typed
<1>. SUFFICES ASSUME Init  PROVE Typed
  OBVIOUS
<1>1. FlagsTyped
  BY DEF Init, FlagsTyped
<1>2. FramesTyped
  <2>1. \A w \in Windows : NoFrame \in Frames /\ Framed(NoFrame, w)
    BY NothingShown DEF Framed
  <2>. QED  BY <2>1 DEF Init, FramesTyped
<1>3. DrawsTyped
  BY DEF Init, DrawsTyped
<1>. QED  BY <1>1, <1>2, <1>3 DEF Typed

LEMMA TypedKeeps == Typed /\ [Next]_vars => Typed'
<1>. SUFFICES ASSUME Typed, [Next]_vars  PROVE Typed'
  OBVIOUS
<1>0. FlagsTyped
  BY DEF Typed
<1>1. ASSUME NEW e \in Entities, Notify(e)  PROVE Typed'
  BY <1>1, NotifyTyped
<1>2. ASSUME NEW w \in Windows, Refresh(w)  PROVE Typed'
  <2>1. FlagsTyped'
    BY <1>0, <1>2 DEF Refresh, Dirtied, FlagsTyped, lookup
  <2>. QED  BY <1>2, <2>1, FlagsKeep DEF Refresh
<1>3. ASSUME NEW w \in Windows, OnNextFrame(w)  PROVE Typed'
  <2>1. FlagsTyped'
    BY <1>0, <1>3 DEF OnNextFrame, FlagsTyped, lookup
  <2>. QED  BY <1>3, <2>1, FlagsKeep DEF OnNextFrame
<1>4. ASSUME NEW w \in Windows, Close(w)  PROVE Typed'
  BY <1>4, CloseTyped
<1>5. ASSUME NEW w \in Windows, Open(w)  PROVE Typed'
  BY <1>5, OpenTyped
<1>6. CASE DrawStep
  BY <1>6, RenderTyped, RerenderedTyped, EndTyped, ReuseTyped, RerenderTyped DEF DrawStep
<1>7. ASSUME NEW w \in Windows, RequestFrame(w) \/ Throttle(w) \/ RunCallbacks(w) \/ EndFrame(w)
      PROVE  Typed'
  <2>1. wake' \in [Windows -> BOOLEAN] /\ callbacks' \in [Windows -> BOOLEAN]
    <3>1. CASE RequestFrame(w)
      BY <1>0, <3>1 DEF RequestFrame, FlagsTyped
    <3>2. CASE Throttle(w)
      BY <1>0, <3>2 DEF Throttle, FlagsTyped
    <3>3. CASE RunCallbacks(w)
      BY <1>0, <3>3 DEF RunCallbacks, FlagsTyped
    <3>4. CASE EndFrame(w)
      <4>1. wake[w] \/ dirty[w] \/ callbacks[w] \in BOOLEAN
        BY <1>0 DEF FlagsTyped
      <4>. QED  BY <1>0, <3>4, <4>1 DEF EndFrame, FlagsTyped
    <3>. QED  BY <1>7, <3>1, <3>2, <3>3, <3>4
  <2>2. serving' \in [win : Windows \cup {None}, stage : {"none", "asked", "ran", "drawn"}]
    BY <1>7 DEF RequestFrame, Throttle, RunCallbacks, EndFrame, Serve, Idle
  <2>3. UNCHANGED <<status, dirty, views, refreshing, tracked, invalidators, accessed>>
    BY <1>7 DEF RequestFrame, Throttle, RunCallbacks, EndFrame, lookup
  <2>4. FlagsTyped'
    BY <1>0, <2>1, <2>2, <2>3 DEF FlagsTyped
  <2>. QED  BY <1>7, <2>4, FlagsKeep DEF RequestFrame, Throttle, RunCallbacks, EndFrame
<1>8. ASSUME NEW w \in Windows, DrawFrame(w)  PROVE Typed'
  <2>1. /\ serving' = [win |-> w, stage |-> "drawn"]
        /\ BeginDraw(w) \/ UNCHANGED <<draws, views, dirty, accessed>>
        /\ UNCHANGED <<status, refreshing, callbacks, wake, frame, lookup, stale>>
    BY <1>8 DEF DrawFrame, Serve
  <2>2. /\ DrawsTyped' /\ views' \in [Windows -> SUBSET Entities]
        /\ dirty' \in [Windows -> BOOLEAN] /\ accessed' \in SUBSET Entities
    <3>1. CASE BeginDraw(w)
      BY <3>1, BeginTyped
    <3>2. CASE UNCHANGED <<draws, views, dirty, accessed>>
      BY <3>2 DEF Typed, FlagsTyped, DrawsTyped
    <3>. QED  BY <2>1, <3>1, <3>2
  <2>3. FlagsTyped' /\ FramesTyped'
    BY <2>1, <2>2 DEF Typed, FlagsTyped, FramesTyped, lookup
  <2>. QED  BY <2>2, <2>3 DEF Typed
<1>9. CASE UNCHANGED vars
  <2>1. FlagsTyped'
    BY <1>0, <1>9 DEF FlagsTyped, vars, demand, lookup
  <2>. QED  BY <1>9, <2>1, FlagsKeep DEF vars
<1>. QED  BY <1>1, <1>2, <1>3, <1>4, <1>5, <1>6, <1>7, <1>8, <1>9 DEF Next, FrameStep

(* However draws nest and whatever views read: in every frame, and in each *)
(* draw in progress, a view shown has the window's root among its          *)
(* ancestors, and only cached views that are shown keep what they accessed *)
(* (reuse_prepaint, detect_accessed_entities).                             *)
THEOREM TypeCorrect == Spec => []TypeOK
<1>1. Typed => TypeOK
  BY DEF Typed, FlagsTyped, FramesTyped, DrawsTyped, Framed, TypeOK
<1>. QED  BY <1>1, TypedAtFirst, TypedKeeps, PTL DEF Spec

===============================================================================
