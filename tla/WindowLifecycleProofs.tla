------------------------ MODULE WindowLifecycleProofs ------------------------
(***************************************************************************)
(* Theorems about WindowLifecycle for any windows, any numbers of          *)
(* observers and programs of any length: where a window is, and how many   *)
(* updates are in progress, under any nesting of calls.                    *)
(***************************************************************************)
EXTENDS WindowLifecycle, FiniteSetTheorems, SequenceTheorems, WellFoundedInduction, TLAPS

Kinds == UserCode \cup Updates \cup Announcing \cup {"flush", "drain"}
Frames == [at : Kinds, win : Windows \cup {NoWindow}, todo : SUBSET Nat]
Effects == [kind : {"deferred", "created"}, win : Windows \cup {NoWindow}]
Counted == Updates \cup {"flush"}

(* What is not about the stack. *)
Plain ==
  /\ slot \in [Windows -> {"new", "empty", "filled", "gone"}]
  /\ removed \cup closed \cup unheard \subseteq Windows
  /\ quitMode \in {"last", "explicit"} /\ quit \in BOOLEAN /\ panicked \in BOOLEAN
  /\ effects \in Seq(Effects)
  /\ fuel \in 0..MaxOps

Framed ==
  /\ stack \in Seq(Frames)
  /\ \A i \in DOMAIN stack : stack[i].at \in Holding => stack[i].win \in Windows

(* A call that has a window found it in its slot, and is alone to have it. *)
Held ==
  /\ \A i \in Calls(Holding) : slot[stack[i].win] = "empty"
  /\ \A i, j \in Calls(Holding) : stack[i].win = stack[j].win => i = j
  /\ \A w \in Windows : slot[w] = "empty" => \E i \in Calls(Holding) : stack[i].win = w

Handled ==
  handles = {w \in Windows : \/ slot[w] = "filled"
                             \/ \E i \in Calls({"window"}) : stack[i].win = w}

(* A flush is the only one, with no window in hand under it; shutdown is   *)
(* at the bottom of the stack.                                             *)
Bottomed ==
  /\ \A i, j \in Calls({"flush"}) : i = j
  /\ \A i \in Calls({"quit", "drain"}) : i = 1
  /\ \A i \in Calls({"flush"}) : \A j \in 1..i - 1 : stack[j].at \notin Holding

CountsRight ==
  /\ flushing = (Calls({"flush"}) # {})
  /\ pendingUpdates = Cardinality(Calls(Counted))

IInv == Plain /\ Framed /\ Held /\ Handled /\ Bottomed /\ CountsRight

-----------------------------------------------------------------------------
(* The greatest of a finite set of numbers: the one with the least to      *)
(* follow, by inclusion.                                                   *)
LEMMA MaxIsMember ==
  ASSUME NEW n \in Nat, NEW S \in SUBSET (1..n), S # {}
  PROVE  Max(S) \in S
<1>. DEFINE Beyond(x) == {y \in S : x < y}
<1>1. IsFiniteSet(S)
  <2>1. IsFiniteSet(1..n)
    BY FS_Interval
  <2>. QED  BY <2>1, FS_Subset
<1>2. IsWellFoundedOn(StrictSubsetOrdering(S), SUBSET S)
  BY <1>1, FS_StrictSubsetOrderingWellFounded, FS_FiniteSubsetsOfFinite
<1>. DEFINE T == {Beyond(x) : x \in S}
<1>3. PICK B \in T : \A C \in T : ~ (<<C, B>> \in StrictSubsetOrdering(S))
  <2>1. T \subseteq SUBSET S /\ T # {}
    OBVIOUS
  <2>. HIDE DEF T
  <2>. QED  BY <1>2, <2>1, WFMin
<1>4. PICK x \in S : B = Beyond(x)
  BY <1>3
<1>5. \A y \in S : x >= y
  <2>1. S \subseteq Int
    OBVIOUS
  <2>2. SUFFICES ASSUME NEW y \in S, x < y  PROVE FALSE
    BY <2>1
  <2>3. Beyond(y) \subseteq Beyond(x) /\ Beyond(y) # Beyond(x)
    <3>1. \A z \in S : y < z => x < z
      BY <2>1, <2>2
    <3>2. y \in Beyond(x) /\ y \notin Beyond(y)
      BY <2>1, <2>2
    <3>. QED  BY <3>1, <3>2
  <2>4. Beyond(y) \subseteq S /\ Beyond(x) \subseteq S /\ Beyond(y) \in T
    OBVIOUS
  <2>5. <<Beyond(y), B>> \in StrictSubsetOrdering(S)
    <3>. HIDE DEF Beyond
    <3>. QED  BY <1>4, <2>3, <2>4 DEF StrictSubsetOrdering
  <2>. QED  BY <1>3, <2>4, <2>5
<1>. QED  BY <1>5 DEF Max

LEMMA TopIsFrame ==
  ASSUME Framed, Running
  PROVE  /\ Len(stack) \in Nat \ {0} /\ Len(stack) \in DOMAIN stack
         /\ DOMAIN stack = 1..Len(stack)
         /\ Top = stack[Len(stack)] /\ Top \in Frames
BY DEF Framed, Running, Top

LEMMA UnderIs ==
  ASSUME Framed, Running
  PROVE  /\ Under \in Seq(Frames) /\ Len(Under) = Len(stack) - 1
         /\ DOMAIN Under = 1..Len(stack) - 1
         /\ \A i \in DOMAIN Under : Under[i] = stack[i]
<1>. DEFINE n == Len(stack) - 1
<1>1. n \in Nat /\ \A i \in 1..n : stack[i] \in Frames
  BY TopIsFrame DEF Framed
<1>. HIDE DEF n
<1>2. 1 \in Int /\ n \in Int /\ \A i \in 1..n - 1 + 1 : 1 + i - 1 = i
  BY <1>1
<1>3. /\ SubSeq(stack, 1, n) \in Seq(Frames)
      /\ Len(SubSeq(stack, 1, n)) = IF 1 <= n THEN n - 1 + 1 ELSE 0
      /\ \A i \in 1..n - 1 + 1 : SubSeq(stack, 1, n)[i] = stack[1 + i - 1]
  BY <1>1, <1>2, SubSeqProperties
<1>4. Under = SubSeq(stack, 1, n)
  BY DEF Under, n
<1>5. Under \in Seq(Frames) /\ Len(Under) = n /\ \A i \in 1..n : Under[i] = stack[i]
  BY <1>1, <1>2, <1>3, <1>4
<1>. QED  BY <1>5 DEF n

(* The stack after a step. *)
LEMMA Popped ==
  ASSUME Framed, Running, Pop
  PROVE  /\ stack' \in Seq(Frames)
         /\ DOMAIN stack' = DOMAIN stack \ {Len(stack)}
         /\ \A i \in DOMAIN stack' : stack'[i] = stack[i]
BY UnderIs, TopIsFrame DEF Pop

LEMMA Pushed ==
  ASSUME Framed, NEW c \in Frames, stack' = Append(stack, c)
  PROVE  /\ stack' \in Seq(Frames)
         /\ DOMAIN stack = 1..Len(stack) /\ Len(stack) \in Nat
         /\ DOMAIN stack' = DOMAIN stack \cup {Len(stack) + 1} /\ Len(stack) + 1 \notin DOMAIN stack
         /\ stack'[Len(stack) + 1] = c
         /\ \A i \in DOMAIN stack : stack'[i] = stack[i]
BY DEF Framed

LEMMA Became ==
  ASSUME Framed, Running, NEW c \in Frames, Become(c)
  PROVE  /\ stack' \in Seq(Frames)
         /\ DOMAIN stack' = DOMAIN stack
         /\ stack'[Len(stack)] = c
         /\ \A i \in DOMAIN stack \ {Len(stack)} : stack'[i] = stack[i]
<1>1. stack' = Append(Under, c)
  BY DEF Become
<1>2. /\ stack' \in Seq(Frames) /\ DOMAIN stack' = 1..Len(Under) + 1
      /\ stack'[Len(Under) + 1] = c /\ \A i \in 1..Len(Under) : stack'[i] = Under[i]
  BY <1>1, UnderIs
<1>. QED  BY <1>2, UnderIs, TopIsFrame

(* The top frame goes on, with a callback or an update on it. *)
LEMMA Stacked ==
  ASSUME Framed, Running, NEW b \in Frames, NEW c \in Frames,
         stack' = Append(Append(Under, b), c)
  PROVE  /\ stack' \in Seq(Frames)
         /\ DOMAIN stack' = DOMAIN stack \cup {Len(stack) + 1} /\ Len(stack) + 1 \notin DOMAIN stack
         /\ stack'[Len(stack)] = b /\ stack'[Len(stack) + 1] = c
         /\ \A i \in DOMAIN stack \ {Len(stack)} : stack'[i] = stack[i]
<1>. DEFINE s == Append(Under, b)
<1>1. /\ s \in Seq(Frames) /\ Len(s) = Len(stack) /\ s[Len(stack)] = b
      /\ \A i \in DOMAIN stack \ {Len(stack)} : s[i] = stack[i]
  <2>1. /\ s \in Seq(Frames) /\ Len(s) = Len(Under) + 1
        /\ s[Len(Under) + 1] = b /\ \A i \in 1..Len(Under) : s[i] = Under[i]
    BY UnderIs
  <2>. QED  BY <2>1, UnderIs, TopIsFrame
<1>. HIDE DEF s
<1>2. stack' = Append(s, c)
  BY DEF s
<1>3. /\ stack' \in Seq(Frames) /\ DOMAIN stack' = 1..Len(s) + 1
      /\ stack'[Len(s) + 1] = c /\ \A i \in 1..Len(s) : stack'[i] = s[i]
  BY <1>1, <1>2
<1>. QED  BY <1>1, <1>3, TopIsFrame

LEMMA CallsAreFinite ==
  ASSUME Framed, NEW A
  PROVE  IsFiniteSet(Calls(A)) /\ Cardinality(Calls(A)) \in Nat
<1>1. Calls(A) \subseteq 1..Len(stack) /\ Len(stack) \in Nat
  BY DEF Calls, Framed
<1>2. IsFiniteSet(1..Len(stack))
  BY <1>1, FS_Interval
<1>. QED  BY <1>1, <1>2, FS_Subset, FS_CardinalityType

-----------------------------------------------------------------------------
(* A step that leaves the stack, the windows and the counts alone.         *)
LEMMA SameStack ==
  ASSUME IInv, Plain', UNCHANGED <<stack, slot, handles, flushing, pendingUpdates>>
  PROVE  IInv'
BY DEF IInv, Framed, Held, Handled, Bottomed, CountsRight, Calls

(* A call begins; one that has a window finds it filled or makes it.       *)
LEMMA CallBegins ==
  ASSUME IInv, Plain', NEW c \in Frames,
         stack' \in Seq(Frames),
         DOMAIN stack' = DOMAIN stack \cup {Len(stack) + 1},
         Len(stack) + 1 \notin DOMAIN stack,
         \A i \in DOMAIN stack : stack'[i].at = stack[i].at /\ stack'[i].win = stack[i].win,
         stack'[Len(stack) + 1] = c,
         c.at \notin {"flush", "drain"}, c.at = "quit" => ~Running,
         UNCHANGED <<handles, flushing>>,
         pendingUpdates' = pendingUpdates + (IF c.at \in Counted THEN 1 ELSE 0),
         \/ c.at \notin Holding /\ UNCHANGED slot
         \/ /\ c.win \in Windows /\ slot' = [slot EXCEPT ![c.win] = "empty"]
            /\ \/ c.at = "window" /\ slot[c.win] = "filled"
               \/ c.at = "build" /\ slot[c.win] = "new"
  PROVE  IInv'
<1>. DEFINE n == Len(stack) + 1
<1>1. Framed /\ n \in Nat /\ DOMAIN stack = 1..n - 1 /\ DOMAIN stack' = 1..n
  BY DEF IInv, Framed
<1>. HIDE DEF n
<1>2. ASSUME NEW A
      PROVE  /\ n \notin Calls(A)
             /\ c.at \in A => Calls(A)' = Calls(A) \cup {n}
             /\ c.at \notin A => Calls(A)' = Calls(A)
  BY <1>1 DEF Calls, n
<1>3. Framed'
  BY <1>1 DEF Framed, Holding, n
<1>4. Held'
  <2>1. CASE c.at \notin Holding /\ UNCHANGED slot
    <3>1. Calls(Holding)' = Calls(Holding)
      BY <1>2, <2>1
    <3>. QED  BY <2>1, <3>1 DEF IInv, Held, Calls
  <2>2. CASE /\ c.win \in Windows /\ slot' = [slot EXCEPT ![c.win] = "empty"]
             /\ \/ c.at = "window" /\ slot[c.win] = "filled"
                \/ c.at = "build" /\ slot[c.win] = "new"
    <3>1. Calls(Holding)' = Calls(Holding) \cup {n} /\ n \notin Calls(Holding) /\ stack'[n] = c
      BY <1>2, <2>2 DEF Holding, n
    <3>2. \A i \in Calls(Holding) : /\ stack'[i].win = stack[i].win /\ stack[i].win \in Windows
                                    /\ stack[i].win # c.win
      BY <1>1, <2>2 DEF IInv, Held, Framed, Calls
    <3>3. slot \in [Windows -> {"new", "empty", "filled", "gone"}]
      BY DEF IInv, Plain
    <3>. QED  BY <2>2, <3>1, <3>2, <3>3 DEF IInv, Held
  <2>. QED  BY <2>1, <2>2
<1>5. Handled'
  <2>1. \A w \in Windows : (\E i \in Calls({"window"})' : stack'[i].win = w)
          <=> (\E i \in Calls({"window"}) : stack[i].win = w) \/ (c.at = "window" /\ c.win = w)
    <3>1. /\ c.at = "window" => Calls({"window"})' = Calls({"window"}) \cup {n}
          /\ c.at # "window" => Calls({"window"})' = Calls({"window"})
      BY <1>2
    <3>2. \A i \in Calls({"window"}) : stack'[i].win = stack[i].win
      BY DEF Calls
    <3>. QED  BY <3>1, <3>2 DEF n
  <2>2. slot \in [Windows -> {"new", "empty", "filled", "gone"}]
    BY DEF IInv, Plain
  <2>3. \A w \in Windows : (slot'[w] = "filled" \/ (c.at = "window" /\ c.win = w))
          <=> slot[w] = "filled"
    BY <2>2 DEF Holding
  <2>. QED  BY <2>1, <2>3 DEF IInv, Handled
<1>6. Bottomed'
  <2>1. /\ Calls({"flush"})' = Calls({"flush"})
        /\ c.at = "quit" => Calls({"quit", "drain"})' = Calls({"quit", "drain"}) \cup {n}
        /\ c.at # "quit" => Calls({"quit", "drain"})' = Calls({"quit", "drain"})
    BY <1>2
  <2>2. c.at = "quit" => n = 1
    BY DEF Running, n
  <2>3. \A i \in Calls({"flush"}) : \A j \in 1..i - 1 : j \in DOMAIN stack
    BY <1>1 DEF Calls
  <2>4. /\ \A i, j \in Calls({"flush"}) : i = j
        /\ \A i \in Calls({"quit", "drain"}) : i = 1
        /\ \A i \in Calls({"flush"}) : \A j \in 1..i - 1 : stack[j].at \notin Holding
    BY DEF IInv, Bottomed
  <2>5. \A i \in Calls({"quit", "drain"})' : i = 1
    <3>1. CASE c.at = "quit"
      <4>1. Calls({"quit", "drain"})' = Calls({"quit", "drain"}) \cup {1}
        BY <2>1, <2>2, <3>1
      <4>. QED  BY <2>4, <4>1
    <3>2. CASE c.at # "quit"
      <4>1. Calls({"quit", "drain"})' = Calls({"quit", "drain"})
        BY <2>1, <3>2
      <4>. QED  BY <2>4, <4>1
    <3>. QED  BY <3>1, <3>2
  <2>6. Calls({"flush"})' = Calls({"flush"})
    BY <2>1
  <2>7. \A i \in Calls({"flush"}) : \A j \in 1..i - 1 : stack'[j].at = stack[j].at
    BY <2>3
  <2>. QED  BY <2>4, <2>5, <2>6, <2>7 DEF Bottomed
<1>7. CountsRight'
  <2>1. Calls({"flush"})' = Calls({"flush"})
    BY <1>2
  <2>2. Cardinality(Calls(Counted)') = Cardinality(Calls(Counted)) + (IF c.at \in Counted THEN 1 ELSE 0)
    <3>1. CASE c.at \in Counted
      <4>1. Calls(Counted)' = Calls(Counted) \cup {n} /\ n \notin Calls(Counted)
        BY <1>2, <3>1
      <4>2. Cardinality(Calls(Counted) \cup {n}) = Cardinality(Calls(Counted)) + 1
        BY <1>1, <4>1, CallsAreFinite, FS_AddElement
      <4>. QED  BY <3>1, <4>1, <4>2
    <3>2. CASE c.at \notin Counted
      <4>1. Calls(Counted)' = Calls(Counted)
        BY <1>2, <3>2
      <4>. QED  BY <1>1, <3>2, <4>1, CallsAreFinite
    <3>. QED  BY <3>1, <3>2
  <2>. QED  BY <2>1, <2>2 DEF IInv, CountsRight
<1>. QED  BY <1>3, <1>4, <1>5, <1>6, <1>7 DEF IInv

(* A call that has no window ends. *)
LEMMA CallEnds ==
  ASSUME IInv, Plain', Running, Top.at \notin Holding, Pop, UNCHANGED <<slot, handles>>,
         flushing' = IF Top.at = "flush" THEN FALSE ELSE flushing,
         pendingUpdates' = pendingUpdates - (IF Top.at \in Counted THEN 1 ELSE 0)
  PROVE  IInv'
<1>. DEFINE n == Len(stack)
<1>1. /\ Framed /\ n \in Nat \ {0} /\ DOMAIN stack = 1..n /\ Top = stack[n] /\ n \in DOMAIN stack
      /\ stack' \in Seq(Frames) /\ DOMAIN stack' = DOMAIN stack \ {n}
      /\ \A i \in DOMAIN stack' : stack'[i] = stack[i]
  BY TopIsFrame, Popped DEF IInv
<1>. HIDE DEF n
<1>2. ASSUME NEW A
      PROVE  /\ Calls(A)' = Calls(A) \ {n}
             /\ n \in Calls(A) <=> Top.at \in A
  BY <1>1 DEF Calls
<1>3. Framed'
  BY <1>1 DEF Framed
<1>4. \A A : Top.at \notin A => Calls(A)' = Calls(A) /\ \A i \in Calls(A) : stack'[i] = stack[i]
  BY <1>1, <1>2 DEF Calls
<1>5. Held'
  BY <1>4 DEF IInv, Held
<1>6. Handled'
  <2>1. Top.at \notin {"window"}
    BY DEF Holding
  <2>. QED  BY <1>4, <2>1 DEF IInv, Handled
<1>7. Bottomed'
  <2>1. \A i \in Calls({"flush"}) \ {n} : \A j \in 1..i - 1 : j \in DOMAIN stack \ {n}
    BY <1>1 DEF Calls
  <2>. QED  BY <1>1, <1>2, <2>1 DEF IInv, Bottomed
<1>8. CountsRight'
  <2>1. flushing' = (Calls({"flush"})' # {})
    <3>1. CASE Top.at = "flush"
      <4>1. Calls({"flush"})' = {}
        BY <1>2, <3>1 DEF IInv, Bottomed
      <4>. QED  BY <3>1, <4>1
    <3>2. CASE Top.at # "flush"
      <4>1. Calls({"flush"})' = Calls({"flush"})
        BY <1>4, <3>2
      <4>. QED  BY <3>2, <4>1 DEF IInv, CountsRight
    <3>. QED  BY <3>1, <3>2
  <2>2. Cardinality(Calls(Counted)') = Cardinality(Calls(Counted)) - (IF Top.at \in Counted THEN 1 ELSE 0)
    <3>1. CASE Top.at \in Counted
      BY <1>1, <1>2, <3>1, CallsAreFinite, FS_RemoveElement
    <3>2. CASE Top.at \notin Counted
      <4>1. Calls(Counted)' = Calls(Counted)
        BY <1>4, <3>2
      <4>. QED  BY <1>1, <3>2, <4>1, CallsAreFinite
    <3>. QED  BY <3>1, <3>2
  <2>. QED  BY <2>1, <2>2 DEF IInv, CountsRight
<1>. QED  BY <1>3, <1>5, <1>6, <1>7, <1>8 DEF IInv

(* A call turns into another, with or without its window, and is an update *)
(* as before.                                                              *)
LEMMA CallTurns ==
  ASSUME IInv, Plain', Running, NEW c \in Frames, Become(c),
         c.at \in Holding => c.win = Top.win /\ Top.at \in Holding,
         c.at \notin {"flush", "quit", "drain", "window"}, Top.at \notin {"flush", "quit", "drain"},
         Top.at \in Counted /\ c.at \in Counted, UNCHANGED <<flushing, pendingUpdates>>,
         \/ Top.at \notin Holding /\ UNCHANGED <<slot, handles>>
         \/ Top.at = "build" /\ c.at = "draw" /\ UNCHANGED <<slot, handles>>
         \/ /\ Top.at = "draw" /\ c.at \notin Holding
            /\ slot' = [slot EXCEPT ![Top.win] = "filled"] /\ handles' = handles \cup {Top.win}
         \/ /\ Top.at = "window" /\ c.at \notin Holding
            /\ slot' = [slot EXCEPT ![Top.win] = "filled"] /\ handles' = handles
         \/ /\ Top.at = "window" /\ c.at \notin Holding
            /\ slot' = [slot EXCEPT ![Top.win] = "gone"] /\ handles' = handles \ {Top.win}
  PROVE  IInv'
<1>. DEFINE n == Len(stack)
            w == Top.win
<1>1. /\ Framed /\ n \in Nat \ {0} /\ DOMAIN stack = 1..n /\ Top = stack[n] /\ n \in DOMAIN stack
      /\ stack' \in Seq(Frames) /\ DOMAIN stack' = DOMAIN stack /\ stack'[n] = c
      /\ \A i \in DOMAIN stack \ {n} : stack'[i] = stack[i]
  BY TopIsFrame, Became DEF IInv
<1>. HIDE DEF n, w
<1>2. ASSUME NEW A
      PROVE  /\ c.at \in A => Calls(A)' = Calls(A) \cup {n}
             /\ c.at \notin A => Calls(A)' = Calls(A) \ {n}
             /\ (c.at \in A <=> Top.at \in A) => Calls(A)' = Calls(A)
             /\ n \in Calls(A) <=> Top.at \in A
             /\ \A i \in Calls(A) \ {n} : stack'[i] = stack[i] /\ i \in DOMAIN stack
  BY <1>1 DEF Calls
<1>3. Top.at \in Holding => w \in Windows /\ stack[n].win = w
  BY <1>1 DEF Framed, w
<1>4. Framed'
  BY <1>1, <1>3 DEF Framed, w
<1>5. slot \in [Windows -> {"new", "empty", "filled", "gone"}]
  BY DEF IInv, Plain
<1>6. \A i \in Calls(Holding) \ {n} : /\ stack'[i].win = stack[i].win /\ stack[i].win \in Windows
                                      /\ Top.at \in Holding => stack[i].win # w
  BY <1>1, <1>2, <1>3 DEF IInv, Held, Framed, Calls
<1>7. Held'
  <2>1. CASE c.at \in Holding
    <3>1. Calls(Holding)' = Calls(Holding) /\ n \in Calls(Holding) /\ stack'[n].win = w /\ slot' = slot
      BY <1>1, <1>2, <2>1 DEF w, Holding
    <3>2. \A i \in Calls(Holding) : stack'[i].win = stack[i].win
      BY <1>2, <1>3, <3>1
    <3>. QED  BY <3>1, <3>2 DEF IInv, Held
  <2>2. CASE c.at \notin Holding /\ Top.at \notin Holding
    <3>1. Calls(Holding)' = Calls(Holding) /\ n \notin Calls(Holding) /\ slot' = slot
      BY <1>2, <2>2 DEF Holding
    <3>. QED  BY <1>6, <3>1 DEF IInv, Held
  <2>3. CASE c.at \notin Holding /\ Top.at \in Holding
    <3>1. Calls(Holding)' = Calls(Holding) \ {n} /\ n \in Calls(Holding)
      BY <1>2, <2>3
    <3>2. \A v \in Windows : slot'[v] = "empty" <=> v # w /\ slot[v] = "empty"
      BY <1>3, <1>5, <2>3 DEF w, Holding
    <3>3. \A i \in Calls(Holding) : i # n => slot[stack[i].win] = "empty"
      BY DEF IInv, Held
    <3>4. \A v \in Windows : slot[v] = "empty" => \E i \in Calls(Holding) : stack[i].win = v
      BY DEF IInv, Held
    <3>5. \A i, j \in Calls(Holding) : stack[i].win = stack[j].win => i = j
      BY DEF IInv, Held
    <3>6. stack[n].win = w
      BY <1>3, <2>3
    <3>. QED  BY <1>6, <2>3, <3>1, <3>2, <3>3, <3>4, <3>5, <3>6 DEF Held
  <2>. QED  BY <2>1, <2>2, <2>3
<1>8. Handled'
  <2>1. Calls({"window"})' = Calls({"window"}) \ {n}
        /\ \A i \in Calls({"window"})' : stack'[i].win = stack[i].win
    BY <1>2
  <2>2. \A v \in Windows : v \in handles <=> slot[v] = "filled" \/ \E i \in Calls({"window"}) : stack[i].win = v
    BY DEF IInv, Handled
  <2>3. \A i \in Calls({"window"}) \ {n} : Top.at \in Holding => stack[i].win # w
    BY <1>6 DEF Calls, Holding
  <2>4. n \in Calls({"window"}) <=> Top.at = "window"
    BY <1>2
  <2>5. handles \subseteq Windows
    BY DEF IInv, Handled
  <2>6. CASE Top.at # "window" /\ UNCHANGED <<slot, handles>>
    BY <2>1, <2>2, <2>4, <2>5, <2>6 DEF Handled
  <2>7. CASE /\ Top.at = "draw"
             /\ slot' = [slot EXCEPT ![w] = "filled"] /\ handles' = handles \cup {w}
    <3>1. w \in Windows
      BY <1>3, <2>7 DEF Holding
    <3>. QED  BY <1>5, <2>1, <2>2, <2>4, <2>5, <2>7, <3>1 DEF Handled
  <2>8. CASE Top.at = "window" /\ slot' = [slot EXCEPT ![w] = "filled"] /\ handles' = handles
    <3>1. w \in Windows /\ stack[n].win = w
      BY <1>3, <2>8 DEF Holding
    <3>. QED  BY <1>5, <2>1, <2>2, <2>4, <2>5, <2>8, <3>1 DEF Handled
  <2>9. CASE Top.at = "window" /\ slot' = [slot EXCEPT ![w] = "gone"] /\ handles' = handles \ {w}
    <3>1. w \in Windows /\ stack[n].win = w /\ Top.at \in Holding
      BY <1>3, <2>9 DEF Holding
    <3>. QED  BY <1>5, <2>1, <2>2, <2>3, <2>4, <2>5, <2>9, <3>1 DEF Handled
  <2>. QED  BY <2>6, <2>7, <2>8, <2>9 DEF w, Holding
<1>9. Bottomed'
  <2>1. /\ Calls({"flush"})' = Calls({"flush"}) /\ n \notin Calls({"flush"})
        /\ Calls({"quit", "drain"})' = Calls({"quit", "drain"})
    BY <1>2
  <2>2. \A i \in Calls({"flush"}) : \A j \in 1..i - 1 : j \in DOMAIN stack \ {n}
    BY <1>1, <2>1 DEF Calls
  <2>. QED  BY <1>1, <2>1, <2>2 DEF IInv, Bottomed
<1>10. CountsRight'
  <2>1. Calls({"flush"})' = Calls({"flush"}) /\ Calls(Counted)' = Calls(Counted)
    BY <1>2
  <2>. QED  BY <2>1 DEF IInv, CountsRight
<1>. QED  BY <1>4, <1>7, <1>8, <1>9, <1>10 DEF IInv

-----------------------------------------------------------------------------
(* The steps. *)
LEMMA InitIInv == Init => IInv
<1>. SUFFICES ASSUME Init  PROVE IInv
  OBVIOUS
<1>1. \A A : Calls(A) = {}
  BY DEF Init, Calls
<1>2. Cardinality(Calls(Counted)) = 0
  BY <1>1, FS_EmptySet
<1>3. Plain
  <2>1. MaxOps \in 0..MaxOps
    BY CountsAssumption
  <2>2. effects \in Seq(Effects)
    BY DEF Init
  <2>3. slot \in [Windows -> {"new", "empty", "filled", "gone"}]
    BY DEF Init
  <2>. QED  BY <2>1, <2>2, <2>3 DEF Init, Plain
<1>4. Framed
  BY DEF Init, Framed
<1>. QED  BY <1>1, <1>2, <1>3, <1>4 DEF Init, IInv, Held, Handled, Bottomed, CountsRight

LEMMA FramesMade ==
  /\ \A at \in Kinds : Call(at) \in Frames /\ Call(at).at = at
  /\ \A at \in Kinds, w \in Windows \cup {NoWindow}, n \in Nat :
       /\ CallFor(at, w, n) \in Frames
       /\ CallFor(at, w, n).at = at /\ CallFor(at, w, n).win = w
<1>1. \A n \in Nat : 1..n \subseteq Nat
  OBVIOUS
<1>. QED  BY <1>1 DEF Call, CallFor, Frames

LEMMA InHandAreWindows ==
  ASSUME Framed
  PROVE  InHand \subseteq Windows
BY DEF InHand, Framed, Calls

LEMMA CurrentIsWindow ==
  ASSUME Framed
  PROVE  CurrentWindow \in Windows \cup {NoWindow}
<1>. DEFINE S == Calls({"window", "build"})
<1>1. S \subseteq 1..Len(stack) /\ Len(stack) \in Nat
  BY DEF Framed, Calls
<1>2. CASE S = {}
  BY <1>2 DEF CurrentWindow
<1>3. CASE S # {}
  <2>1. Max(S) \in S
    BY <1>1, <1>3, MaxIsMember
  <2>2. stack[Max(S)] \in Frames
    BY <2>1 DEF Framed, Calls
  <2>. QED  BY <1>3, <2>2 DEF CurrentWindow, Frames
<1>. QED  BY <1>2, <1>3

LEMMA CallsBegin ==
  ASSUME IInv, Begin \/ Update \/ ApplyCreated \/ Shutdown
  PROVE  IInv'
<1>1. Plain /\ Framed
  BY DEF IInv
<1>2. CASE Begin \/ Update
  <2>1. Plain'
    BY <1>1, <1>2, CountsAssumption DEF Begin, Update, Operation, Plain, windowState, history
  <2>2. Push(Call("update")) /\ pendingUpdates' = pendingUpdates + 1 /\ UNCHANGED <<slot, handles, flushing>>
    BY <1>2 DEF Begin, Update, windowState
  <2>3. Call("update") \in Frames /\ Call("update").at = "update" /\ "update" \in Counted
    BY FramesMade DEF Kinds, UserCode, Counted, Updates
  <2>. QED  BY <1>1, <2>1, <2>2, <2>3, Pushed, CallBegins DEF Push, Holding
<1>3. CASE ApplyCreated
  <2>. DEFINE c == CallFor("created", Head(effects).win,
                           IF Calls({"created"}) # {} THEN 0 ELSE NewObservers)
  <2>1. Head(effects) \in Effects /\ Tail(effects) \in Seq(Effects)
    BY <1>1, <1>3, HeadTailProperties DEF ApplyCreated, NextEffect, Plain
  <2>2. c \in Frames /\ c.at = "created"
    <3>1. NewObservers \in Nat /\ 0 \in Nat
      BY CountsAssumption
    <3>2. Head(effects).win \in Windows \cup {NoWindow} /\ "created" \in Kinds
      BY <2>1 DEF Kinds, Announcing, Effects
    <3>3. CASE Calls({"created"}) # {}
      BY <3>1, <3>2, <3>3, FramesMade
    <3>4. CASE Calls({"created"}) = {}
      BY <3>1, <3>2, <3>4, FramesMade
    <3>. QED  BY <3>3, <3>4
  <2>. HIDE DEF c
  <2>3. Plain'
    BY <1>1, <1>3, <2>1 DEF ApplyCreated, NextEffect, Plain, windowState, history
  <2>4. stack' = Append(stack, c) /\ UNCHANGED <<slot, handles, flushing, pendingUpdates>>
    BY <1>3 DEF ApplyCreated, Push, windowState, c
  <2>5. pendingUpdates' = pendingUpdates + 0 /\ "created" \notin Counted
    BY <1>1, <2>4, CallsAreFinite DEF IInv, CountsRight, Counted, Updates, Holding
  <2>. QED  BY <1>1, <2>2, <2>3, <2>4, <2>5, Pushed, CallBegins DEF Holding
<1>4. CASE Shutdown
  <2>. DEFINE c == CallFor("quit", NoWindow, QuitObservers)
  <2>1. c \in Frames /\ c.at = "quit"
    <3>1. QuitObservers \in Nat /\ "quit" \in Kinds
      BY CountsAssumption DEF Kinds, Announcing
    <3>. QED  BY <3>1, FramesMade
  <2>. HIDE DEF c
  <2>2. Plain'
    BY <1>1, <1>4, CountsAssumption DEF Shutdown, Plain, windowState, cycle, history
  <2>3. stack' = Append(stack, c) /\ ~Running /\ UNCHANGED <<slot, handles, flushing, pendingUpdates>>
    BY <1>4 DEF Shutdown, Push, windowState, cycle, c
  <2>4. pendingUpdates' = pendingUpdates + 0 /\ "quit" \notin Counted
    BY <1>1, <2>3, CallsAreFinite DEF IInv, CountsRight, Counted, Updates, Holding
  <2>. QED  BY <1>1, <2>1, <2>2, <2>3, <2>4, Pushed, CallBegins DEF Holding
<1>. QED  BY <1>2, <1>3, <1>4

LEMMA WindowsTaken ==
  ASSUME IInv, NEW w \in Windows, UpdateWindow(w) \/ Open(w)
  PROVE  IInv'
<1>1. Plain /\ Framed
  BY DEF IInv
<1>2. PICK at \in {"window", "build"} :
        /\ stack' = Append(stack, CallFor(at, w, 0)) /\ slot' = [slot EXCEPT ![w] = "empty"]
        /\ \/ at = "window" /\ slot[w] = "filled"
           \/ at = "build" /\ slot[w] = "new"
        /\ pendingUpdates' = pendingUpdates + 1 /\ UNCHANGED <<handles, flushing>>
  <2>1. CASE UpdateWindow(w)
    BY <2>1 DEF UpdateWindow, Enter
  <2>2. CASE Open(w)
    BY <2>2 DEF Open, Push
  <2>. QED  BY <2>1, <2>2
<1>3. Plain'
  BY <1>1, CountsAssumption DEF UpdateWindow, Enter, Open, Operation, Plain, history
<1>4. CallFor(at, w, 0) \in Frames /\ CallFor(at, w, 0).at = at /\ CallFor(at, w, 0).win = w
  BY FramesMade DEF Kinds, UserCode
<1>5. at \in Counted
  BY DEF Counted, Updates, Holding
<1>. QED  BY <1>1, <1>2, <1>3, <1>4, <1>5, Pushed, CallBegins

LEMMA MarksAreSafe ==
  ASSUME IInv, NewEntity \/ (\E w \in Windows : RemoveWindow(w)) \/ (\E w \in Windows \cup {NoWindow} : Defer(w))
  PROVE  IInv'
<1>1. Plain /\ Framed
  BY DEF IInv
<1>2. UNCHANGED <<stack, slot, handles, flushing, pendingUpdates>>
  BY DEF NewEntity, RemoveWindow, Defer, windowState, cycle
<1>3. effects' \in Seq(Effects)
  <2>1. CASE NewEntity
    <3>1. [kind |-> "created", win |-> CurrentWindow] \in Effects
      BY <1>1, CurrentIsWindow DEF Effects
    <3>. QED  BY <1>1, <2>1, <3>1 DEF NewEntity, Plain
  <2>2. ASSUME NEW w \in Windows \cup {NoWindow}, Defer(w)  PROVE effects' \in Seq(Effects)
    <3>1. [kind |-> "deferred", win |-> w] \in Effects
      BY DEF Effects
    <3>. QED  BY <1>1, <2>2, <3>1 DEF Defer, Plain
  <2>3. ASSUME NEW w \in Windows, RemoveWindow(w)  PROVE effects' \in Seq(Effects)
    BY <1>1, <2>3 DEF RemoveWindow, cycle, Plain
  <2>. QED  BY <2>1, <2>2, <2>3
<1>4. removed' \subseteq Windows
  <2>1. CASE NewEntity
    BY <1>1, <2>1 DEF NewEntity, windowState, Plain
  <2>2. ASSUME NEW w \in Windows \cup {NoWindow}, (w \in Windows /\ RemoveWindow(w)) \/ Defer(w)
        PROVE  removed' \subseteq Windows
    BY <1>1, <2>2 DEF RemoveWindow, Defer, windowState, Plain
  <2>. QED  BY <2>1, <2>2
<1>5. fuel > 0 /\ fuel' = fuel - 1 /\ UNCHANGED <<quitMode, quit, panicked, closed, unheard>>
  BY DEF NewEntity, RemoveWindow, Defer, Operation, history
<1>6. Plain'
  BY <1>1, <1>2, <1>3, <1>4, <1>5, CountsAssumption DEF Plain
<1>. QED  BY <1>2, <1>6, SameStack

LEMMA FinishIsSafe ==
  ASSUME IInv, Finish
  PROVE  IInv'
<1>1. Plain /\ Framed /\ Running /\ Top.at \in {"update", "leave"}
  BY DEF IInv, Finish, At
<1>2. Plain'
  BY <1>1 DEF Finish, Plain, windowState, history
<1>3. UNCHANGED <<slot, handles>>
  BY DEF Finish, windowState
<1>4. CASE ~ (~flushing /\ pendingUpdates = 1)
  <2>1. Pop /\ flushing' = flushing /\ pendingUpdates' = pendingUpdates - 1
    BY <1>4 DEF Finish
  <2>2. Top.at \in Counted /\ Top.at \notin Holding /\ Top.at # "flush"
    BY <1>1 DEF Counted, Updates, Holding
  <2>. QED  BY <1>1, <1>2, <1>3, <2>1, <2>2, CallEnds
<1>5. CASE ~flushing /\ pendingUpdates = 1
  <2>. DEFINE n == Len(stack)
              c == Call("flush")
  <2>1. c \in Frames /\ c.at = "flush" /\ Become(c) /\ flushing' = TRUE /\ pendingUpdates' = pendingUpdates
    BY <1>5, FramesMade DEF Finish, Kinds
  <2>. HIDE DEF c
  <2>2. /\ n \in Nat \ {0} /\ DOMAIN stack = 1..n /\ Top = stack[n] /\ n \in DOMAIN stack
        /\ stack' \in Seq(Frames) /\ DOMAIN stack' = DOMAIN stack /\ stack'[n] = c
        /\ \A i \in DOMAIN stack \ {n} : stack'[i] = stack[i]
    BY <1>1, <2>1, TopIsFrame, Became
  <2>. HIDE DEF n
  <2>3. \A i \in DOMAIN stack : i # n => stack[i].at \notin Counted
    <3>1. n \in Calls(Counted) /\ IsFiniteSet(Calls(Counted)) /\ Cardinality(Calls(Counted)) = 1
      BY <1>1, <1>5, <2>2, CallsAreFinite DEF IInv, CountsRight, Calls, Counted, Updates
    <3>2. PICK x : Calls(Counted) = {x}
      BY <3>1, FS_Singleton
    <3>. QED  BY <3>1, <3>2 DEF Calls
  <2>4. \A i \in DOMAIN stack : stack[i].at # "flush"
    BY <1>5 DEF IInv, CountsRight, Calls
  <2>5. Framed'
    BY <1>1, <2>1, <2>2 DEF Framed, Holding
  <2>6. Calls(Holding) = {} /\ Calls(Holding)' = {}
    BY <1>1, <2>1, <2>2, <2>3 DEF Calls, Counted, Updates, Holding
  <2>7. Calls({"window"}) = {} /\ Calls({"window"})' = {}
    BY <2>6 DEF Calls, Holding
  <2>8. Calls({"flush"})' = {n} /\ Calls({"quit", "drain"})' = Calls({"quit", "drain"})
    BY <1>1, <2>1, <2>2, <2>4 DEF Calls
  <2>9. Calls(Counted)' = Calls(Counted)
    BY <1>1, <2>1, <2>2 DEF Calls, Counted, Updates
  <2>10. Held' /\ Handled'
    BY <1>3, <2>6, <2>7 DEF IInv, Held, Handled
  <2>11. Bottomed'
    <3>1. \A j \in 1..n - 1 : stack'[j].at \notin Holding
      BY <2>2, <2>6 DEF Calls
    <3>. QED  BY <2>8, <3>1 DEF IInv, Bottomed
  <2>12. CountsRight'
    BY <2>1, <2>8, <2>9 DEF IInv, CountsRight
  <2>. QED  BY <1>2, <2>5, <2>10, <2>11, <2>12 DEF IInv
<1>. QED  BY <1>4, <1>5

LEMMA CallsEnd ==
  ASSUME IInv, Return \/ EndCreated \/ EndFlush
  PROVE  IInv'
<1>1. Plain /\ Framed /\ Running /\ Pop /\ Top.at \in {"user", "created", "flush", "drain"}
      /\ UNCHANGED <<slot, handles>>
  BY DEF IInv, Return, EndCreated, EndFlush, Flushing, At, windowState
<1>2. Plain'
  BY <1>1 DEF Return, EndCreated, EndFlush, Plain, windowState, cycle, history
<1>3. /\ Top.at = "flush" => flushing' = FALSE /\ pendingUpdates' = pendingUpdates - 1
      /\ Top.at # "flush" => UNCHANGED <<flushing, pendingUpdates>>
  BY DEF Return, EndCreated, EndFlush, At, cycle
<1>4. pendingUpdates - 0 = pendingUpdates
  BY <1>1, CallsAreFinite DEF IInv, CountsRight
<1>5. Top.at \notin Holding /\ (Top.at \in Counted <=> Top.at = "flush")
  BY <1>1 DEF Holding, Counted, Updates
<1>. QED  BY <1>1, <1>2, <1>3, <1>4, <1>5, CallEnds

LEMMA WindowsLeft ==
  ASSUME IInv, Trail \/ EndClosed \/ Built \/ Drawn
  PROVE  IInv'
<1>1. Plain /\ Framed /\ Running /\ Top \in Frames /\ Top.at \in {"window", "closed", "build", "draw"}
      /\ Top.at \in Counted /\ UNCHANGED <<flushing, pendingUpdates>>
  BY TopIsFrame DEF IInv, Trail, EndClosed, Built, Drawn, At, cycle, Counted, Updates, Holding
<1>2. Top.at \in Holding => Top.win \in Windows
  BY <1>1, TopIsFrame DEF Framed
<1>3. /\ Call("leave") \in Frames /\ Call("leave").at = "leave"
      /\ \A w \in Windows, n \in Nat :
           /\ CallFor("closed", w, n) \in Frames /\ CallFor("closed", w, n).at = "closed"
           /\ CallFor("draw", w, n) \in Frames /\ CallFor("draw", w, n).at = "draw"
           /\ CallFor("draw", w, n).win = w
  BY FramesMade DEF Kinds, Updates, UserCode
<1>4. {"leave", "closed", "draw"} \subseteq Counted /\ "leave" \notin Holding /\ "closed" \notin Holding
      /\ {"window", "build", "draw"} \subseteq Holding
  BY DEF Counted, Updates, Holding
<1>5. CASE Trail
  <2>1. Top.at = "window" /\ Top.win \in Windows
    BY <1>2, <1>4, <1>5 DEF Trail, At
  <2>2. Plain'
    BY <1>1, <1>5, <2>1 DEF Trail, Plain, cycle
  <2>3. CASE Top.win \in removed
    <3>1. PICK n \in Nat : Become(CallFor("closed", Top.win, n))
                           /\ slot' = [slot EXCEPT ![Top.win] = "gone"] /\ handles' = handles \ {Top.win}
      BY <1>5, <2>3, CountsAssumption DEF Trail
    <3>. QED  BY <1>1, <1>3, <1>4, <2>1, <2>2, <3>1, CallTurns
  <2>4. CASE Top.win \notin removed
    <3>1. Become(Call("leave")) /\ slot' = [slot EXCEPT ![Top.win] = "filled"] /\ handles' = handles
      BY <1>5, <2>4 DEF Trail
    <3>. QED  BY <1>1, <1>3, <1>4, <2>1, <2>2, <3>1, CallTurns
  <2>. QED  BY <2>3, <2>4
<1>6. CASE EndClosed
  <2>1. Plain'
    BY <1>1, <1>6 DEF EndClosed, Plain, windowState, cycle, history
  <2>2. Top.at = "closed" /\ Become(Call("leave")) /\ UNCHANGED <<slot, handles>>
    BY <1>6 DEF EndClosed, At, windowState
  <2>. QED  BY <1>1, <1>3, <1>4, <2>1, <2>2, CallTurns
<1>7. CASE Built
  <2>1. Top.at = "build" /\ Top.win \in Windows
    BY <1>2, <1>4, <1>7 DEF Built, At
  <2>2. Plain'
    <3>1. [kind |-> "deferred", win |-> Top.win] \in Effects
      BY <2>1 DEF Effects
    <3>. QED  BY <1>1, <1>7, <3>1 DEF Built, Plain, windowState, history
  <2>3. Become(CallFor("draw", Top.win, 0)) /\ UNCHANGED <<slot, handles>>
    BY <1>7 DEF Built, windowState
  <2>. QED  BY <1>1, <1>3, <1>4, <2>1, <2>2, <2>3, CallTurns
<1>8. CASE Drawn
  <2>1. Top.at = "draw" /\ Top.win \in Windows
    BY <1>2, <1>4, <1>8 DEF Drawn, At
  <2>2. Plain'
    BY <1>1, <1>8, <2>1 DEF Drawn, Plain, cycle, history
  <2>3. /\ Become(Call("leave")) /\ slot' = [slot EXCEPT ![Top.win] = "filled"]
        /\ handles' = handles \cup {Top.win}
    BY <1>8 DEF Drawn
  <2>. QED  BY <1>1, <1>3, <1>4, <2>1, <2>2, <2>3, CallTurns
<1>. QED  BY <1>5, <1>6, <1>7, <1>8

LEMMA DeferredApplied ==
  ASSUME IInv, ApplyDeferred
  PROVE  IInv'
<1>. DEFINE w == Head(effects).win
            c == CallFor("window", w, 0)
<1>1. Plain /\ Framed
  BY DEF IInv
<1>2. effects \in Seq(Effects) /\ effects # <<>> /\ effects' = Tail(effects)
  BY <1>1 DEF ApplyDeferred, NextEffect, Plain
<1>3. Head(effects) \in Effects /\ effects' \in Seq(Effects)
  BY <1>2, HeadTailProperties
<1>4. w \in Windows \cup {NoWindow}
  BY <1>3 DEF Effects
<1>. HIDE DEF w
<1>5. UNCHANGED <<handles, removed, quitMode, quit, flushing, fuel, panicked, closed, unheard>>
  BY DEF ApplyDeferred, history
<1>6. CASE slot[w] # "filled" /\ UNCHANGED <<slot, stack, pendingUpdates>>
  <2>1. Plain'
    BY <1>1, <1>3, <1>5, <1>6 DEF Plain
  <2>. QED  BY <1>5, <1>6, <2>1, SameStack
<1>7. CASE w # NoWindow /\ Enter(w, stack)
  <2>1. /\ slot[w] = "filled" /\ slot' = [slot EXCEPT ![w] = "empty"]
        /\ stack' = Append(stack, c) /\ pendingUpdates' = pendingUpdates + 1
    BY <1>7 DEF Enter
  <2>3. c \in Frames /\ c.at = "window" /\ c.win = w
    BY <1>4, FramesMade DEF Kinds, UserCode
  <2>. HIDE DEF c
  <2>4. Plain'
    BY <1>1, <1>3, <1>5, <2>1 DEF Plain
  <2>5. "window" \in Counted
    BY DEF Counted, Updates, Holding
  <2>. QED  BY <1>1, <1>4, <1>5, <1>7, <2>1, <2>3, <2>4, <2>5, Pushed, CallBegins
<1>8. CASE Push(Call("user")) /\ UNCHANGED <<slot, pendingUpdates>>
  <2>. DEFINE d == Call("user")
  <2>1. d \in Frames /\ d.at = "user"
    BY FramesMade DEF Kinds, UserCode
  <2>2. stack' = Append(stack, d)
    BY <1>8 DEF Push
  <2>. HIDE DEF d
  <2>3. Plain'
    BY <1>1, <1>3, <1>5, <1>8 DEF Plain
  <2>4. pendingUpdates' = pendingUpdates + 0 /\ "user" \notin Counted /\ "user" \notin Holding
    BY <1>1, <1>8, CallsAreFinite DEF IInv, CountsRight, Counted, Updates, Holding
  <2>. QED  BY <1>1, <1>5, <1>8, <2>1, <2>2, <2>3, <2>4, Pushed, CallBegins
<1>. QED  BY <1>6, <1>7, <1>8 DEF ApplyDeferred, w

(* The next observer is called: where one is due, the call that announces  *)
(* waits for it.                                                           *)
LEMMA CallWaits ==
  ASSUME IInv, Running, Top.at \in Announcing, Top.todo # {}
  PROVE  LET b == [Top EXCEPT !.todo = @ \ {Min(@)}] IN
           b \in Frames /\ b.at = Top.at /\ b.win = Top.win
BY TopIsFrame DEF IInv, Frames

LEMMA ObserverRuns ==
  ASSUME IInv, Plain', Running, Announced, Top.at \in Announcing,
         UNCHANGED <<slot, handles, flushing, pendingUpdates>>
  PROVE  IInv'
<1>. DEFINE b == [Top EXCEPT !.todo = @ \ {Min(@)}]
            c == Call("user")
<1>1. Framed /\ Top.todo # {} /\ stack' = Append(Append(Under, b), c)
  BY DEF IInv, Announced
<1>2. b \in Frames /\ b.at = Top.at /\ b.win = Top.win
  BY <1>1, CallWaits
<1>3. c \in Frames /\ c.at = "user"
  BY FramesMade DEF Kinds, UserCode
<1>. HIDE DEF b, c
<1>4. /\ stack' \in Seq(Frames)
      /\ DOMAIN stack' = DOMAIN stack \cup {Len(stack) + 1} /\ Len(stack) + 1 \notin DOMAIN stack
      /\ stack'[Len(stack)] = b /\ stack'[Len(stack) + 1] = c
      /\ \A i \in DOMAIN stack \ {Len(stack)} : stack'[i] = stack[i]
  BY <1>1, <1>2, <1>3, Stacked
<1>5. \A i \in DOMAIN stack : stack'[i].at = stack[i].at /\ stack'[i].win = stack[i].win
  BY <1>2, <1>4 DEF Top
<1>6. pendingUpdates' = pendingUpdates + 0 /\ "user" \notin Counted /\ "user" \notin Holding
  BY <1>1, CallsAreFinite DEF IInv, CountsRight, Counted, Updates, Holding
<1>. QED  BY <1>3, <1>4, <1>5, <1>6, CallBegins

LEMMA ObserversRun ==
  ASSUME IInv, RunClosed \/ RunQuit \/ RunCreated
  PROVE  IInv'
<1>1. Plain /\ Framed /\ Running /\ Top.at \in Announcing /\ Top.todo # {}
  BY DEF IInv, RunClosed, RunQuit, RunCreated, At, Announced, Announcing
<1>2. CASE RunClosed \/ RunQuit
  <2>1. Announced /\ UNCHANGED <<slot, handles, flushing, pendingUpdates>>
    BY <1>2 DEF RunClosed, RunQuit, windowState, cycle
  <2>2. Plain'
    BY <1>1, <1>2 DEF RunClosed, RunQuit, windowState, cycle, history, Plain
  <2>. QED  BY <1>1, <2>1, <2>2, ObserverRuns
<1>3. CASE RunCreated
  <2>. DEFINE w == Top.win
              b == [Top EXCEPT !.todo = @ \ {Min(@)}]
              c == CallFor("window", w, 0)
  <2>1. UNCHANGED <<handles, removed, quitMode, quit, effects, flushing, fuel, closed, unheard>>
    BY <1>3 DEF RunCreated, history
  <2>2. CASE w = NoWindow
    <3>1. Announced /\ UNCHANGED <<slot, pendingUpdates, panicked>>
      BY <1>3, <2>2 DEF RunCreated
    <3>2. Plain'
      BY <1>1, <2>1, <3>1 DEF Plain
    <3>. QED  BY <1>1, <2>1, <3>1, <3>2, ObserverRuns
  <2>3. CASE w # NoWindow /\ slot[w] # "filled"
    <3>1. panicked' = TRUE /\ UNCHANGED <<slot, stack, pendingUpdates>>
      BY <1>3, <2>3 DEF RunCreated
    <3>2. Plain'
      BY <1>1, <2>1, <3>1 DEF Plain
    <3>. QED  BY <2>1, <3>1, <3>2, SameStack
  <2>4. CASE w # NoWindow /\ slot[w] = "filled"
    <3>1. /\ slot' = [slot EXCEPT ![w] = "empty"] /\ stack' = Append(Append(Under, b), c)
          /\ pendingUpdates' = pendingUpdates + 1 /\ panicked' = panicked
      BY <1>3, <2>4 DEF RunCreated, Enter
    <3>2. w \in Windows
      BY <1>1, <2>4, TopIsFrame DEF Frames
    <3>3. b \in Frames /\ b.at = Top.at /\ b.win = Top.win
      BY <1>1, CallWaits
    <3>. HIDE DEF b, w
    <3>4. c \in Frames /\ c.at = "window" /\ c.win = w
      BY <3>2, FramesMade DEF Kinds, UserCode
    <3>. HIDE DEF c
    <3>5. /\ stack' \in Seq(Frames)
          /\ DOMAIN stack' = DOMAIN stack \cup {Len(stack) + 1} /\ Len(stack) + 1 \notin DOMAIN stack
          /\ stack'[Len(stack)] = b /\ stack'[Len(stack) + 1] = c
          /\ \A i \in DOMAIN stack \ {Len(stack)} : stack'[i] = stack[i]
      BY <1>1, <3>1, <3>3, <3>4, Stacked
    <3>6. \A i \in DOMAIN stack : stack'[i].at = stack[i].at /\ stack'[i].win = stack[i].win
      BY <3>3, <3>5 DEF Top
    <3>7. Plain'
      BY <1>1, <2>1, <3>1 DEF Plain
    <3>8. "window" \in Counted
      BY DEF Counted, Updates, Holding
    <3>. QED  BY <2>1, <2>4, <3>1, <3>2, <3>4, <3>5, <3>6, <3>7, <3>8, CallBegins
  <2>. QED  BY <2>2, <2>3, <2>4
<1>. QED  BY <1>2, <1>3

(* The call of shutdown is the only one, so no window is in hand.          *)
LEMMA WindowsCleared ==
  ASSUME IInv, ClearWindows
  PROVE  IInv'
<1>. DEFINE n == Len(stack)
            c == Call("drain")
<1>1. Plain /\ Framed /\ Running /\ Top.at = "quit" /\ Become(c)
      /\ UNCHANGED <<removed, quitMode, quit, effects, pendingUpdates, flushing, fuel, panicked, closed, unheard>>
  BY DEF IInv, ClearWindows, At, cycle, history
<1>2. slot' = [w \in Windows |-> IF w \in OpenWindows THEN "gone" ELSE slot[w]] /\ handles' = {}
  BY DEF ClearWindows
<1>3. c \in Frames /\ c.at = "drain"
  BY FramesMade DEF Kinds
<1>. HIDE DEF c
<1>4. /\ n \in Nat \ {0} /\ DOMAIN stack = 1..n /\ Top = stack[n] /\ n \in DOMAIN stack
      /\ stack' \in Seq(Frames) /\ DOMAIN stack' = DOMAIN stack /\ stack'[n] = c
  BY <1>1, <1>3, TopIsFrame, Became
<1>. HIDE DEF n
<1>5. n = 1
  <2>1. n \in Calls({"quit", "drain"})
    BY <1>1, <1>4 DEF Calls
  <2>. QED  BY <2>1 DEF IInv, Bottomed
<1>6. stack[1].at = "quit" /\ stack'[1].at = "drain" /\ DOMAIN stack = {1} /\ DOMAIN stack' = {1}
  BY <1>1, <1>3, <1>4, <1>5
<1>7. \A A : /\ "quit" \notin A => Calls(A) = {}
             /\ "drain" \notin A => Calls(A)' = {}
  BY <1>6 DEF Calls
<1>8. /\ Calls(Holding)' = {} /\ Calls({"window"})' = {}
      /\ Calls({"flush"}) = {} /\ Calls({"flush"})' = {} /\ Calls(Counted) = {} /\ Calls(Counted)' = {}
  <2>1. /\ "quit" \notin {"flush"} /\ "quit" \notin Counted /\ "drain" \notin Counted
        /\ "drain" \notin {"flush"} /\ "drain" \notin Holding /\ "drain" \notin {"window"}
    BY DEF Counted, Updates, Holding
  <2>. QED  BY <1>7, <2>1
<1>9. slot' \in [Windows -> {"new", "empty", "filled", "gone"}]
      /\ \A w \in Windows : slot'[w] \notin {"empty", "filled"}
  BY <1>1, <1>2 DEF Plain, OpenWindows
<1>10. Plain'
  BY <1>1, <1>9 DEF Plain
<1>11. Framed'
  BY <1>4, <1>6 DEF Framed, Holding
<1>12. Held' /\ Handled'
  BY <1>2, <1>8, <1>9 DEF Held, Handled
<1>13. Bottomed'
  <2>1. \A i \in Calls({"quit", "drain"})' : i = 1
    BY <1>6 DEF Calls
  <2>. QED  BY <1>8, <2>1 DEF Bottomed
<1>14. CountsRight'
  BY <1>1, <1>8 DEF IInv, CountsRight
<1>. QED  BY <1>10, <1>11, <1>12, <1>13, <1>14 DEF IInv

-----------------------------------------------------------------------------
LEMMA NextIInv == IInv /\ [Next]_vars => IInv'
<1>. SUFFICES ASSUME IInv, [Next]_vars  PROVE IInv'
  OBVIOUS
<1>1. CASE Begin \/ Update \/ ApplyCreated \/ Shutdown
  BY <1>1, CallsBegin
<1>2. CASE \E w \in Windows : UpdateWindow(w) \/ Open(w)
  BY <1>2, WindowsTaken
<1>3. CASE NewEntity \/ (\E w \in Windows : RemoveWindow(w)) \/ (\E w \in Windows \cup {NoWindow} : Defer(w))
  BY <1>3, MarksAreSafe
<1>4. CASE Finish
  BY <1>4, FinishIsSafe
<1>5. CASE Return \/ EndCreated \/ EndFlush
  BY <1>5, CallsEnd
<1>6. CASE Trail \/ EndClosed \/ Built \/ Drawn
  BY <1>6, WindowsLeft
<1>7. CASE ApplyDeferred
  BY <1>7, DeferredApplied
<1>8. CASE RunClosed \/ RunQuit \/ RunCreated
  BY <1>8, ObserversRun
<1>9. CASE ClearWindows
  BY <1>9, WindowsCleared
<1>10. CASE UNCHANGED vars
  <2>1. Plain /\ UNCHANGED <<slot, handles, removed, quitMode, quit, effects, pendingUpdates, flushing,
                             stack, fuel, panicked, closed, unheard>>
    BY <1>10 DEF IInv, vars
  <2>2. Plain'
    BY <2>1 DEF Plain
  <2>. QED  BY <2>1, <2>2, SameStack
<1>. QED
  BY <1>1, <1>2, <1>3, <1>4, <1>5, <1>6, <1>7, <1>8, <1>9, <1>10 DEF Next, Operations

LEMMA Inductive == Spec => []IInv
BY InitIInv, NextIInv, PTL DEF Spec

(* The state keeps its type, flushing says that a flush is in progress,    *)
(* and pending_updates counts the updates: whatever user code nests, each  *)
(* update and each flush takes back the one it added.                      *)
THEOREM TypeCorrect == Spec => []TypeOK
<1>1. IInv => TypeOK
  <2>. SUFFICES ASSUME IInv  PROVE TypeOK
    OBVIOUS
  <2>1. Plain /\ Framed /\ Handled /\ CountsRight
    BY DEF IInv
  <2>2. effects \in Seq([kind : {"deferred", "created"}, win : Windows \cup {NoWindow}])
    <3>1. Effects \subseteq [kind : {"deferred", "created"}, win : Windows \cup {NoWindow}]
      BY DEF Effects
    <3>2. effects \in Seq(Effects)
      BY <2>1 DEF Plain
    <3>. HIDE DEF Effects
    <3>. QED  BY <3>1, <3>2, SeqMonotonic
  <2>3. handles \subseteq Windows
    BY <2>1 DEF Handled
  <2>4. \A i \in DOMAIN stack : stack[i].at \in UserCode \cup Updates \cup Announcing \cup {"flush", "drain"}
    <3>1. \A i \in DOMAIN stack : stack[i] \in Frames
      BY <2>1 DEF Framed
    <3>2. \A f \in Frames : f.at \in Kinds
      BY DEF Frames
    <3>. QED  BY <3>1, <3>2 DEF Kinds
  <2>. QED  BY <2>1, <2>2, <2>3, <2>4 DEF TypeOK, Plain, CountsRight, Counted
<1>. QED  BY <1>1, Inductive, PTL

(* A window is in its slot or in the hands of one call, the handles name   *)
(* those that are open, and no flush begins while a call has a window.     *)
THEOREM OneHolder == Spec => []InOnePlace
<1>1. IInv => InOnePlace
  <2>. SUFFICES ASSUME IInv  PROVE InOnePlace
    OBVIOUS
  <2>1. Plain /\ Framed /\ Held /\ Handled /\ Bottomed
    BY DEF IInv
  <2>2. ASSUME NEW w \in Windows
        PROVE  Cardinality(Holders(w)) = IF slot[w] = "empty" THEN 1 ELSE 0
    <3>1. CASE slot[w] = "empty"
      <4>1. PICK i \in Calls(Holding) : stack[i].win = w
        BY <2>1, <3>1 DEF Held
      <4>2. Holders(w) = {i}
        BY <2>1, <4>1 DEF Held, Holders
      <4>. QED  BY <3>1, <4>2, FS_Singleton
    <3>2. CASE slot[w] # "empty"
      <4>1. Holders(w) = {}
        BY <2>1, <3>2 DEF Held, Holders
      <4>. QED  BY <3>2, <4>1, FS_EmptySet
    <3>. QED  BY <3>1, <3>2
  <2>3. handles = {w \in OpenWindows : \A i \in Holders(w) : stack[i].at = "window"}
    <3>1. ASSUME NEW w \in Windows
          PROVE  w \in handles <=> w \in OpenWindows /\ \A i \in Holders(w) : stack[i].at = "window"
      <4>1. w \in handles <=> slot[w] = "filled" \/ \E i \in Calls({"window"}) : stack[i].win = w
        BY <2>1 DEF Handled
      <4>2. CASE slot[w] = "empty"
        <5>1. PICK i \in Calls(Holding) : stack[i].win = w
          BY <2>1, <4>2 DEF Held
        <5>2. \A j \in Calls(Holding) : stack[j].win = w <=> j = i
          BY <2>1, <5>1 DEF Held
        <5>3. \A j \in Calls({"window"}) : j \in Calls(Holding) /\ stack[j].at = "window"
          BY DEF Calls, Holding
        <5>4. i \in Calls({"window"}) <=> stack[i].at = "window"
          BY <5>1 DEF Calls
        <5>5. \A j : j \in Holders(w) <=> j = i
          BY <5>1, <5>2 DEF Holders
        <5>. QED  BY <4>1, <4>2, <5>1, <5>2, <5>3, <5>4, <5>5 DEF OpenWindows
      <4>3. CASE slot[w] # "empty"
        <5>1. \A j \in Calls(Holding) : stack[j].win # w
          BY <2>1, <4>3 DEF Held
        <5>2. \A j \in Calls({"window"}) : j \in Calls(Holding)
          BY DEF Calls, Holding
        <5>. QED  BY <4>1, <4>3, <5>1, <5>2 DEF Holders, OpenWindows
      <4>. QED  BY <4>2, <4>3
    <3>2. handles \subseteq Windows /\ OpenWindows \subseteq Windows
      BY <2>1 DEF Handled, OpenWindows
    <3>. QED  BY <3>1, <3>2
  <2>4. ASSUME NEW i \in Calls({"flush", "drain"}), NEW j \in 1..i - 1
        PROVE  stack[j].at \notin Holding
    <3>1. i \in Calls({"flush"}) \/ i \in Calls({"quit", "drain"})
      BY DEF Calls
    <3>2. CASE i \in Calls({"flush"})
      BY <2>1, <3>2 DEF Bottomed
    <3>3. CASE i \in Calls({"quit", "drain"})
      <4>1. i = 1
        BY <2>1, <3>3 DEF Bottomed
      <4>. QED  BY <4>1
    <3>. QED  BY <3>1, <3>2, <3>3
  <2>. QED  BY <2>2, <2>3, <2>4 DEF InOnePlace
<1>. QED  BY <1>1, Inductive, PTL

-----------------------------------------------------------------------------
(* Closing: what is owed to a removed window, and who is told.             *)

Deferred(w) == \E i \in DOMAIN effects : effects[i] = [kind |-> "deferred", win |-> w]

(* A window that was removed before it got into its slot is closed by the  *)
(* effect that open_window left before it drew the window.                 *)
Owing ==
  /\ \A w \in removed : slot[w] = "filled" => Deferred(w)
  /\ \A i \in Calls({"draw"}) : Deferred(stack[i].win)

(* The outermost call flushes before it returns. *)
Grounded ==
  /\ Running => stack[1].at \in {"update", "flush", "quit", "drain"}
  /\ ~Running => effects = <<>>

(* A close observer that has not heard of a closed window is to be called, *)
(* unless its set was taken when the window closed.                        *)
Told ==
  /\ unheard \subseteq closed /\ \A w \in closed : slot[w] = "gone"
  /\ heard \subseteq (closed \ unheard) \X (1..ClosedObservers)
  /\ \A i \in Calls({"closed"}) : /\ stack[i].todo \subseteq 1..ClosedObservers
                                  /\ stack[i].todo # {} => stack[i].win \in closed \ unheard
  /\ \A w \in closed \ unheard, n \in 1..ClosedObservers :
       <<w, n>> \in heard \/ \E i \in Calls({"closed"}) : stack[i].win = w /\ n \in stack[i].todo

Opened == {w \in Windows : slot[w] # "new"}

LastAsks ==
  quitMode = "last" /\ closed # {} /\ Opened = closed => quit \/ Calls({"closed"}) # {}

CInv == IInv /\ Owing /\ Grounded /\ Told /\ LastAsks

(* The least of a set of numbers, as MaxIsMember. *)
LEMMA MinIsMember ==
  ASSUME NEW n \in Nat, NEW S \in SUBSET (1..n), S # {}
  PROVE  Min(S) \in S
<1>. DEFINE Below(x) == {y \in S : y < x}
<1>1. IsFiniteSet(S)
  <2>1. IsFiniteSet(1..n)
    BY FS_Interval
  <2>. QED  BY <2>1, FS_Subset
<1>2. IsWellFoundedOn(StrictSubsetOrdering(S), SUBSET S)
  BY <1>1, FS_StrictSubsetOrderingWellFounded, FS_FiniteSubsetsOfFinite
<1>. DEFINE T == {Below(x) : x \in S}
<1>3. PICK B \in T : \A C \in T : ~ (<<C, B>> \in StrictSubsetOrdering(S))
  <2>1. T \subseteq SUBSET S /\ T # {}
    OBVIOUS
  <2>. HIDE DEF T
  <2>. QED  BY <1>2, <2>1, WFMin
<1>4. PICK x \in S : B = Below(x)
  BY <1>3
<1>5. \A y \in S : x <= y
  <2>1. S \subseteq Int
    OBVIOUS
  <2>2. SUFFICES ASSUME NEW y \in S, y < x  PROVE FALSE
    BY <2>1
  <2>3. Below(y) \subseteq Below(x) /\ Below(y) # Below(x)
    <3>1. \A z \in S : z < y => z < x
      BY <2>1, <2>2
    <3>2. y \in Below(x) /\ y \notin Below(y)
      BY <2>1, <2>2
    <3>. QED  BY <3>1, <3>2
  <2>4. Below(y) \subseteq S /\ Below(x) \subseteq S /\ Below(y) \in T
    OBVIOUS
  <2>5. <<Below(y), B>> \in StrictSubsetOrdering(S)
    <3>. HIDE DEF Below
    <3>. QED  BY <1>4, <2>3, <2>4 DEF StrictSubsetOrdering
  <2>. QED  BY <1>3, <2>4, <2>5
<1>. QED  BY <1>5 DEF Min

(* Which calls a step leaves as they are. *)
SameCalls(A) == Calls(A)' = Calls(A) /\ \A i \in Calls(A) : stack'[i] = stack[i]

LEMMA SameAfterPush ==
  ASSUME Framed, NEW A, NEW c \in Frames, stack' = Append(stack, c), c.at \notin A
  PROVE  SameCalls(A)
<1>1. Framed /\ c \in Frames /\ stack' = Append(stack, c)
  OBVIOUS
<1>. QED  BY <1>1, Pushed DEF SameCalls, Calls

LEMMA SameAfterPop ==
  ASSUME Framed, NEW A, Running, Pop, Top.at \notin A
  PROVE  SameCalls(A)
<1>1. Framed /\ Running /\ Pop
  OBVIOUS
<1>. QED  BY <1>1, Popped, TopIsFrame DEF SameCalls, Calls

LEMMA SameAfterTurn ==
  ASSUME Framed, NEW A, Running, NEW c \in Frames, Become(c), Top.at \notin A, c.at \notin A
  PROVE  SameCalls(A)
<1>1. Framed /\ Running /\ c \in Frames /\ Become(c)
  OBVIOUS
<1>. QED  BY <1>1, Became, TopIsFrame DEF SameCalls, Calls

LEMMA SameAfterStacked ==
  ASSUME Framed, NEW A, Running, NEW b \in Frames, NEW c \in Frames,
         stack' = Append(Append(Under, b), c), Top.at \notin A, b.at = Top.at, c.at \notin A
  PROVE  SameCalls(A)
<1>1. Framed /\ Running /\ b \in Frames /\ c \in Frames /\ stack' = Append(Append(Under, b), c)
  OBVIOUS
<1>. QED  BY <1>1, Stacked, TopIsFrame DEF SameCalls, Calls

LEMMA SameWithStack ==
  ASSUME NEW A, stack' = stack
  PROVE  SameCalls(A)
BY DEF SameCalls, Calls

(* First draws and announcements of closed windows begin and end in a few  *)
(* steps only.                                                             *)
LEMMA MostCallsStay ==
  ASSUME IInv, Next, NEW x \in {"draw", "closed"}
  PROVE  \/ SameCalls({x})
         \/ x = "draw" /\ (Built \/ Drawn)
         \/ x = "closed" /\ (Trail \/ RunClosed \/ EndClosed)
<1>1. Framed /\ Plain
  BY DEF IInv
<1>2. CASE Begin \/ Update
  <2>1. Call("update") \in Frames /\ Call("update").at = "update"
    BY FramesMade DEF Kinds, UserCode
  <2>2. stack' = Append(stack, Call("update"))
    BY <1>2 DEF Begin, Update, Push
  <2>. QED  BY <1>1, <2>1, <2>2, SameAfterPush
<1>3. CASE Shutdown
  <2>1. QuitObservers \in Nat /\ "quit" \in Kinds
    BY CountsAssumption DEF Kinds, Announcing
  <2>2. CallFor("quit", NoWindow, QuitObservers) \in Frames
        /\ CallFor("quit", NoWindow, QuitObservers).at = "quit"
    BY <2>1, FramesMade
  <2>3. stack' = Append(stack, CallFor("quit", NoWindow, QuitObservers))
    BY <1>3 DEF Shutdown, Push
  <2>. QED  BY <1>1, <2>2, <2>3, SameAfterPush
<1>4. CASE ApplyCreated
  <2>1. PICK n \in Nat : stack' = Append(stack, CallFor("created", Head(effects).win, n))
    BY <1>4, CountsAssumption DEF ApplyCreated, Push
  <2>2. Head(effects).win \in Windows \cup {NoWindow} /\ "created" \in Kinds
    <3>1. Head(effects) \in Effects
      BY <1>1, <1>4, HeadTailProperties DEF ApplyCreated, NextEffect, Plain
    <3>. QED  BY <3>1 DEF Effects, Kinds, Announcing
  <2>3. CallFor("created", Head(effects).win, n) \in Frames
        /\ CallFor("created", Head(effects).win, n).at = "created"
    BY <2>2, FramesMade
  <2>. QED  BY <1>1, <2>1, <2>3, SameAfterPush
<1>5. ASSUME NEW w \in Windows, UpdateWindow(w) \/ Open(w)
      PROVE  SameCalls({x})
  <2>1. PICK at \in {"window", "build"} : stack' = Append(stack, CallFor(at, w, 0))
    <3>1. CASE UpdateWindow(w)
      BY <3>1 DEF UpdateWindow, Enter
    <3>2. CASE Open(w)
      BY <3>2 DEF Open, Push
    <3>. QED  BY <1>5, <3>1, <3>2
  <2>2. CallFor(at, w, 0) \in Frames /\ CallFor(at, w, 0).at = at
    BY FramesMade DEF Kinds, UserCode
  <2>. QED  BY <1>1, <2>1, <2>2, SameAfterPush
<1>6. CASE NewEntity \/ (\E w \in Windows : RemoveWindow(w)) \/ (\E w \in Windows \cup {NoWindow} : Defer(w))
  BY <1>6, SameWithStack DEF NewEntity, RemoveWindow, Defer
<1>7. CASE Finish
  <2>1. Running /\ Top.at \in {"update", "leave"} /\ (Pop \/ Become(Call("flush")))
    BY <1>7 DEF Finish, At
  <2>2. Call("flush") \in Frames /\ Call("flush").at = "flush"
    BY FramesMade DEF Kinds
  <2>. QED  BY <1>1, <2>1, <2>2, SameAfterPop, SameAfterTurn
<1>8. CASE Return \/ EndCreated \/ EndFlush
  <2>1. Running /\ Top.at \in {"user", "created", "flush", "drain"} /\ Pop
    BY <1>8 DEF Return, EndCreated, EndFlush, Flushing, At
  <2>. QED  BY <1>1, <2>1, SameAfterPop
<1>9. CASE Trail
  <2>1. SUFFICES ASSUME x = "draw"  PROVE SameCalls({x})
    BY <1>9
  <2>2. Running /\ Top.at = "window" /\ Top.win \in Windows
    BY <1>1, <1>9, TopIsFrame DEF Trail, At, Framed, Holding
  <2>3. PICK c \in Frames : Become(c) /\ c.at \in {"closed", "leave"}
    <3>1. \A n \in {0, ClosedObservers} : CallFor("closed", Top.win, n) \in Frames
                                          /\ CallFor("closed", Top.win, n).at = "closed"
      <4>1. {0, ClosedObservers} \subseteq Nat /\ "closed" \in Kinds
        BY CountsAssumption DEF Kinds, Updates
      <4>. QED  BY <2>2, <4>1, FramesMade
    <3>2. Call("leave") \in Frames /\ Call("leave").at = "leave"
      BY FramesMade DEF Kinds, Updates
    <3>. QED  BY <1>9, <3>1, <3>2 DEF Trail
  <2>. QED  BY <1>1, <2>1, <2>2, <2>3, SameAfterTurn
<1>10. CASE RunClosed
  <2>1. SUFFICES ASSUME x = "draw"  PROVE SameCalls({x})
    BY <1>10
  <2>2. Running /\ Top.at = "closed" /\ Announced /\ Top.todo # {} /\ Top.at \in Announcing
    BY <1>10 DEF RunClosed, At, Announced, Announcing
  <2>. DEFINE b == [Top EXCEPT !.todo = @ \ {Min(@)}]
  <2>3. b \in Frames /\ b.at = Top.at
    BY <2>2, CallWaits
  <2>4. Call("user") \in Frames /\ Call("user").at = "user"
    BY FramesMade DEF Kinds, UserCode
  <2>5. stack' = Append(Append(Under, b), Call("user"))
    BY <2>2 DEF Announced
  <2>. HIDE DEF b
  <2>. QED  BY <1>1, <2>1, <2>2, <2>3, <2>4, <2>5, SameAfterStacked
<1>11. CASE RunQuit
  <2>1. Running /\ Top.at = "quit" /\ Announced /\ Top.todo # {} /\ Top.at \in Announcing
    BY <1>11 DEF RunQuit, At, Announced, Announcing
  <2>. DEFINE b == [Top EXCEPT !.todo = @ \ {Min(@)}]
  <2>2. b \in Frames /\ b.at = Top.at
    BY <2>1, CallWaits
  <2>3. Call("user") \in Frames /\ Call("user").at = "user"
    BY FramesMade DEF Kinds, UserCode
  <2>4. stack' = Append(Append(Under, b), Call("user"))
    BY <2>1 DEF Announced
  <2>. HIDE DEF b
  <2>. QED  BY <1>1, <2>1, <2>2, <2>3, <2>4, SameAfterStacked
<1>12. CASE RunCreated
  <2>1. Running /\ Top.at = "created" /\ Top.todo # {} /\ Top.at \in Announcing
    BY <1>12 DEF RunCreated, At, Announcing
  <2>. DEFINE b == [Top EXCEPT !.todo = @ \ {Min(@)}]
  <2>2. b \in Frames /\ b.at = Top.at
    BY <2>1, CallWaits
  <2>3. Call("user") \in Frames /\ Call("user").at = "user"
    BY FramesMade DEF Kinds, UserCode
  <2>4. Top.win # NoWindow =>
          CallFor("window", Top.win, 0) \in Frames /\ CallFor("window", Top.win, 0).at = "window"
    BY <1>1, <2>1, TopIsFrame, FramesMade DEF Kinds, UserCode, Frames
  <2>5. \/ stack' = Append(Append(Under, b), Call("user"))
        \/ Top.win # NoWindow /\ stack' = Append(Append(Under, b), CallFor("window", Top.win, 0))
        \/ stack' = stack
    BY <1>12 DEF RunCreated, Announced, Enter
  <2>. HIDE DEF b
  <2>. QED  BY <1>1, <2>1, <2>2, <2>3, <2>4, <2>5, SameAfterStacked, SameWithStack
<1>13. CASE EndClosed
  <2>1. SUFFICES ASSUME x = "draw"  PROVE SameCalls({x})
    BY <1>13
  <2>2. Running /\ Top.at = "closed" /\ Become(Call("leave"))
    BY <1>13 DEF EndClosed, At
  <2>3. Call("leave") \in Frames /\ Call("leave").at = "leave"
    BY FramesMade DEF Kinds, Updates
  <2>. QED  BY <1>1, <2>1, <2>2, <2>3, SameAfterTurn
<1>14. CASE Built
  <2>1. SUFFICES ASSUME x = "closed"  PROVE SameCalls({x})
    BY <1>14
  <2>2. Running /\ Top.at = "build" /\ Become(CallFor("draw", Top.win, 0)) /\ Top.win \in Windows
    BY <1>1, <1>14, TopIsFrame DEF Built, At, Framed, Holding
  <2>3. CallFor("draw", Top.win, 0) \in Frames /\ CallFor("draw", Top.win, 0).at = "draw"
    BY <2>2, FramesMade DEF Kinds, UserCode
  <2>. QED  BY <1>1, <2>1, <2>2, <2>3, SameAfterTurn
<1>15. CASE Drawn
  <2>1. SUFFICES ASSUME x = "closed"  PROVE SameCalls({x})
    BY <1>15
  <2>2. Running /\ Top.at = "draw" /\ Become(Call("leave"))
    BY <1>15 DEF Drawn, At
  <2>3. Call("leave") \in Frames /\ Call("leave").at = "leave"
    BY FramesMade DEF Kinds, Updates
  <2>. QED  BY <1>1, <2>1, <2>2, <2>3, SameAfterTurn
<1>16. CASE ApplyDeferred
  <2>1. Head(effects) \in Effects /\ Head(effects).kind = "deferred"
    BY <1>1, <1>16, HeadTailProperties DEF ApplyDeferred, NextEffect, Plain
  <2>2. /\ CallFor("window", Head(effects).win, 0) \in Frames
        /\ CallFor("window", Head(effects).win, 0).at = "window"
        /\ Call("user") \in Frames /\ Call("user").at = "user"
    BY <2>1, FramesMade DEF Effects, Kinds, UserCode
  <2>3. \/ stack' = stack \/ stack' = Append(stack, CallFor("window", Head(effects).win, 0))
        \/ stack' = Append(stack, Call("user"))
    BY <1>16 DEF ApplyDeferred, Enter, Push
  <2>. QED  BY <1>1, <2>2, <2>3, SameAfterPush, SameWithStack
<1>17. CASE ClearWindows
  <2>1. Running /\ Top.at = "quit" /\ Become(Call("drain"))
    BY <1>17 DEF ClearWindows, At
  <2>2. Call("drain") \in Frames /\ Call("drain").at = "drain"
    BY FramesMade DEF Kinds
  <2>. QED  BY <1>1, <2>1, <2>2, SameAfterTurn
<1>. QED
  BY <1>2, <1>3, <1>4, <1>5, <1>6, <1>7, <1>8, <1>9, <1>10, <1>11, <1>12, <1>13, <1>14, <1>15,
     <1>16, <1>17 DEF Next, Operations

LEMMA FrameWindows ==
  ASSUME IInv, Running, Top.at \in Holding
  PROVE  Top.win \in Windows /\ slot[Top.win] = "empty"
<1>1. /\ Framed /\ Len(stack) \in DOMAIN stack /\ Top = stack[Len(stack)]
      /\ \A i \in Calls(Holding) : slot[stack[i].win] = "empty"
  BY TopIsFrame DEF IInv, Held
<1>. QED  BY <1>1 DEF Calls, Framed

LEMMA DeferredStays ==
  ASSUME Plain, NEW w, Deferred(w), \/ effects' = effects
                                    \/ \E x \in Effects : effects' = Append(effects, x)
  PROVE  Deferred(w)'
<1>1. effects \in Seq(Effects)
  BY DEF Plain
<1>2. CASE effects' = effects
  BY <1>2 DEF Deferred
<1>3. ASSUME NEW x \in Effects, effects' = Append(effects, x)  PROVE Deferred(w)'
  <2>1. DOMAIN effects \subseteq DOMAIN effects' /\ \A i \in DOMAIN effects : effects'[i] = effects[i]
    BY <1>1, <1>3
  <2>. QED  BY <2>1 DEF Deferred
<1>. QED  BY <1>2, <1>3

LEMMA DeferredLeft ==
  ASSUME Plain, NEW w, Deferred(w), effects # <<>>, effects' = Tail(effects),
         Head(effects) # [kind |-> "deferred", win |-> w]
  PROVE  Deferred(w)'
<1>1. effects \in Seq(Effects) /\ effects # <<>>
  BY DEF Plain
<1>2. PICK i \in DOMAIN effects : effects[i] = [kind |-> "deferred", win |-> w]
  BY DEF Deferred
<1>3. i # 1
  BY <1>1, <1>2
<1>4. i - 1 \in DOMAIN effects' /\ effects'[i - 1] = effects[i]
  BY <1>1, <1>2, <1>3
<1>. QED  BY <1>2, <1>4 DEF Deferred

(* Windows come into their slots, and are removed, in a few steps only. *)
LEMMA SlotsMove ==
  ASSUME IInv, Next, NEW w \in Windows
  PROVE  /\ slot'[w] = "filled" => \/ slot[w] = "filled"
                                   \/ Drawn /\ w = Top.win
                                   \/ Trail /\ w = Top.win /\ w \notin removed
         /\ slot[w] = "gone" => slot'[w] = "gone"
         /\ slot[w] = "new" => slot'[w] = "new" \/ Open(w)
         /\ slot'[w] = "new" => slot[w] = "new"
<1>1. slot \in [Windows -> {"new", "empty", "filled", "gone"}]
  BY DEF IInv, Plain
<1>2. CASE UNCHANGED slot
  BY <1>2
<1>3. CASE Trail
  <2>1. Top.win \in Windows /\ slot[Top.win] = "empty"
    BY <1>3, FrameWindows DEF Trail, At, Holding
  <2>. QED  BY <1>1, <1>3, <2>1 DEF Trail
<1>4. CASE Drawn
  <2>1. Top.win \in Windows /\ slot[Top.win] = "empty"
    BY <1>4, FrameWindows DEF Drawn, At, Holding
  <2>. QED  BY <1>1, <1>4, <2>1 DEF Drawn
<1>5. ASSUME NEW v \in Windows, UpdateWindow(v) \/ Open(v)
      PROVE  /\ slot'[w] = "filled" => slot[w] = "filled"
             /\ slot[w] = "gone" => slot'[w] = "gone"
             /\ slot[w] = "new" => slot'[w] = "new" \/ Open(w)
             /\ slot'[w] = "new" => slot[w] = "new"
  BY <1>1, <1>5 DEF UpdateWindow, Open, Enter
<1>6. CASE ApplyDeferred \/ RunCreated
  <2>1. UNCHANGED slot \/ \E v : slot[v] = "filled" /\ slot' = [slot EXCEPT ![v] = "empty"]
    BY <1>6 DEF ApplyDeferred, RunCreated, Enter
  <2>. QED  BY <1>1, <2>1
<1>7. CASE ClearWindows
  BY <1>1, <1>7 DEF ClearWindows, OpenWindows
<1>8. CASE Begin \/ Finish \/ Return \/ RunClosed \/ EndClosed \/ Update \/ NewEntity
           \/ (\E v \in Windows : RemoveWindow(v)) \/ (\E v \in Windows \cup {NoWindow} : Defer(v))
           \/ Built \/ ApplyCreated
           \/ EndCreated \/ EndFlush \/ Shutdown \/ RunQuit
  <2>1. UNCHANGED slot
    BY <1>8 DEF Begin, Finish, Return, RunClosed, EndClosed, Update, NewEntity, RemoveWindow, Defer,
       Built, ApplyCreated, EndCreated, EndFlush, Shutdown, RunQuit, windowState
  <2>. QED  BY <1>2, <2>1
<1>. QED  BY <1>3, <1>4, <1>5, <1>6, <1>7, <1>8 DEF Next, Operations

LEMMA RemovedInHand ==
  ASSUME IInv, NEW w \in Windows, RemoveWindow(w)
  PROVE  slot[w] = "empty" /\ UNCHANGED slot
<1>1. PICK i \in Calls(Holding) : stack[i].win = w
  BY DEF RemoveWindow, InHand
<1>. QED  BY <1>1 DEF IInv, Held, RemoveWindow

(* How the queue of effects changes. *)
LEMMA QueueMoves ==
  ASSUME IInv, Next
  PROVE  \/ effects' = effects \/ \E x \in Effects : effects' = Append(effects, x)
         \/ /\ ApplyDeferred \/ ApplyCreated
            /\ effects # <<>> /\ effects' = Tail(effects)
            /\ Calls({"draw"}) = {}
<1>1. Plain /\ Framed
  BY DEF IInv
<1>2. CASE NewEntity
  <2>1. [kind |-> "created", win |-> CurrentWindow] \in Effects
    BY <1>1, CurrentIsWindow DEF Effects
  <2>. QED  BY <1>2, <2>1 DEF NewEntity
<1>3. ASSUME NEW w \in Windows \cup {NoWindow}, Defer(w)
      PROVE  \E x \in Effects : effects' = Append(effects, x)
  <2>1. [kind |-> "deferred", win |-> w] \in Effects
    BY DEF Effects
  <2>. QED  BY <1>3, <2>1 DEF Defer
<1>4. CASE Built
  <2>1. [kind |-> "deferred", win |-> Top.win] \in Effects
    BY <1>4, FrameWindows DEF Built, At, Holding, Effects
  <2>. QED  BY <1>4, <2>1 DEF Built
<1>5. CASE ApplyDeferred \/ ApplyCreated
  <2>1. effects # <<>> /\ effects' = Tail(effects) /\ Running /\ Top.at \in {"flush", "drain"}
    BY <1>5 DEF ApplyDeferred, ApplyCreated, NextEffect, Flushing, At
  <2>. DEFINE n == Len(stack)
  <2>2. n \in Nat \ {0} /\ n \in DOMAIN stack /\ Top = stack[n] /\ DOMAIN stack = 1..n
    BY <1>1, <2>1, TopIsFrame
  <2>. HIDE DEF n
  <2>3. \A j \in 1..n - 1 : stack[j].at \notin Holding
    <3>1. CASE Top.at = "flush"
      <4>1. n \in Calls({"flush"})
        BY <2>2, <3>1 DEF Calls
      <4>. QED  BY <4>1 DEF IInv, Bottomed
    <3>2. CASE Top.at = "drain"
      <4>1. n \in Calls({"quit", "drain"})
        BY <2>2, <3>2 DEF Calls
      <4>2. n = 1
        BY <4>1 DEF IInv, Bottomed
      <4>. QED  BY <4>2
    <3>. QED  BY <2>1, <3>1, <3>2
  <2>4. \A i \in DOMAIN stack : stack[i].at # "draw"
    BY <2>1, <2>2, <2>3 DEF Holding
  <2>. QED  BY <1>5, <2>1, <2>4 DEF Calls
<1>6. CASE UNCHANGED effects
  BY <1>6
<1>7. CASE Begin \/ Finish \/ Return \/ Trail \/ RunClosed \/ EndClosed \/ Update
           \/ (\E w \in Windows : UpdateWindow(w) \/ RemoveWindow(w) \/ Open(w)) \/ Drawn \/ RunCreated
           \/ EndCreated \/ EndFlush \/ Shutdown \/ RunQuit \/ ClearWindows
  <2>1. UNCHANGED effects
    BY <1>7 DEF Begin, Finish, Return, Trail, RunClosed, EndClosed, Update, UpdateWindow, RemoveWindow,
       Open, Drawn, RunCreated, EndCreated, EndFlush, Shutdown, RunQuit, ClearWindows, cycle
  <2>. QED  BY <2>1
<1>. QED  BY <1>2, <1>3, <1>4, <1>5, <1>7 DEF Next, Operations

LEMMA OwingStays ==
  ASSUME IInv, Owing, Next
  PROVE  Owing'
<1>1. Plain /\ Framed
  BY DEF IInv
<1>2. ASSUME NEW w \in removed'
      PROVE  w \in Windows /\ (w \in removed \/ (slot[w] = "empty" /\ UNCHANGED slot))
  <2>1. CASE \E v \in Windows : RemoveWindow(v)
    <3>1. PICK v \in Windows : RemoveWindow(v)
      BY <2>1
    <3>2. removed' = removed \cup {v}
      BY <3>1 DEF RemoveWindow
    <3>. QED  BY <1>1, <3>1, <3>2, RemovedInHand DEF Plain
  <2>2. CASE ~ \E v \in Windows : RemoveWindow(v)
    <3>1. removed' = removed
      BY <2>2 DEF Next, Operations, Begin, Finish, Return, Trail, RunClosed, EndClosed, Update,
         UpdateWindow, Defer, Open, NewEntity, Built, Drawn, ApplyDeferred, ApplyCreated, RunCreated,
         EndCreated, EndFlush, Shutdown, RunQuit, ClearWindows, windowState
    <3>. QED  BY <1>1, <3>1 DEF Plain
  <2>. QED  BY <2>1, <2>2
<1>3. CASE ApplyDeferred \/ ApplyCreated
  <2>1. effects # <<>> /\ effects' = Tail(effects) /\ effects \in Seq(Effects)
    BY <1>1, <1>3 DEF ApplyDeferred, ApplyCreated, NextEffect, Plain
  <2>2. SameCalls({"draw"}) /\ ~Drawn /\ ~Trail /\ Calls({"draw"}) = {}
    <3>1. ~Drawn /\ ~Trail /\ ~Built
      BY <1>3 DEF ApplyDeferred, ApplyCreated, NextEffect, Flushing, At, Drawn, Trail, Built
    <3>2. Len(effects') # Len(effects) /\ \A x \in Effects : effects' # Append(effects, x)
      BY <2>1
    <3>3. effects' # effects
      BY <3>2
    <3>. QED  BY <3>1, <3>2, <3>3, MostCallsStay, QueueMoves
  <2>3. ASSUME NEW w \in removed', slot'[w] = "filled"  PROVE Deferred(w)'
    <3>1. w \in Windows /\ w \in removed /\ slot[w] = "filled"
      <4>1. w \in Windows /\ slot[w] = "filled"
        BY <1>2, <2>2, <2>3, SlotsMove
      <4>. QED  BY <1>2, <4>1
    <3>2. Head(effects) # [kind |-> "deferred", win |-> w]
      <4>1. SUFFICES ASSUME Head(effects) = [kind |-> "deferred", win |-> w]  PROVE FALSE
        OBVIOUS
      <4>2. Head(effects).win = w /\ Head(effects).kind = "deferred"
        BY <4>1
      <4>3. Enter(w, stack)
        BY <1>3, <3>1, <4>2, NoWindowAssumption DEF ApplyDeferred, ApplyCreated, NextEffect
      <4>. QED  BY <1>1, <2>3, <3>1, <4>3 DEF Enter, Plain
    <3>3. Deferred(w)
      BY <3>1 DEF Owing
    <3>. QED  BY <1>1, <2>1, <3>2, <3>3, DeferredLeft
  <2>4. Calls({"draw"})' = {}
    BY <2>2 DEF SameCalls
  <2>. QED  BY <2>3, <2>4 DEF Owing
<1>4. CASE ~ (ApplyDeferred \/ ApplyCreated)
  <2>1. \A w : Deferred(w) => Deferred(w)'
    BY <1>1, <1>4, QueueMoves, DeferredStays
  <2>2. ASSUME NEW w \in removed', slot'[w] = "filled"  PROVE Deferred(w)'
    <3>1. w \in Windows
      BY <1>2
    <3>2. CASE slot[w] = "filled"
      <4>1. w \in removed
        BY <1>2, <3>2
      <4>. QED  BY <2>1, <3>2, <4>1 DEF Owing
    <3>3. CASE Drawn /\ w = Top.win
      <4>1. Running /\ Top.at = "draw"
        BY <3>3 DEF Drawn, At
      <4>2. Len(stack) \in Calls({"draw"}) /\ stack[Len(stack)].win = w
        BY <1>1, <3>3, <4>1, TopIsFrame DEF Calls
      <4>. QED  BY <2>1, <4>2 DEF Owing
    <3>4. CASE slot[w] # "filled" /\ Trail /\ w = Top.win /\ w \notin removed
      <4>1. removed' = removed
        BY <3>4 DEF Trail
      <4>. QED  BY <3>4, <4>1
    <3>. QED  BY <2>2, <3>1, <3>2, <3>3, <3>4, SlotsMove
  <2>3. ASSUME NEW i \in Calls({"draw"})', NEW w, w = stack'[i].win  PROVE Deferred(w)'
    <3>1. CASE SameCalls({"draw"})
      <4>1. i \in Calls({"draw"}) /\ stack[i].win = w
        BY <2>3, <3>1 DEF SameCalls
      <4>. QED  BY <2>1, <4>1 DEF Owing
    <3>2. CASE Drawn \/ Built
      <4>. DEFINE c == IF Drawn THEN Call("leave") ELSE CallFor("draw", Top.win, 0)
      <4>1. Running /\ Become(c)
        BY <3>2 DEF Drawn, Built, At
      <4>2. Top.win \in Windows
        BY <3>2, FrameWindows DEF Drawn, Built, At, Holding
      <4>3. c \in Frames /\ (c.at = "draw" => Built /\ c.win = Top.win)
        <5>1. CASE Drawn
          BY <5>1, FramesMade DEF Kinds, Updates
        <5>2. CASE ~Drawn
          BY <3>2, <4>2, <5>2, FramesMade DEF Kinds, UserCode
        <5>. QED  BY <5>1, <5>2
      <4>. HIDE DEF c
      <4>4. stack'[Len(stack)] = c /\ DOMAIN stack' = DOMAIN stack
            /\ \A j \in DOMAIN stack \ {Len(stack)} : stack'[j] = stack[j]
        BY <1>1, <4>1, <4>3, Became
      <4>5. CASE i = Len(stack)
        <5>1. Built /\ w = Top.win
          BY <2>3, <4>3, <4>4, <4>5 DEF Calls
        <5>2. effects' = Append(effects, [kind |-> "deferred", win |-> Top.win]) /\ effects \in Seq(Effects)
          BY <1>1, <5>1 DEF Built, Plain
        <5>3. Len(effects) + 1 \in DOMAIN effects'
              /\ effects'[Len(effects) + 1] = [kind |-> "deferred", win |-> Top.win]
          BY <5>2
        <5>. QED  BY <5>1, <5>3 DEF Deferred
      <4>6. CASE i # Len(stack)
        <5>1. i \in Calls({"draw"}) /\ stack[i].win = w
          BY <2>3, <4>4, <4>6 DEF Calls
        <5>. QED  BY <2>1, <5>1 DEF Owing
      <4>. QED  BY <4>5, <4>6
    <3>. QED  BY <3>1, <3>2, MostCallsStay
  <2>. QED  BY <2>2, <2>3 DEF Owing, Deferred
<1>. QED  BY <1>3, <1>4

(* The bottom of the stack. *)
LEMMA BottomAfterPush ==
  ASSUME Framed, Grounded, NEW c \in Frames, stack' = Append(stack, c),
         Running \/ c.at \in {"update", "quit"}
  PROVE  Grounded'
<1>1. /\ DOMAIN stack' = DOMAIN stack \cup {Len(stack) + 1} /\ DOMAIN stack = 1..Len(stack)
      /\ Len(stack) \in Nat /\ stack'[Len(stack) + 1] = c /\ stack' \in Seq(Frames)
      /\ \A i \in DOMAIN stack : stack'[i] = stack[i]
  BY Pushed
<1>2. stack' # <<>>
  BY <1>1
<1>3. CASE Running
  <2>1. 1 \in DOMAIN stack
    BY <1>1, <1>3, TopIsFrame
  <2>. QED  BY <1>1, <1>2, <1>3, <2>1 DEF Grounded, Running
<1>4. CASE ~Running
  <2>1. Len(stack) = 0
    BY <1>4 DEF Running
  <2>. QED  BY <1>1, <1>2, <1>4, <2>1 DEF Grounded, Running
<1>. QED  BY <1>3, <1>4

LEMMA BottomAfterPop ==
  ASSUME Framed, Grounded, Running, Pop,
         effects' = <<>> \/ Top.at \notin {"update", "flush", "quit", "drain"} \/ Len(stack) # 1
  PROVE  Grounded'
<1>1. /\ DOMAIN stack' = DOMAIN stack \ {Len(stack)} /\ DOMAIN stack = 1..Len(stack)
      /\ Len(stack) \in Nat \ {0} /\ stack' \in Seq(Frames) /\ Top = stack[Len(stack)]
      /\ \A i \in DOMAIN stack' : stack'[i] = stack[i]
  BY Popped, TopIsFrame
<1>2. CASE Len(stack) = 1
  <2>1. stack' = <<>>
    BY <1>1, <1>2
  <2>2. Top.at \in {"update", "flush", "quit", "drain"}
    BY <1>1, <1>2 DEF Grounded
  <2>. QED  BY <1>2, <2>1, <2>2 DEF Grounded, Running
<1>3. CASE Len(stack) # 1
  <2>1. 1 \in DOMAIN stack'
    BY <1>1, <1>3
  <2>2. stack' # <<>>
    BY <2>1
  <2>. QED  BY <1>1, <2>1, <2>2 DEF Grounded, Running
<1>. QED  BY <1>2, <1>3

LEMMA BottomAfterTurn ==
  ASSUME Framed, Grounded, Running, NEW c \in Frames, Become(c),
         Top.at \notin {"update", "flush", "quit", "drain"} \/ c.at \in {"flush", "drain"}
  PROVE  Grounded'
<1>1. /\ DOMAIN stack' = DOMAIN stack /\ DOMAIN stack = 1..Len(stack) /\ stack'[Len(stack)] = c
      /\ Len(stack) \in Nat \ {0} /\ Top = stack[Len(stack)]
      /\ \A i \in DOMAIN stack \ {Len(stack)} : stack'[i] = stack[i]
  BY Became, TopIsFrame
<1>2. 1 \in DOMAIN stack' /\ stack' # <<>>
  BY <1>1
<1>3. stack'[1].at \in {"update", "flush", "quit", "drain"}
  <2>1. CASE Len(stack) = 1
    BY <1>1, <2>1 DEF Grounded
  <2>2. CASE Len(stack) # 1
    BY <1>1, <1>2, <2>2 DEF Grounded
  <2>. QED  BY <2>1, <2>2
<1>. QED  BY <1>2, <1>3 DEF Grounded, Running

LEMMA BottomIsThere ==
  ASSUME Framed, Running
  PROVE  1 \in DOMAIN stack
<1>1. DOMAIN stack = 1..Len(stack) /\ Len(stack) \in Nat \ {0}
  BY TopIsFrame
<1>. QED  BY <1>1

LEMMA BottomAfterStacked ==
  ASSUME Framed, Grounded, Running, NEW b \in Frames, NEW c \in Frames,
         stack' = Append(Append(Under, b), c), b.at = Top.at
  PROVE  Grounded'
<1>1. /\ DOMAIN stack' = DOMAIN stack \cup {Len(stack) + 1} /\ DOMAIN stack = 1..Len(stack)
      /\ stack'[Len(stack)] = b /\ Len(stack) \in Nat \ {0} /\ Top = stack[Len(stack)]
      /\ \A i \in DOMAIN stack \ {Len(stack)} : stack'[i] = stack[i]
  BY Stacked, TopIsFrame
<1>2. 1 \in DOMAIN stack
  BY BottomIsThere
<1>. HIDE DEF Under
<1>3. 1 \in DOMAIN stack' /\ stack'[1].at = stack[1].at
  <2>1. CASE Len(stack) = 1
    BY <1>1, <1>2, <2>1
  <2>2. CASE Len(stack) # 1
    BY <1>1, <1>2, <2>2
  <2>. QED  BY <2>1, <2>2
<1>4. stack' # <<>>
  BY <1>3
<1>. QED  BY <1>3, <1>4 DEF Grounded, Running

LEMMA BottomWithStack ==
  ASSUME Grounded, Running, stack' = stack
  PROVE  Grounded'
BY DEF Grounded, Running

LEMMA GroundedStays ==
  ASSUME IInv, Grounded, Next
  PROVE  Grounded'
<1>1. Framed /\ Plain
  BY DEF IInv
<1>2. CASE Begin \/ Update
  <2>1. Call("update") \in Frames /\ Call("update").at = "update"
    BY FramesMade DEF Kinds, UserCode
  <2>2. stack' = Append(stack, Call("update"))
    BY <1>2 DEF Begin, Update, Push
  <2>. QED  BY <1>1, <2>1, <2>2, BottomAfterPush
<1>3. CASE Shutdown
  <2>1. QuitObservers \in Nat /\ "quit" \in Kinds
    BY CountsAssumption DEF Kinds, Announcing
  <2>2. CallFor("quit", NoWindow, QuitObservers) \in Frames
        /\ CallFor("quit", NoWindow, QuitObservers).at = "quit"
    BY <2>1, FramesMade
  <2>3. stack' = Append(stack, CallFor("quit", NoWindow, QuitObservers))
    BY <1>3 DEF Shutdown, Push
  <2>. QED  BY <1>1, <2>2, <2>3, BottomAfterPush
<1>4. CASE ApplyCreated
  <2>1. PICK n \in Nat : stack' = Append(stack, CallFor("created", Head(effects).win, n))
    BY <1>4, CountsAssumption DEF ApplyCreated, Push
  <2>2. Head(effects).win \in Windows \cup {NoWindow} /\ "created" \in Kinds /\ Running
    <3>1. Head(effects) \in Effects /\ Running
      BY <1>1, <1>4, HeadTailProperties DEF ApplyCreated, NextEffect, Plain, Flushing, At
    <3>. QED  BY <3>1 DEF Effects, Kinds, Announcing
  <2>3. CallFor("created", Head(effects).win, n) \in Frames
    BY <2>2, FramesMade
  <2>. QED  BY <1>1, <2>1, <2>2, <2>3, BottomAfterPush
<1>5. ASSUME NEW w \in Windows, UpdateWindow(w) \/ Open(w)
      PROVE  Grounded'
  <2>1. PICK at \in {"window", "build"} : stack' = Append(stack, CallFor(at, w, 0))
    <3>1. CASE UpdateWindow(w)
      BY <3>1 DEF UpdateWindow, Enter
    <3>2. CASE Open(w)
      BY <3>2 DEF Open, Push
    <3>. QED  BY <1>5, <3>1, <3>2
  <2>2. CallFor(at, w, 0) \in Frames
    BY FramesMade DEF Kinds, UserCode
  <2>3. Running
    BY <1>5 DEF UpdateWindow, Open, Operation
  <2>. QED  BY <1>1, <2>1, <2>2, <2>3, BottomAfterPush
<1>6. CASE NewEntity \/ (\E w \in Windows : RemoveWindow(w)) \/ (\E w \in Windows \cup {NoWindow} : Defer(w))
  BY <1>6, BottomWithStack DEF NewEntity, RemoveWindow, Defer, Operation
<1>7. CASE Finish
  <2>1. Running /\ Top.at \in {"update", "leave"}
    BY <1>7 DEF Finish, At
  <2>2. CASE ~flushing /\ pendingUpdates = 1
    <3>1. Become(Call("flush"))
      BY <1>7, <2>2 DEF Finish
    <3>2. Call("flush") \in Frames /\ Call("flush").at = "flush"
      BY FramesMade DEF Kinds
    <3>. QED  BY <1>1, <2>1, <3>1, <3>2, BottomAfterTurn
  <2>3. CASE ~ (~flushing /\ pendingUpdates = 1)
    <3>1. Pop
      BY <1>7, <2>3 DEF Finish
    <3>2. Len(stack) # 1
      <4>1. SUFFICES ASSUME Len(stack) = 1  PROVE FALSE
        OBVIOUS
      <4>2. DOMAIN stack = {1} /\ Top = stack[1]
        BY <1>1, <2>1, <4>1, TopIsFrame
      <4>3. Calls({"flush"}) = {} /\ Calls(Counted) = {1}
        BY <2>1, <4>2 DEF Calls, Counted, Updates
      <4>4. Cardinality({1}) = 1
        BY FS_Singleton
      <4>. QED  BY <2>3, <4>3, <4>4 DEF IInv, CountsRight
    <3>. QED  BY <1>1, <2>1, <3>1, <3>2, BottomAfterPop
  <2>. QED  BY <2>2, <2>3
<1>8. CASE Return \/ EndCreated
  <2>1. Running /\ Top.at \in {"user", "created"} /\ Pop
    BY <1>8 DEF Return, EndCreated, At
  <2>. QED  BY <1>1, <2>1, BottomAfterPop
<1>9. CASE EndFlush
  <2>1. Running /\ Pop /\ effects' = <<>>
    BY <1>9 DEF EndFlush, Flushing, At
  <2>. QED  BY <1>1, <2>1, BottomAfterPop
<1>10. CASE Trail \/ EndClosed \/ Built \/ Drawn
  <2>1. Running /\ Top.at \in {"window", "closed", "build", "draw"}
    BY <1>10 DEF Trail, EndClosed, Built, Drawn, At
  <2>2. Call("leave") \in Frames
    BY FramesMade DEF Kinds, Updates
  <2>3. Top.at \in Holding =>
          /\ \A n \in Nat : CallFor("closed", Top.win, n) \in Frames
          /\ CallFor("draw", Top.win, 0) \in Frames
    <3>1. "closed" \in Kinds /\ "draw" \in Kinds
      BY DEF Kinds, Updates, UserCode
    <3>. QED  BY <2>1, <3>1, FrameWindows, FramesMade
  <2>4. {0, ClosedObservers} \subseteq Nat
    BY CountsAssumption
  <2>5. PICK c \in Frames : Become(c)
    BY <1>10, <2>1, <2>2, <2>3, <2>4 DEF Trail, EndClosed, Built, Drawn, At, Holding
  <2>. QED  BY <1>1, <2>1, <2>5, BottomAfterTurn
<1>11. CASE RunClosed \/ RunQuit \/ RunCreated
  <2>1. Running /\ Top.at \in Announcing /\ Top.todo # {}
    BY <1>11 DEF RunClosed, RunQuit, RunCreated, At, Announced, Announcing
  <2>. DEFINE b == [Top EXCEPT !.todo = @ \ {Min(@)}]
  <2>2. b \in Frames /\ b.at = Top.at
    BY <2>1, CallWaits
  <2>3. Call("user") \in Frames
    BY FramesMade DEF Kinds, UserCode
  <2>4. Top.win # NoWindow => CallFor("window", Top.win, 0) \in Frames
    BY <1>1, <2>1, TopIsFrame, FramesMade DEF Kinds, UserCode, Frames
  <2>5. \/ stack' = Append(Append(Under, b), Call("user"))
        \/ Top.win # NoWindow /\ stack' = Append(Append(Under, b), CallFor("window", Top.win, 0))
        \/ stack' = stack
    BY <1>11 DEF RunClosed, RunQuit, RunCreated, Announced, Enter
  <2>. HIDE DEF b
  <2>. QED  BY <1>1, <2>1, <2>2, <2>3, <2>4, <2>5, BottomAfterStacked, BottomWithStack
<1>12. CASE ApplyDeferred
  <2>1. Head(effects) \in Effects /\ Head(effects).kind = "deferred" /\ Running
    BY <1>1, <1>12, HeadTailProperties DEF ApplyDeferred, NextEffect, Plain, Flushing, At
  <2>2. CallFor("window", Head(effects).win, 0) \in Frames /\ Call("user") \in Frames
    BY <2>1, FramesMade DEF Effects, Kinds, UserCode
  <2>3. \/ stack' = stack \/ stack' = Append(stack, CallFor("window", Head(effects).win, 0))
        \/ stack' = Append(stack, Call("user"))
    BY <1>12 DEF ApplyDeferred, Enter, Push
  <2>. QED  BY <1>1, <2>1, <2>2, <2>3, BottomAfterPush, BottomWithStack
<1>13. CASE ClearWindows
  <2>1. Running /\ Become(Call("drain"))
    BY <1>13 DEF ClearWindows, At
  <2>2. Call("drain") \in Frames /\ Call("drain").at = "drain"
    BY FramesMade DEF Kinds
  <2>. QED  BY <1>1, <2>1, <2>2, BottomAfterTurn
<1>. QED
  BY <1>2, <1>3, <1>4, <1>5, <1>6, <1>7, <1>8, <1>9, <1>10, <1>11, <1>12, <1>13 DEF Next, Operations

-----------------------------------------------------------------------------
(* A window is closed and announced. *)
LEMMA ToldAfterTrail ==
  ASSUME IInv, Told, Trail
  PROVE  Told'
<1>. DEFINE n == Len(stack)
            w == Top.win
<1>1. /\ Framed /\ Plain /\ Running /\ Top.at = "window" /\ n \in DOMAIN stack /\ Top = stack[n]
      /\ UNCHANGED heard /\ w \in Windows /\ slot[w] = "empty"
  BY TopIsFrame, FrameWindows DEF IInv, Trail, At, Holding
<1>2. \A v \in closed : slot'[v] = "gone"
  <2>1. \A v \in closed : v \in Windows /\ v # w
    BY <1>1 DEF Told, Plain
  <2>. QED  BY <1>1, <2>1 DEF Told, Trail, Plain
<1>3. CASE w \in removed
  <2>. DEFINE nested == Calls({"closed"}) # {}
              c == CallFor("closed", w, IF nested THEN 0 ELSE ClosedObservers)
  <2>1. /\ Become(c) /\ slot' = [slot EXCEPT ![w] = "gone"] /\ closed' = closed \cup {w}
        /\ unheard' = IF nested THEN unheard \cup {w} ELSE unheard
    BY <1>3 DEF Trail
  <2>2. c \in Frames /\ c.at = "closed" /\ c.win = w
    <3>1. {0, ClosedObservers} \subseteq Nat /\ "closed" \in Kinds
      BY CountsAssumption DEF Kinds, Updates
    <3>. QED  BY <1>1, <3>1, FramesMade
  <2>3. /\ c.todo \subseteq 1..ClosedObservers /\ (c.todo # {} => ~nested)
        /\ ~nested => c.todo = 1..ClosedObservers
    BY CountsAssumption DEF CallFor
  <2>. HIDE DEF c
  <2>4. /\ DOMAIN stack' = DOMAIN stack /\ stack'[n] = c
        /\ \A i \in DOMAIN stack \ {n} : stack'[i] = stack[i]
    BY <1>1, <2>1, <2>2, Became
  <2>. HIDE DEF n
  <2>5. Calls({"closed"})' = Calls({"closed"}) \cup {n} /\ n \notin Calls({"closed"})
        /\ \A i \in Calls({"closed"}) : stack'[i] = stack[i]
    BY <1>1, <2>2, <2>4 DEF Calls
  <2>6. w \notin closed
    BY <1>1 DEF Told
  <2>7. unheard' \subseteq closed' /\ closed \ unheard \subseteq closed' \ unheard'
        /\ (w \in unheard' <=> nested)
    BY <2>1, <2>6 DEF Told
  <2>8. \A v \in closed' : slot'[v] = "gone"
    BY <1>1, <1>2, <2>1 DEF Plain
  <2>9. heard' \subseteq (closed' \ unheard') \X (1..ClosedObservers)
    BY <1>1, <2>7 DEF Told
  <2>10. ASSUME NEW i \in Calls({"closed"})'
         PROVE  /\ stack'[i].todo \subseteq 1..ClosedObservers
                /\ stack'[i].todo # {} => stack'[i].win \in closed' \ unheard'
    <3>1. CASE i = n
      BY <2>1, <2>2, <2>3, <2>4, <2>7, <3>1
    <3>2. CASE i # n
      BY <2>5, <2>7, <3>2 DEF Told
    <3>. QED  BY <3>1, <3>2
  <2>11. ASSUME NEW v \in closed' \ unheard', NEW m \in 1..ClosedObservers
         PROVE  <<v, m>> \in heard' \/ \E i \in Calls({"closed"})' : stack'[i].win = v /\ m \in stack'[i].todo
    <3>1. CASE v = w
      BY <2>2, <2>3, <2>4, <2>5, <2>7, <3>1
    <3>2. CASE v # w
      <4>1. v \in closed \ unheard
        BY <2>1, <3>2
      <4>. QED  BY <1>1, <2>5, <4>1 DEF Told
    <3>. QED  BY <3>1, <3>2
  <2>. QED  BY <2>7, <2>8, <2>9, <2>10, <2>11 DEF Told
<1>4. CASE w \notin removed
  <2>1. Become(Call("leave")) /\ UNCHANGED <<closed, unheard>>
    BY <1>4 DEF Trail
  <2>2. Call("leave") \in Frames /\ Call("leave").at = "leave"
    BY FramesMade DEF Kinds, Updates
  <2>3. SameCalls({"closed"})
    BY <1>1, <2>1, <2>2, SameAfterTurn
  <2>. QED  BY <1>1, <1>2, <2>1, <2>3 DEF Told, SameCalls
<1>. QED  BY <1>3, <1>4

(* The next close observer hears of it. *)
LEMMA ToldAfterRun ==
  ASSUME IInv, Told, RunClosed
  PROVE  Told'
<1>. DEFINE n == Len(stack)
            m == Min(Top.todo)
            b == [Top EXCEPT !.todo = @ \ {m}]
            c == Call("user")
<1>1. /\ Framed /\ Running /\ Top.at = "closed" /\ Top.at \in Announcing /\ Top.todo # {}
      /\ n \in DOMAIN stack /\ Top = stack[n] /\ Top \in Frames
      /\ stack' = Append(Append(Under, b), c)
      /\ heard' = heard \cup {<<Top.win, m>>} /\ UNCHANGED <<slot, closed, unheard>>
  BY TopIsFrame DEF IInv, RunClosed, At, Announced, Announcing, windowState
<1>2. n \in Calls({"closed"})
  BY <1>1 DEF Calls
<1>3. Top.todo \subseteq 1..ClosedObservers /\ Top.win \in closed \ unheard
  BY <1>1, <1>2 DEF Told
<1>4. m \in Top.todo
  <2>1. ClosedObservers \in Nat
    BY CountsAssumption
  <2>. QED  BY <1>1, <1>3, <2>1, MinIsMember
<1>. HIDE DEF m
<1>5. b \in Frames /\ b.at = Top.at /\ b.win = Top.win /\ b.todo = Top.todo \ {m}
  BY <1>1 DEF Frames
<1>6. c \in Frames /\ c.at = "user"
  BY FramesMade DEF Kinds, UserCode
<1>. HIDE DEF b, c
<1>7. /\ DOMAIN stack' = DOMAIN stack \cup {n + 1} /\ n + 1 \notin DOMAIN stack
      /\ stack'[n] = b /\ stack'[n + 1] = c
      /\ \A i \in DOMAIN stack \ {n} : stack'[i] = stack[i]
  BY <1>1, <1>5, <1>6, Stacked
<1>. HIDE DEF n
<1>8. Calls({"closed"})' = Calls({"closed"})
      /\ \A i \in Calls({"closed"}) : i # n => stack'[i] = stack[i]
  <2>1. \A i \in DOMAIN stack : stack'[i].at = stack[i].at
    BY <1>1, <1>5, <1>7
  <2>2. stack'[n + 1].at = "user"
    BY <1>6, <1>7
  <2>. QED  BY <1>7, <2>1, <2>2 DEF Calls
<1>9. heard' \subseteq (closed' \ unheard') \X (1..ClosedObservers)
  BY <1>1, <1>3, <1>4 DEF Told
<1>10. ASSUME NEW i \in Calls({"closed"})'
       PROVE  /\ stack'[i].todo \subseteq 1..ClosedObservers
              /\ stack'[i].todo # {} => stack'[i].win \in closed' \ unheard'
  <2>1. CASE i = n
    BY <1>1, <1>3, <1>5, <1>7, <2>1
  <2>2. CASE i # n
    <3>1. i \in Calls({"closed"}) /\ stack'[i] = stack[i]
      BY <1>8, <2>2
    <3>2. stack[i].todo \subseteq 1..ClosedObservers
          /\ (stack[i].todo # {} => stack[i].win \in closed \ unheard)
      BY <3>1 DEF Told
    <3>. QED  BY <1>1, <3>1, <3>2
  <2>. QED  BY <2>1, <2>2
<1>11. ASSUME NEW v \in closed' \ unheard', NEW k \in 1..ClosedObservers
       PROVE  <<v, k>> \in heard' \/ \E i \in Calls({"closed"})' : stack'[i].win = v /\ k \in stack'[i].todo
  <2>1. CASE <<v, k>> \in heard
    BY <1>1, <2>1
  <2>2. CASE <<v, k>> \notin heard
    <3>1. PICK i \in Calls({"closed"}) : stack[i].win = v /\ k \in stack[i].todo
      BY <1>1, <2>2 DEF Told
    <3>2. CASE i = n /\ k = m
      BY <1>1, <3>1, <3>2
    <3>3. CASE i # n \/ k # m
      BY <1>1, <1>5, <1>7, <1>8, <3>1, <3>3
    <3>. QED  BY <3>2, <3>3
  <2>. QED  BY <2>1, <2>2
<1>. QED  BY <1>1, <1>9, <1>10, <1>11 DEF Told

LEMMA ToldAfterEnd ==
  ASSUME IInv, Told, EndClosed
  PROVE  Told'
<1>. DEFINE n == Len(stack)
            c == Call("leave")
<1>1. /\ Framed /\ Running /\ Top.todo = {} /\ n \in DOMAIN stack /\ Top = stack[n]
      /\ Become(c) /\ UNCHANGED <<slot, closed, unheard, heard>>
  BY TopIsFrame DEF IInv, EndClosed, At, windowState, history
<1>2. c \in Frames /\ c.at = "leave"
  BY FramesMade DEF Kinds, Updates
<1>. HIDE DEF c
<1>3. /\ DOMAIN stack' = DOMAIN stack /\ stack'[n] = c
      /\ \A i \in DOMAIN stack \ {n} : stack'[i] = stack[i]
  BY <1>1, <1>2, Became
<1>. HIDE DEF n
<1>4. Calls({"closed"})' = Calls({"closed"}) \ {n}
      /\ \A i \in Calls({"closed"}) : i # n => stack'[i] = stack[i]
  BY <1>1, <1>2, <1>3 DEF Calls
<1>5. ASSUME NEW v \in closed' \ unheard', NEW k \in 1..ClosedObservers
      PROVE  <<v, k>> \in heard' \/ \E i \in Calls({"closed"})' : stack'[i].win = v /\ k \in stack'[i].todo
  <2>1. <<v, k>> \in heard \/ \E i \in Calls({"closed"}) : stack[i].win = v /\ k \in stack[i].todo
    BY <1>1 DEF Told
  <2>. QED  BY <1>1, <1>4, <2>1
<1>6. ASSUME NEW i \in Calls({"closed"})'
      PROVE  /\ stack'[i].todo \subseteq 1..ClosedObservers
             /\ stack'[i].todo # {} => stack'[i].win \in closed' \ unheard'
  BY <1>1, <1>4 DEF Told
<1>. QED  BY <1>1, <1>5, <1>6 DEF Told

LEMMA HistoryMoves ==
  ASSUME Next, ~Trail
  PROVE  UNCHANGED <<closed, unheard>> /\ (RunClosed \/ UNCHANGED heard)
BY DEF Next, Operations, Begin, Finish, Return, RunClosed, EndClosed, Update, UpdateWindow, Defer, Open,
   NewEntity, RemoveWindow, Built, Drawn, ApplyDeferred, ApplyCreated, RunCreated, EndCreated, EndFlush,
   Shutdown, RunQuit, ClearWindows, history

LEMMA ToldStays ==
  ASSUME IInv, Told, Next
  PROVE  Told'
<1>1. CASE Trail \/ RunClosed \/ EndClosed
  BY <1>1, ToldAfterTrail, ToldAfterRun, ToldAfterEnd
<1>2. CASE ~ (Trail \/ RunClosed \/ EndClosed)
  <2>1. SameCalls({"closed"}) /\ UNCHANGED <<closed, unheard, heard>>
    BY <1>2, MostCallsStay, HistoryMoves
  <2>2. \A w \in closed : slot'[w] = "gone"
    BY SlotsMove DEF Told, IInv, Plain
  <2>. QED  BY <2>1, <2>2 DEF Told, SameCalls
<1>. QED  BY <1>1, <1>2

LEMMA LastAsksStays ==
  ASSUME IInv, Told, LastAsks, Next
  PROVE  LastAsks'
<1>1. SUFFICES ASSUME quitMode' = "last", closed' # {}, Opened' = closed', ~quit'
               PROVE  Calls({"closed"})' # {}
  BY DEF LastAsks
<1>2. Plain /\ Framed /\ (quit => quit') /\ quitMode' = quitMode
  <2>1. quitMode' = quitMode /\ (EndClosed \/ quit' = quit)
    BY DEF Next, Operations, Begin, Finish, Return, Trail, RunClosed, EndClosed, Update, UpdateWindow,
       Defer, Open, NewEntity, RemoveWindow, Built, Drawn, ApplyDeferred, ApplyCreated, RunCreated,
       EndCreated, EndFlush, Shutdown, RunQuit, ClearWindows
  <2>2. EndClosed => (quit => quit')
    BY DEF EndClosed
  <2>. QED  BY <2>1, <2>2 DEF IInv
<1>3. CASE Trail /\ Top.win \in removed
  <2>1. Running /\ Top.at = "window" /\ Top.win \in Windows
    BY <1>3, FrameWindows DEF Trail, At, Holding
  <2>2. PICK c \in Frames : Become(c) /\ c.at = "closed"
    <3>1. {0, ClosedObservers} \subseteq Nat /\ "closed" \in Kinds
      BY CountsAssumption DEF Kinds, Updates
    <3>2. \A n \in {0, ClosedObservers} : CallFor("closed", Top.win, n) \in Frames
                                          /\ CallFor("closed", Top.win, n).at = "closed"
      BY <2>1, <3>1, FramesMade
    <3>. QED  BY <1>3, <3>2 DEF Trail
  <2>3. Len(stack) \in DOMAIN stack' /\ stack'[Len(stack)] = c
    BY <1>2, <2>1, <2>2, Became, TopIsFrame
  <2>. QED  BY <2>2, <2>3 DEF Calls
<1>4. CASE ~ (Trail /\ Top.win \in removed)
  <2>1. closed' = closed
    BY <1>4, HistoryMoves DEF Trail
  <2>2. Opened = closed
    <3>1. ASSUME NEW w \in Windows  PROVE slot'[w] # "new" <=> slot[w] # "new"
      <4>1. CASE slot[w] # "new"
        BY <4>1, SlotsMove
      <4>2. CASE Open(w)
        <5>1. slot[w] = "new" /\ slot'[w] = "empty"
          BY <1>2, <4>2 DEF Open, Plain
        <5>2. w \in Opened' /\ w \notin closed
          BY <5>1 DEF Opened, Told
        <5>. QED  BY <1>1, <2>1, <5>2
      <4>3. CASE slot[w] = "new" /\ ~Open(w)
        BY <4>3, SlotsMove
      <4>. QED  BY <4>1, <4>2, <4>3
    <3>2. Opened' = Opened
      BY <3>1 DEF Opened
    <3>. QED  BY <1>1, <2>1, <3>2
  <2>3. Calls({"closed"}) # {}
    BY <1>1, <1>2, <2>1, <2>2 DEF LastAsks
  <2>4. CASE SameCalls({"closed"})
    BY <2>3, <2>4 DEF SameCalls
  <2>5. CASE Trail
    <3>1. Running /\ Top.at = "window" /\ Become(Call("leave"))
      BY <1>4, <2>5 DEF Trail, At
    <3>2. Call("leave") \in Frames /\ Call("leave").at = "leave"
      BY FramesMade DEF Kinds, Updates
    <3>3. SameCalls({"closed"})
      BY <1>2, <3>1, <3>2, SameAfterTurn
    <3>. QED  BY <2>4, <3>3
  <2>6. CASE RunClosed
    <3>1. Running /\ Top.at = "closed" /\ Top.at \in Announcing /\ Top.todo # {}
      BY <2>6 DEF RunClosed, At, Announced, Announcing
    <3>. DEFINE b == [Top EXCEPT !.todo = @ \ {Min(@)}]
    <3>2. b \in Frames /\ b.at = "closed"
      BY <3>1, CallWaits
    <3>3. Call("user") \in Frames
      BY FramesMade DEF Kinds, UserCode
    <3>4. stack' = Append(Append(Under, b), Call("user"))
      BY <2>6 DEF RunClosed, Announced
    <3>. HIDE DEF b
    <3>5. Len(stack) \in DOMAIN stack' /\ stack'[Len(stack)] = b
      BY <1>2, <3>1, <3>2, <3>3, <3>4, Stacked, TopIsFrame
    <3>. QED  BY <3>2, <3>5 DEF Calls
  <2>7. CASE EndClosed
    <3>1. OpenWindows = {}
      BY <2>2 DEF Opened, OpenWindows, Told
    <3>. QED  BY <1>1, <1>2, <2>7, <3>1 DEF EndClosed
  <2>. QED  BY <2>4, <2>5, <2>6, <2>7, MostCallsStay
<1>. QED  BY <1>3, <1>4

LEMMA ClosingInductive == Spec => []CInv
<1>1. Init => CInv
  <2>. SUFFICES ASSUME Init  PROVE CInv
    OBVIOUS
  <2>1. \A A : Calls(A) = {}
    BY DEF Init, Calls
  <2>. QED  BY <2>1, InitIInv DEF Init, CInv, Owing, Grounded, Told, LastAsks, Running
<1>2. CInv /\ [Next]_vars => CInv'
  <2>. SUFFICES ASSUME CInv, [Next]_vars  PROVE CInv'
    OBVIOUS
  <2>1. IInv'
    BY NextIInv DEF CInv
  <2>2. CASE Next
    BY <2>1, <2>2, OwingStays, GroundedStays, ToldStays, LastAsksStays DEF CInv
  <2>3. CASE UNCHANGED vars
    BY <2>1, <2>3 DEF vars, CInv, Owing, Deferred, Grounded, Running, Told, LastAsks, Opened, Calls
  <2>. QED  BY <2>2, <2>3
<1>. QED  BY <1>1, <1>2, PTL DEF Spec

(* A window that asked to be closed is closed by the time the App rests,   *)
(* wherever in its life, and however deep in the stack, it was asked.      *)
THEOREM RemovedAreClosed == Spec => []RemovedIsClosed
<1>1. CInv => RemovedIsClosed
  BY DEF CInv, Owing, Grounded, Deferred, RemovedIsClosed
<1>. QED  BY <1>1, ClosingInductive, PTL

(* Every close observer is called for every window that closes, unless its *)
(* set was taken, and for none that is still there.                        *)
THEOREM ObserversHear == Spec => []ClosedIsHeard
<1>1. CInv => ClosedIsHeard
  <2>. SUFFICES ASSUME CInv  PROVE ClosedIsHeard
    OBVIOUS
  <2>1. ~Running => Calls({"closed"}) = {}
    BY DEF Running, Calls
  <2>2. heard \subseteq (closed \ unheard) \X (1..ClosedObservers)
        /\ \A w \in closed : slot[w] = "gone"
    BY DEF CInv, Told
  <2>3. ASSUME ~Running, NEW h \in (closed \ unheard) \X (1..ClosedObservers)  PROVE h \in heard
    <3>1. h = <<h[1], h[2]>> /\ h[1] \in closed \ unheard /\ h[2] \in 1..ClosedObservers
      OBVIOUS
    <3>. QED  BY <2>1, <2>3, <3>1 DEF CInv, Told
  <2>. QED  BY <2>2, <2>3 DEF ClosedIsHeard
<1>. QED  BY <1>1, ClosingInductive, PTL

(* An App in mode LastWindowClosed asks to quit by the time it rests with  *)
(* all its windows closed.                                                 *)
THEOREM LastOneQuits == Spec => []QuitsWhenLastCloses
<1>1. CInv => QuitsWhenLastCloses
  <2>. SUFFICES ASSUME CInv  PROVE QuitsWhenLastCloses
    OBVIOUS
  <2>1. ~Running => Calls({"closed"}) = {}
    BY DEF Running, Calls
  <2>. QED  BY <2>1 DEF CInv, LastAsks, Opened, QuitsWhenLastCloses
<1>. QED  BY <1>1, ClosingInductive, PTL
=============================================================================
