--------------------------- MODULE AppEffectsProofs ---------------------------
(***************************************************************************)
(* Theorems about AppEffects for any entities, any number of subscriptions *)
(* and programs of any length: what the calls in progress can be, and what *)
(* a flush leaves behind.                                                  *)
(***************************************************************************)
EXTENDS AppEffects, FiniteSetTheorems, SequenceTheorems, WellFoundedInduction, TLAPS

Subs == [kind : Kinds, key : Entities, watcher : Watchers]
Rounds == {"retain", "release"}

(* What is not about the stack. *)
Plain ==
  /\ status \in [Entities -> Statuses]
  /\ handles \in [Owners -> SUBSET Entities]
  /\ \A e \in Entities : status[e] = "gone" => handles[e] = {}
  /\ subs \in Seq(Subs) /\ Len(subs) <= MaxSubs
  /\ table \in [Kinds -> Tables]
  /\ active \cup dropped \cup held \cup owed \cup ran \subseteq DOMAIN subs
  /\ held \cap dropped = {}
  /\ effects \in Seq(Effects) /\ notifs \subseteq Entities
  /\ \A i \in DOMAIN effects : effects[i].kind = "activate" => effects[i].sub \in DOMAIN subs
  /\ flushing \in BOOLEAN /\ fuel \in 0..MaxOps
  /\ due \in [SubIds -> Seq(1..MaxOps)] /\ late \subseteq Entities

Framed == stack \in Seq(Calls)

(* A flush is at the bottom of the stack, and a retain or a release right  *)
(* on it; callbacks run only while it lasts.                               *)
Ordered ==
  /\ \A i \in DOMAIN stack :
       /\ stack[i].at \in {"update", "flush"} => i = 1
       /\ stack[i].at \in Rounds => i = 2
       /\ stack[i].at \in Rounds \cup {"user"} => flushing
  /\ flushing \in BOOLEAN
  /\ flushing <=> (Running /\ stack[1].at = "flush")

Apart ==
  \A i, j \in DOMAIN stack :
    stack[i].at = "lease" /\ stack[j].at = "lease" /\ stack[i].ent = stack[j].ent => i = j

Counted == {i \in DOMAIN stack : stack[i].at \in {"update", "lease"}}
CountRight == pendingUpdates = Cardinality(Counted) + (IF flushing THEN 1 ELSE 0)

Shaped == Framed /\ Ordered /\ Apart /\ CountRight

(* The retain or release in progress, if any: there is one at most. *)
Idle == [at |-> "none"]
Middle == IF 2 \in DOMAIN stack /\ stack[2].at \in Rounds THEN stack[2] ELSE Idle

-----------------------------------------------------------------------------
(* Calls *)

RetainCalls ==
  [at : {"retain"}, kind : Kinds, key : Entities, todo : SUBSET SubIds,
   kept : SUBSET SubIds, run : SubIds \cup {0}, ev : 0..MaxOps, hold : {{}}]
ReleaseCalls ==
  [at : {"release"}, todo : SUBSET Entities, ent : Watchers,
   subs : SUBSET SubIds, hold : {{}}]

LEMMA CallKinds ==
  ASSUME NEW c \in Calls
  PROVE  /\ c.at \in {"update", "user", "flush", "lease", "release", "retain"}
         /\ c.hold \in SUBSET Entities
         /\ c.at = "lease" => c.ent \in Entities
         /\ c.at = "retain" => c \in RetainCalls
         /\ c.at = "release" => c \in ReleaseCalls
BY DEF Calls, RetainCalls, ReleaseCalls

LEMMA CallsMade ==
  ASSUME NEW hold \in SUBSET Entities
  PROVE  /\ Update(hold) \in Calls /\ Update(hold).at = "update"
         /\ User(hold) \in Calls /\ User(hold).at = "user"
         /\ Flush(hold) \in Calls /\ Flush(hold).at = "flush"
         /\ \A e \in Entities : /\ Lease(e, hold) \in Calls
                                /\ Lease(e, hold).at = "lease" /\ Lease(e, hold).ent = e
BY DEF Calls, Update, User, Flush, Lease

LEMMA TopIsCall ==
  ASSUME Framed, Running
  PROVE  /\ Len(stack) \in Nat \ {0} /\ Len(stack) \in DOMAIN stack
         /\ DOMAIN stack = 1..Len(stack)
         /\ Top = stack[Len(stack)] /\ Top \in Calls
BY DEF Framed, Running, Top

LEMMA UnderIs ==
  ASSUME Framed, Running
  PROVE  /\ Under \in Seq(Calls) /\ Len(Under) = Len(stack) - 1
         /\ DOMAIN Under = 1..Len(stack) - 1
         /\ \A i \in DOMAIN Under : Under[i] = stack[i]
<1>. DEFINE n == Len(stack) - 1
<1>1. n \in Nat /\ \A i \in 1..n : stack[i] \in Calls
  BY TopIsCall DEF Framed
<1>. HIDE DEF n
<1>2. 1 \in Int /\ n \in Int /\ \A i \in 1..n - 1 + 1 : 1 + i - 1 = i
  BY <1>1
<1>3. /\ SubSeq(stack, 1, n) \in Seq(Calls)
      /\ Len(SubSeq(stack, 1, n)) = IF 1 <= n THEN n - 1 + 1 ELSE 0
      /\ \A i \in 1..n - 1 + 1 : SubSeq(stack, 1, n)[i] = stack[1 + i - 1]
  BY <1>1, <1>2, SubSeqProperties
<1>4. Under = SubSeq(stack, 1, n)
  BY DEF Under, n
<1>5. Under \in Seq(Calls) /\ Len(Under) = n /\ \A i \in 1..n : Under[i] = stack[i]
  BY <1>1, <1>2, <1>3, <1>4
<1>. QED  BY <1>5 DEF n

(* The stack after a step. *)
LEMMA Popped ==
  ASSUME Framed, Running, Pop
  PROVE  /\ stack' \in Seq(Calls)
         /\ DOMAIN stack' = DOMAIN stack \ {Len(stack)}
         /\ \A i \in DOMAIN stack' : stack'[i] = stack[i]
BY UnderIs, TopIsCall DEF Pop

LEMMA Pushed ==
  ASSUME Framed, NEW c \in Calls, Push(c)
  PROVE  /\ stack' \in Seq(Calls)
         /\ DOMAIN stack = 1..Len(stack) /\ Len(stack) \in Nat
         /\ DOMAIN stack' = DOMAIN stack \cup {Len(stack) + 1} /\ Len(stack) + 1 \notin DOMAIN stack
         /\ stack'[Len(stack) + 1] = c
         /\ \A i \in DOMAIN stack : stack'[i] = stack[i]
BY DEF Framed, Push

LEMMA Became ==
  ASSUME Framed, Running, NEW c \in Calls, Become(c)
  PROVE  /\ stack' \in Seq(Calls)
         /\ DOMAIN stack' = DOMAIN stack
         /\ stack'[Len(stack)] = c
         /\ \A i \in DOMAIN stack \ {Len(stack)} : stack'[i] = stack[i]
<1>1. stack' = Append(Under, c)
  BY DEF Become
<1>2. /\ stack' \in Seq(Calls) /\ DOMAIN stack' = 1..Len(Under) + 1
      /\ stack'[Len(Under) + 1] = c /\ \A i \in 1..Len(Under) : stack'[i] = Under[i]
  BY <1>1, UnderIs
<1>. QED  BY <1>2, UnderIs, TopIsCall

LEMMA Followed ==
  ASSUME Framed, Running, NEW b \in Calls, NEW c \in Calls, Then(b, c)
  PROVE  /\ stack' \in Seq(Calls)
         /\ DOMAIN stack' = DOMAIN stack \cup {Len(stack) + 1} /\ Len(stack) + 1 \notin DOMAIN stack
         /\ stack'[Len(stack)] = b /\ stack'[Len(stack) + 1] = c
         /\ \A i \in DOMAIN stack \ {Len(stack)} : stack'[i] = stack[i]
<1>. DEFINE s == Append(Under, b)
<1>1. /\ s \in Seq(Calls) /\ Len(s) = Len(stack) /\ s[Len(stack)] = b
      /\ \A i \in DOMAIN stack \ {Len(stack)} : s[i] = stack[i]
  <2>1. /\ s \in Seq(Calls) /\ Len(s) = Len(Under) + 1
        /\ s[Len(Under) + 1] = b /\ \A i \in 1..Len(Under) : s[i] = Under[i]
    BY UnderIs
  <2>. QED  BY <2>1, UnderIs, TopIsCall
<1>. HIDE DEF s
<1>2. stack' = Append(s, c)
  BY DEF s, Then
<1>3. /\ stack' \in Seq(Calls) /\ DOMAIN stack' = 1..Len(s) + 1
      /\ stack'[Len(s) + 1] = c /\ \A i \in 1..Len(s) : stack'[i] = s[i]
  BY <1>1, <1>2
<1>. QED  BY <1>1, <1>3, TopIsCall

LEMMA CountedIsFinite ==
  ASSUME Framed
  PROVE  IsFiniteSet(Counted) /\ Cardinality(Counted) \in Nat
<1>1. Counted \subseteq 1..Len(stack) /\ Len(stack) \in Nat
  BY DEF Counted, Framed
<1>2. IsFiniteSet(1..Len(stack))
  BY <1>1, FS_Interval
<1>. QED  BY <1>1, <1>2, FS_Subset, FS_CardinalityType

(* The least of a set of subscriptions belongs to it. *)
LEMMA MinIsMember ==
  ASSUME NEW S \in SUBSET SubIds, S # {}
  PROVE  Min(S) \in S
<1>. DEFINE Below(x) == {y \in S : y < x}
<1>1. IsFiniteSet(S)
  <2>1. MaxSubs \in Int
    BY BoundsAssumption
  <2>2. IsFiniteSet(SubIds)
    BY <2>1, FS_Interval DEF SubIds
  <2>. QED  BY <2>2, FS_Subset
<1>2. IsWellFoundedOn(StrictSubsetOrdering(S), SUBSET S)
  BY <1>1, FS_StrictSubsetOrderingWellFounded, FS_FiniteSubsetsOfFinite
<1>. DEFINE T == {Below(x) : x \in S}
<1>3. PICK B \in T : \A C \in T : ~ (<<C, B>> \in StrictSubsetOrdering(S))
  <2>1. T \subseteq SUBSET S /\ T # {}
    OBVIOUS
  <2>. HIDE DEF T
  <2>. QED  BY <1>2, <2>1, WFMin
<1>4. PICK x \in S : B = Below(x)
  BY <1>3
<1>5. \A y \in S : x <= y
  <2>1. S \subseteq Int
    BY DEF SubIds
  <2>2. SUFFICES ASSUME NEW y \in S, y < x  PROVE FALSE
    BY <2>1
  <2>3. Below(y) \subseteq Below(x) /\ Below(y) # Below(x)
    <3>1. \A z \in S : z < y => z < x
      BY <2>1, <2>2
    <3>2. y \in Below(x) /\ y \notin Below(y)
      BY <2>1, <2>2
    <3>. QED  BY <3>1, <3>2
  <2>4. Below(y) \subseteq S /\ Below(x) \subseteq S /\ Below(y) \in T
    OBVIOUS
  <2>5. <<Below(y), B>> \in StrictSubsetOrdering(S)
    <3>. HIDE DEF Below
    <3>. QED  BY <1>4, <2>3, <2>4 DEF StrictSubsetOrdering
  <2>. QED  BY <1>3, <2>4, <2>5
<1>. QED  BY <1>5 DEF Min

-----------------------------------------------------------------------------
(* The shape of the stack *)

LEMMA TopOfRound ==
  ASSUME Framed, Ordered, Running, Top.at \in Rounds
  PROVE  /\ Len(stack) = 2 /\ 2 \in DOMAIN stack /\ Middle = Top
         /\ flushing /\ stack[1].at = "flush"
<1>1. Len(stack) = 2 /\ 2 \in DOMAIN stack /\ Top = stack[2]
  BY TopIsCall DEF Ordered
<1>2. flushing /\ stack[1].at = "flush"
  BY TopIsCall DEF Ordered, Running
<1>. QED  BY <1>1, <1>2 DEF Middle

LEMMA TopOfFlush ==
  ASSUME Framed, Ordered, Flushing
  PROVE  Running /\ Len(stack) = 1 /\ stack[1] = Top /\ Middle = Idle /\ flushing
<1>1. Running /\ Len(stack) = 1 /\ stack[1] = Top /\ DOMAIN stack = 1..1
  BY TopIsCall DEF Ordered, Flushing
<1>. QED  BY <1>1 DEF Middle, Ordered, Flushing

LEMMA MiddleIsRound ==
  ASSUME Framed
  PROVE  /\ Middle.at \in Rounds \cup {"none"}
         /\ Middle.at = "none" => Middle = Idle
         /\ Middle.at = "retain" => Middle \in RetainCalls
         /\ Middle.at = "release" => Middle \in ReleaseCalls
<1>1. CASE 2 \in DOMAIN stack /\ stack[2].at \in Rounds
  <2>1. stack[2] \in Calls /\ Middle = stack[2]
    BY <1>1 DEF Framed, Middle
  <2>. QED  BY <1>1, <2>1, CallKinds DEF Rounds
<1>2. CASE ~(2 \in DOMAIN stack /\ stack[2].at \in Rounds)
  BY <1>2 DEF Middle, Idle
<1>. QED  BY <1>1, <1>2

(* What a step does to the round: a call that is not one leaves it alone. *)
LEMMA MiddleAfterPush ==
  ASSUME Framed, NEW c \in Calls, Push(c)
  PROVE  /\ c.at \notin Rounds => Middle' = Middle
         /\ c.at \in Rounds /\ Len(stack) = 1 => Middle' = c
<1>1. /\ DOMAIN stack = 1..Len(stack) /\ Len(stack) \in Nat
      /\ DOMAIN stack' = DOMAIN stack \cup {Len(stack) + 1}
      /\ stack'[Len(stack) + 1] = c
      /\ \A i \in DOMAIN stack : stack'[i] = stack[i]
  BY Pushed
<1>2. CASE Len(stack) = 1
  <2>1. 2 \notin DOMAIN stack /\ 2 \in DOMAIN stack' /\ stack'[2] = c
    BY <1>1, <1>2
  <2>. QED  BY <2>1 DEF Middle
<1>3. CASE Len(stack) # 1
  <2>1. (2 \in DOMAIN stack' <=> 2 \in DOMAIN stack) /\ (2 \in DOMAIN stack => stack'[2] = stack[2])
    BY <1>1, <1>3
  <2>. QED  BY <1>3, <2>1 DEF Middle
<1>. QED  BY <1>2, <1>3

LEMMA MiddleAfterPop ==
  ASSUME Framed, Ordered, Running, Pop
  PROVE  /\ Top.at \notin Rounds => Middle' = Middle
         /\ Top.at \in Rounds => Middle' = Idle
<1>1. /\ DOMAIN stack' = DOMAIN stack \ {Len(stack)}
      /\ \A i \in DOMAIN stack' : stack'[i] = stack[i]
  BY Popped
<1>2. CASE Top.at \notin Rounds
  <2>1. CASE Len(stack) = 2
    <3>1. 2 \notin DOMAIN stack' /\ Top = stack[2]
      BY <1>1, <2>1, TopIsCall
    <3>. QED  BY <1>2, <3>1 DEF Middle
  <2>2. CASE Len(stack) # 2
    <3>1. (2 \in DOMAIN stack' <=> 2 \in DOMAIN stack) /\ (2 \in DOMAIN stack' => stack'[2] = stack[2])
      BY <1>1, <2>2
    <3>. QED  BY <1>2, <3>1 DEF Middle
  <2>. QED  BY <2>1, <2>2
<1>3. CASE Top.at \in Rounds
  <2>1. 2 \notin DOMAIN stack'
    BY <1>1, <1>3, TopOfRound
  <2>. QED  BY <1>3, <2>1 DEF Middle
<1>. QED  BY <1>2, <1>3

LEMMA MiddleAfterTurn ==
  ASSUME Framed, Ordered, Running, NEW c \in Calls, Become(c)
  PROVE  /\ Top.at \notin Rounds /\ c.at \notin Rounds => Middle' = Middle
         /\ Top.at \in Rounds /\ c.at \in Rounds => Middle' = c
<1>1. /\ DOMAIN stack' = DOMAIN stack /\ stack'[Len(stack)] = c
      /\ \A i \in DOMAIN stack \ {Len(stack)} : stack'[i] = stack[i]
  BY Became
<1>2. CASE Top.at \notin Rounds /\ c.at \notin Rounds
  <2>1. CASE Len(stack) = 2
    <3>1. Top = stack[2] /\ stack'[2] = c
      BY <1>1, <2>1, TopIsCall
    <3>. QED  BY <1>2, <3>1 DEF Middle
  <2>2. CASE Len(stack) # 2
    <3>1. 2 \in DOMAIN stack => stack'[2] = stack[2]
      BY <1>1, <2>2
    <3>. QED  BY <1>1, <1>2, <3>1 DEF Middle
  <2>. QED  BY <2>1, <2>2
<1>3. CASE Top.at \in Rounds /\ c.at \in Rounds
  <2>1. 2 \in DOMAIN stack' /\ stack'[2] = c
    BY <1>1, <1>3, TopOfRound
  <2>. QED  BY <1>3, <2>1 DEF Middle
<1>. QED  BY <1>2, <1>3

LEMMA MiddleAfterThen ==
  ASSUME Framed, Ordered, Running, NEW b \in Calls, NEW c \in Calls, Then(b, c),
         Top.at \in Rounds, b.at \in Rounds
  PROVE  Middle' = b
<1>1. 2 \in DOMAIN stack' /\ stack'[2] = b
  BY Followed, TopOfRound
<1>. QED  BY <1>1 DEF Middle

LEMMA NotEmpty ==
  ASSUME NEW S, NEW s \in Seq(S), NEW i \in DOMAIN s
  PROVE  s # <<>>
OBVIOUS

(* What keeps the shape. *)
LEMMA ShapedWithStack ==
  ASSUME Shaped, UNCHANGED <<stack, flushing, pendingUpdates>>
  PROVE  Shaped' /\ Middle' = Middle
BY DEF Shaped, Framed, Ordered, Apart, CountRight, Counted, Running, Middle

LEMMA CountAfterBegin ==
  ASSUME Framed, NEW n, n \notin Counted, Counted' = Counted \cup {n}
  PROVE  Cardinality(Counted') = Cardinality(Counted) + 1
BY CountedIsFinite, FS_AddElement

LEMMA ShapedAfterPush ==
  ASSUME Shaped, NEW c \in Calls, Push(c), UNCHANGED flushing,
         pendingUpdates' = pendingUpdates + (IF c.at \in {"update", "lease"} THEN 1 ELSE 0),
         c.at # "flush",
         c.at = "update" => ~Running,
         c.at \in Rounds => Len(stack) = 1,
         c.at \in Rounds \cup {"user"} => flushing,
         c.at = "lease" => ~Leased(c.ent)
  PROVE  Shaped'
<1>. DEFINE n == Len(stack) + 1
<1>1. /\ Framed /\ stack' \in Seq(Calls) /\ n \in Nat \ {0} /\ DOMAIN stack = 1..n - 1
      /\ DOMAIN stack' = DOMAIN stack \cup {n} /\ n \notin DOMAIN stack
      /\ stack'[n] = c /\ \A i \in DOMAIN stack : stack'[i] = stack[i]
  <2>1. Framed
    BY DEF Shaped
  <2>2. /\ stack' \in Seq(Calls) /\ DOMAIN stack = 1..Len(stack) /\ Len(stack) \in Nat
        /\ DOMAIN stack' = DOMAIN stack \cup {n} /\ n \notin DOMAIN stack
        /\ stack'[n] = c /\ \A i \in DOMAIN stack : stack'[i] = stack[i]
    BY <2>1, Pushed
  <2>3. n \in Nat \ {0} /\ n - 1 = Len(stack)
    BY <2>2
  <2>. QED  BY <2>1, <2>2, <2>3
<1>2. ~Running <=> n = 1
  BY <1>1 DEF Running, Framed
<1>3. c.at \in Rounds => n = 2
  <2>1. CASE c.at \in Rounds
    <3>1. Len(stack) = 1
      BY <2>1
    <3>. QED  BY <3>1
  <2>. QED  BY <2>1
<1>. HIDE DEF n
<1>4. Framed'
  BY <1>1 DEF Framed
<1>5. Ordered'
  <2>1. 1 \in DOMAIN stack' /\ stack' # <<>>
    <3>1. 1 \in DOMAIN stack'
      BY <1>1
    <3>. QED  BY <1>1, <3>1, NotEmpty
  <2>2. flushing' <=> (Running' /\ stack'[1].at = "flush")
    <3>1. CASE n = 1
      BY <1>1, <1>2, <2>1, <3>1 DEF Shaped, Ordered, Running
    <3>2. CASE n # 1
      <4>1. 1 \in DOMAIN stack /\ stack'[1] = stack[1]
        BY <1>1, <3>2
      <4>. QED  BY <1>2, <2>1, <3>2, <4>1 DEF Shaped, Ordered, Running
    <3>. QED  BY <3>1, <3>2
  <2>. QED  BY <1>1, <1>2, <1>3, <2>2 DEF Shaped, Ordered
<1>6. Apart'
  BY <1>1 DEF Shaped, Apart, Leased
<1>7. CountRight'
  <2>1. CASE c.at \in {"update", "lease"}
    <3>1. Counted' = Counted \cup {n} /\ n \notin Counted
      BY <1>1, <2>1 DEF Counted
    <3>2. Cardinality(Counted') = Cardinality(Counted) + 1
      BY <1>1, <3>1, CountAfterBegin
    <3>. QED  BY <1>1, <2>1, <3>2, CountedIsFinite DEF Shaped, CountRight
  <2>2. CASE c.at \notin {"update", "lease"}
    <3>1. Counted' = Counted
      BY <1>1, <2>2 DEF Counted
    <3>. QED  BY <1>1, <2>2, <3>1, CountedIsFinite DEF Shaped, CountRight
  <2>. QED  BY <2>1, <2>2
<1>. QED  BY <1>4, <1>5, <1>6, <1>7 DEF Shaped

LEMMA ShapedAfterPop ==
  ASSUME Shaped, Running, Pop,
         flushing' = (flushing /\ Top.at # "flush"),
         pendingUpdates' =
           pendingUpdates - (IF Top.at \in {"update", "lease", "flush"} THEN 1 ELSE 0)
  PROVE  Shaped'
<1>. DEFINE n == Len(stack)
<1>1. /\ Framed /\ stack' \in Seq(Calls) /\ n \in Nat \ {0} /\ DOMAIN stack = 1..n
      /\ DOMAIN stack' = DOMAIN stack \ {n} /\ n \in DOMAIN stack
      /\ Top = stack[n] /\ \A i \in DOMAIN stack' : stack'[i] = stack[i]
  BY Popped, TopIsCall DEF Shaped
<1>. HIDE DEF n
<1>2. Framed'
  BY <1>1 DEF Framed
<1>3. Top.at = "flush" => n = 1 /\ flushing
  BY <1>1 DEF Shaped, Ordered, Running
<1>4. Ordered'
  <2>1. CASE n = 1
    <3>1. DOMAIN stack' = {}
      BY <1>1, <2>1
    <3>. HIDE DEF Top
    <3>3. flushing' = FALSE
      BY <1>1, <2>1 DEF Shaped, Ordered
    <3>2. stack' = <<>>
      BY <1>1, <3>1
    <3>. QED  BY <3>1, <3>2, <3>3 DEF Ordered, Running
  <2>2. CASE n # 1
    <3>1. 1 \in DOMAIN stack' /\ stack'[1] = stack[1]
      BY <1>1, <2>2
    <3>3. flushing' = flushing
      BY <1>3, <2>2 DEF Shaped, Ordered
    <3>2. stack' # <<>>
      BY <1>1, <3>1, NotEmpty
    <3>. QED  BY <1>1, <3>1, <3>2, <3>3 DEF Shaped, Ordered, Running
  <2>. QED  BY <2>1, <2>2
<1>5. Apart'
  BY <1>1 DEF Shaped, Apart
<1>6. CountRight'
  <2>1. CASE Top.at \in {"update", "lease"}
    <3>1. Counted' = Counted \ {n} /\ n \in Counted
      BY <1>1, <2>1 DEF Counted
    <3>2. Cardinality(Counted') = Cardinality(Counted) - 1
      BY <1>1, <3>1, CountedIsFinite, FS_RemoveElement
    <3>3. flushing' = flushing
      BY <2>1 DEF Shaped, Ordered
    <3>. QED  BY <1>1, <2>1, <3>2, <3>3, CountedIsFinite DEF Shaped, CountRight
  <2>2. CASE Top.at = "flush"
    <3>1. Counted' = Counted
      BY <1>1, <2>2 DEF Counted
    <3>2. flushing /\ flushing' = FALSE
      BY <1>3, <2>2
    <3>. QED  BY <1>1, <2>2, <3>1, <3>2, CountedIsFinite DEF Shaped, CountRight
  <2>3. CASE Top.at \notin {"update", "lease", "flush"}
    <3>1. Counted' = Counted
      BY <1>1, <2>3 DEF Counted
    <3>2. flushing' = flushing
      BY <2>3 DEF Shaped, Ordered
    <3>. QED  BY <1>1, <2>3, <3>1, <3>2, CountedIsFinite DEF Shaped, CountRight
  <2>. QED  BY <2>1, <2>2, <2>3
<1>. QED  BY <1>2, <1>4, <1>5, <1>6 DEF Shaped

(* The outermost update turns into the flush: there is nothing else. *)
LEMMA ShapedAfterFlush ==
  ASSUME Shaped, Running, Top.at \in {"update", "lease"}, ~flushing, pendingUpdates = 1,
         NEW hold \in SUBSET Entities, Become(Flush(hold)), flushing' = TRUE, UNCHANGED pendingUpdates
  PROVE  Shaped' /\ Len(stack) = 1
<1>1. /\ Framed /\ Len(stack) \in Nat \ {0} /\ DOMAIN stack = 1..Len(stack)
      /\ Top = stack[Len(stack)] /\ Len(stack) \in DOMAIN stack
  BY TopIsCall DEF Shaped
<1>2. stack[1].at # "flush"
  BY DEF Shaped, Ordered
<1>3. \A i \in DOMAIN stack : stack[i].at \in {"update", "lease"}
  <2>. TAKE i \in DOMAIN stack
  <2>1. stack[i] \in Calls
    BY <1>1 DEF Framed
  <2>2. stack[i].at \notin Rounds \cup {"user", "flush"}
    BY <1>2 DEF Shaped, Ordered
  <2>. QED  BY <2>1, <2>2, CallKinds DEF Rounds
<1>4. Counted = 1..Len(stack)
  BY <1>1, <1>3 DEF Counted
<1>5. Cardinality(1..Len(stack)) = Len(stack)
  BY <1>1, FS_Interval
<1>6. Len(stack) = 1
  BY <1>1, <1>4, <1>5, CountedIsFinite DEF Shaped, CountRight
<1>7. Flush(hold) \in Calls /\ Flush(hold).at = "flush"
  BY CallsMade
<1>8. /\ stack' \in Seq(Calls) /\ DOMAIN stack' = 1..1 /\ stack'[1].at = "flush"
  BY <1>1, <1>6, <1>7, Became
<1>9. stack' # <<>>
  <2>1. 1 \in DOMAIN stack'
    BY <1>8
  <2>. QED  BY <1>8, <2>1, NotEmpty
<1>10. Counted' = {}
  BY <1>8 DEF Counted
<1>11. Cardinality(Counted') = 0
  BY <1>10, FS_EmptySet
<1>12. CountRight'
  BY <1>11 DEF CountRight
<1>13. Ordered' /\ Apart'
  BY <1>8, <1>9 DEF Ordered, Apart, Running, Rounds
<1>. QED  BY <1>6, <1>8, <1>12, <1>13 DEF Shaped, Framed

LEMMA ShapedAfterTurn ==
  ASSUME Shaped, Running, NEW c \in Calls, c.at = Top.at, c.at \in Rounds, Become(c),
         UNCHANGED <<flushing, pendingUpdates>>
  PROVE  Shaped'
<1>1. /\ Framed /\ stack' \in Seq(Calls) /\ DOMAIN stack' = DOMAIN stack
      /\ stack'[Len(stack)] = c /\ Top = stack[Len(stack)]
      /\ \A i \in DOMAIN stack \ {Len(stack)} : stack'[i] = stack[i]
  BY Became, TopIsCall DEF Shaped
<1>2. \A i \in DOMAIN stack : /\ stack'[i].at = stack[i].at
                              /\ stack[i].at = "lease" => stack'[i] = stack[i]
  BY <1>1 DEF Rounds
<1>3. Counted' = Counted
  BY <1>1, <1>2 DEF Counted
<1>4. Running' /\ 1 \in DOMAIN stack
  BY <1>1, TopIsCall DEF Running, Framed
<1>. QED  BY <1>1, <1>2, <1>3, <1>4 DEF Shaped, Framed, Ordered, Apart, CountRight, Running

(* A callback starts on a round, over nothing but the round and the flush. *)
LEMMA ShapedAfterThen ==
  ASSUME Shaped, Running, Top.at \in Rounds, NEW b \in Calls, NEW c \in Calls, Then(b, c),
         b.at = Top.at, c.at \in {"user", "lease"}, UNCHANGED flushing,
         pendingUpdates' = pendingUpdates + (IF c.at = "lease" THEN 1 ELSE 0)
  PROVE  Shaped'
<1>1. /\ Framed /\ stack' \in Seq(Calls) /\ flushing
      /\ DOMAIN stack' = {1, 2, 3} /\ DOMAIN stack = {1, 2}
      /\ stack'[1] = stack[1] /\ stack'[2] = b /\ stack'[3] = c
      /\ stack[1].at = "flush" /\ stack[2].at = b.at /\ b.at \in Rounds
  <2>1. Framed /\ Ordered
    BY DEF Shaped
  <2>2. Len(stack) = 2 /\ flushing /\ stack[1].at = "flush" /\ Top = stack[2] /\ DOMAIN stack = 1..2
    BY <2>1, TopIsCall, TopOfRound
  <2>3. /\ stack' \in Seq(Calls) /\ DOMAIN stack' = DOMAIN stack \cup {3}
        /\ stack'[2] = b /\ stack'[3] = c
        /\ \A i \in DOMAIN stack \ {2} : stack'[i] = stack[i]
    <3>1. /\ stack' \in Seq(Calls)
          /\ DOMAIN stack' = DOMAIN stack \cup {Len(stack) + 1}
          /\ stack'[Len(stack)] = b /\ stack'[Len(stack) + 1] = c
          /\ \A i \in DOMAIN stack \ {Len(stack)} : stack'[i] = stack[i]
      BY <2>1, Followed
    <3>2. Len(stack) = 2 /\ Len(stack) + 1 = 3
      BY <2>2
    <3>. QED  BY <3>1, <3>2
  <2>. QED  BY <2>1, <2>2, <2>3
<1>2. stack' # <<>>
  BY <1>1, NotEmpty
<1>3. Ordered' /\ Apart'
  BY <1>1, <1>2 DEF Ordered, Apart, Running, Rounds
<1>4. CountRight'
  <2>1. CASE c.at = "lease"
    <3>1. Counted' = Counted \cup {3} /\ 3 \notin Counted
      BY <1>1, <2>1 DEF Counted, Rounds
    <3>2. Cardinality(Counted') = Cardinality(Counted) + 1
      BY <1>1, <3>1, CountAfterBegin
    <3>. QED  BY <1>1, <2>1, <3>2, CountedIsFinite DEF Shaped, CountRight
  <2>2. CASE c.at # "lease"
    <3>1. Counted' = Counted
      BY <1>1, <2>2 DEF Counted, Rounds
    <3>. QED  BY <1>1, <2>2, <3>1, CountedIsFinite DEF Shaped, CountRight
  <2>. QED  BY <2>1, <2>2
<1>. QED  BY <1>1, <1>3, <1>4 DEF Shaped, Framed

-----------------------------------------------------------------------------
(* The registry and the queue *)

(* A subscriber is only ever where its kind and its emitter say; a key is  *)
(* taken only by the retain in progress.                                   *)
Filed ==
  /\ \A k \in Kinds, e \in Entities :
       /\ table[k].subs[e] \subseteq Registered(k, e)
       /\ Present(table[k], e) <=> table[k].subs[e] # {}
       /\ table[k].entry[e] = "taken" =>
            Middle.at = "retain" /\ Middle.kind = k /\ Middle.key = e
  /\ Middle.at = "retain" =>
       /\ Middle.kind # "release"
       /\ Middle.todo \cup Middle.kept \subseteq Registered(Middle.kind, Middle.key)
       /\ Middle.kind = "event" => Middle.ev # 0
       /\ status[Middle.key] \in {"live", "dead"}

InRelease(e) == Middle.at = "release" /\ (e \in Middle.todo \/ e = Middle.ent)

(* Whose release is due, in progress or over, and what is left of it.      *)
Released ==
  /\ \A e \in Entities : status[e] = "releasing" <=> InRelease(e)
  /\ Middle.at = "release" =>
       /\ Middle.ent \notin Middle.todo
       /\ \A s \in Middle.subs :
            s \in DOMAIN subs /\ subs[s].kind = "release" /\ subs[s].key = Middle.ent
  /\ \A e \in Entities :
       status[e] = "gone" \/ (Middle.at = "release" /\ Middle.ent = e) =>
         \A k \in Kinds : table[k].entry[e] = "absent"
  /\ \A s \in ran : subs[s].kind = "release" /\ status[subs[s].key] \in {"releasing", "gone"}
  /\ \A s \in DOMAIN subs : subs[s].kind = "release" =>
       /\ s \in active
       /\ \/ s \in ran \cup dropped \/ ~Live(subs[s].watcher)
          \/ s \in table["release"].subs[subs[s].key]
          \/ Middle.at = "release" /\ s \in Middle.subs

(* An observer or listener that is wanted is in the table, or kept by the  *)
(* retain in progress.                                                     *)
Placed ==
  \A s \in DOMAIN subs : subs[s].kind # "release" /\ Listening(s) =>
    \/ s \in table[subs[s].kind].subs[subs[s].key]
    \/ Middle.at = "retain" /\ s \in Middle.kept

NotifyOf(e) == [kind |-> "notify", ent |-> e]
ActivateOf(s) == [kind |-> "activate", sub |-> s]

Pending ==
  /\ \A e \in Entities : e \in notifs <=> \E i \in DOMAIN effects : effects[i] = NotifyOf(e)
  /\ \A i, j \in DOMAIN effects :
       effects[i].kind = "notify" /\ effects[i] = effects[j] => i = j

(* An observer that is owed a call has it coming. *)
Called ==
  \A s \in owed :
    /\ s \in active /\ subs[s].kind = "notify"
    /\ Listening(s) => \/ subs[s].key \in notifs
                       \/ Middle.at = "retain" /\ s \in Middle.todo

Activated ==
  \A s \in DOMAIN subs \ active :
    subs[s].kind # "release" /\ \E i \in DOMAIN effects : effects[i] = ActivateOf(s)

(* The events are numbered downwards. *)
Serials ==
  /\ \A i \in DOMAIN effects : effects[i].kind = "event" => effects[i].ev > fuel
  /\ \A i, j \in DOMAIN effects :
       i < j /\ effects[i].kind = "event" /\ effects[j].kind = "event" =>
         effects[i].ev > effects[j].ev
  /\ Middle.at = "retain" /\ Middle.kind = "event" =>
       /\ Middle.ev > fuel
       /\ \A i \in DOMAIN effects : effects[i].kind = "event" => Middle.ev > effects[i].ev

(* The event at i in the queue will find s active. *)
Reaches(i, s) ==
  /\ effects[i].kind = "event" /\ effects[i].ent = subs[s].key
  /\ s \in active \/ \E j \in 1..i - 1 : effects[j] = ActivateOf(s)

(* Event n is queued for s or is being delivered, and not yet to s. *)
Awaited(s, n) ==
  \/ \E i \in DOMAIN effects : Reaches(i, s) /\ effects[i].ev = n
  \/ /\ Middle.at = "retain" /\ Middle.kind = "event" /\ Middle.ev = n
     /\ s \in Middle.todo \cap active

Given(s) == {due[s][i] : i \in DOMAIN due[s]}

(* What is due to a listener is what it awaits: as a set, for both are in  *)
(* the order of the numbers.                                               *)
Due ==
  /\ \A s \in SubIds : s \notin DOMAIN subs \/ subs[s].kind # "event" => due[s] = <<>>
  /\ \A s \in SubIds : \A i, j \in DOMAIN due[s] :
       due[s][i] > fuel /\ (i < j => due[s][i] > due[s][j])
  /\ \A s \in DOMAIN subs : subs[s].kind = "event" /\ Listening(s) =>
       \A n \in 1..MaxOps : n \in Given(s) <=> Awaited(s, n)

IInv ==
  /\ Plain /\ Shaped /\ Filed /\ Released /\ Placed
  /\ Pending /\ Called /\ Activated /\ Serials /\ Due

LEMMA SubsAre ==
  ASSUME Plain
  PROVE  /\ DOMAIN subs = 1..Len(subs) /\ Len(subs) \in Nat /\ DOMAIN subs \subseteq SubIds
         /\ \A s \in DOMAIN subs : subs[s] \in Subs
         /\ Len(subs) + 1 \notin DOMAIN subs
         /\ Len(subs) < MaxSubs => Len(subs) + 1 \in SubIds
BY BoundsAssumption DEF Plain, SubIds

LEMMA SetIs ==
  ASSUME NEW tab \in Tables, NEW e \in Entities, NEW entry \in Entries, NEW S \in SUBSET SubIds
  PROVE  /\ Set(tab, e, entry, S) \in Tables
         /\ Set(tab, e, entry, S).entry = [tab.entry EXCEPT ![e] = entry]
         /\ Set(tab, e, entry, S).subs = [tab.subs EXCEPT ![e] = S]
BY DEF Set, Tables

(* The table of one kind is set at one key. *)
Placing(kind, e, entry, S) ==
  /\ table' \in [Kinds -> Tables]
  /\ table'[kind].entry[e] = entry /\ table'[kind].subs[e] = S
  /\ \A k \in Kinds, d \in Entities : k # kind \/ d # e =>
       table'[k].entry[d] = table[k].entry[d] /\ table'[k].subs[d] = table[k].subs[d]

LEMMA SetTable ==
  ASSUME Plain, NEW kind \in Kinds, NEW e \in Entities,
         NEW entry \in Entries, NEW S \in SUBSET SubIds,
         table' = [table EXCEPT ![kind] = Set(table[kind], e, entry, S)]
  PROVE  Placing(kind, e, entry, S)
<1>. DEFINE tab == Set(table[kind], e, entry, S)
<1>1. table \in [Kinds -> Tables] /\ table[kind] \in Tables
  BY DEF Plain
<1>2. /\ tab \in Tables
      /\ tab.entry = [table[kind].entry EXCEPT ![e] = entry]
      /\ tab.subs = [table[kind].subs EXCEPT ![e] = S]
  BY <1>1, SetIs
<1>3. table' = [table EXCEPT ![kind] = tab]
  OBVIOUS
<1>. HIDE DEF tab
<1>4. /\ tab.entry[e] = entry /\ tab.subs[e] = S
      /\ \A d \in Entities \ {e} : /\ tab.entry[d] = table[kind].entry[d]
                                   /\ tab.subs[d] = table[kind].subs[d]
  BY <1>1, <1>2 DEF Tables
<1>5. table' \in [Kinds -> Tables] /\ table'[kind] = tab /\ \A k \in Kinds \ {kind} : table'[k] = table[k]
  BY <1>1, <1>2, <1>3
<1>. QED  BY <1>4, <1>5 DEF Placing

LEMMA EntriesAre == {"absent", "taken", "present"} = Entries
BY DEF Entries

LEMMA SubsOfTable ==
  ASSUME Plain, NEW k \in Kinds, NEW e \in Entities
  PROVE  table[k].subs[e] \in SUBSET SubIds /\ table[k].entry[e] \in Entries
BY DEF Plain, Tables

LEMMA TableAfterInsert ==
  ASSUME Plain, NEW kind \in Kinds, NEW e \in Entities, NEW s \in SubIds,
         table' = [table EXCEPT ![kind] = Inserted(@, e, s)]
  PROVE  Placing(kind, e, "present", table[kind].subs[e] \cup {s})
<1>. DEFINE S == table[kind].subs[e] \cup {s}
<1>1. S \in SUBSET SubIds /\ "present" \in Entries
  BY SubsOfTable, EntriesAre
<1>2. table' = [table EXCEPT ![kind] = Set(table[kind], e, "present", S)]
  BY DEF Inserted
<1>. HIDE DEF S
<1>3. Placing(kind, e, "present", S)
  BY <1>1, <1>2, SetTable
<1>. QED  BY <1>3 DEF S

LEMMA TableAfterTake ==
  ASSUME Plain, NEW kind \in Kinds, NEW e \in Entities,
         table' = [table EXCEPT ![kind] = Taken(@, e)]
  PROVE  Placing(kind, e, "taken", {})
<1>1. {} \in SUBSET SubIds /\ "taken" \in Entries
  BY EntriesAre
<1>2. table' = [table EXCEPT ![kind] = Set(table[kind], e, "taken", {})]
  BY DEF Taken
<1>. QED  BY <1>1, <1>2, SetTable

LEMMA TableAfterPutBack ==
  ASSUME Plain, NEW kind \in Kinds, NEW e \in Entities, NEW kept \in SUBSET SubIds,
         table' = [table EXCEPT ![kind] = PutBack(@, e, kept)]
  PROVE  LET S == kept \cup table[kind].subs[e] IN
           Placing(kind, e, IF S = {} THEN "absent" ELSE "present", S)
<1>. DEFINE S == kept \cup table[kind].subs[e]
<1>1. S \in SUBSET SubIds /\ {} \in SUBSET SubIds /\ "present" \in Entries /\ "absent" \in Entries
  BY SubsOfTable, EntriesAre
<1>2. CASE S = {}
  <2>1. table' = [table EXCEPT ![kind] = Set(table[kind], e, "absent", {})]
    BY <1>2 DEF PutBack
  <2>. HIDE DEF S
  <2>2. Placing(kind, e, "absent", {})
    BY <1>1, <2>1, SetTable
  <2>. QED  BY <1>2, <2>2 DEF S
<1>3. CASE S # {}
  <2>1. table' = [table EXCEPT ![kind] = Set(table[kind], e, "present", S)]
    BY <1>3 DEF PutBack
  <2>. HIDE DEF S
  <2>2. Placing(kind, e, "present", S)
    BY <1>1, <2>1, SetTable
  <2>. QED  BY <1>3, <2>2 DEF S
<1>. QED  BY <1>2, <1>3

LEMMA TableAfterRemove ==
  ASSUME Plain, NEW e \in Entities, table' = [k \in Kinds |-> Removed(table[k], e)]
  PROVE  /\ table' \in [Kinds -> Tables]
         /\ \A k \in Kinds : /\ table'[k].entry[e] = "absent" /\ table'[k].subs[e] = {}
                             /\ \A d \in Entities \ {e} : /\ table'[k].entry[d] = table[k].entry[d]
                                                          /\ table'[k].subs[d] = table[k].subs[d]
<1>1. ASSUME NEW k \in Kinds
      PROVE  /\ table'[k] \in Tables
             /\ table'[k].entry[e] = "absent" /\ table'[k].subs[e] = {}
             /\ \A d \in Entities \ {e} : /\ table'[k].entry[d] = table[k].entry[d]
                                          /\ table'[k].subs[d] = table[k].subs[d]
  <2>1. table[k] \in Tables
    BY DEF Plain
  <2>2. table'[k] = [entry |-> [table[k].entry EXCEPT ![e] = "absent"],
                     subs |-> [table[k].subs EXCEPT ![e] = {}]]
    BY <2>1 DEF Removed, Set, Tables
  <2>. QED  BY <2>1, <2>2 DEF Tables, Entries
<1>. QED  BY <1>1

LEMMA TableAfterCancel ==
  ASSUME Plain, NEW S, table' = Cancelled(S)
  PROVE  /\ table' \in [Kinds -> Tables]
         /\ \A k \in Kinds, e \in Entities :
              /\ table'[k].subs[e] = table[k].subs[e] \ S
              /\ table'[k].entry[e] =
                   IF table[k].entry[e] = "present" /\ table[k].subs[e] \ S = {}
                   THEN "absent" ELSE table[k].entry[e]
<1>1. ASSUME NEW k \in Kinds
      PROVE  /\ table'[k] \in Tables
             /\ \A e \in Entities :
                  /\ table'[k].subs[e] = table[k].subs[e] \ S
                  /\ table'[k].entry[e] =
                       IF table[k].entry[e] = "present" /\ table[k].subs[e] \ S = {}
                       THEN "absent" ELSE table[k].entry[e]
  <2>1. table[k] \in Tables
    BY DEF Plain
  <2>2. table'[k] = [entry |-> [e \in Entities |->
                                 IF table[k].entry[e] = "present" /\ table[k].subs[e] \ S = {}
                                 THEN "absent" ELSE table[k].entry[e]],
                     subs |-> [e \in Entities |-> table[k].subs[e] \ S]]
    BY DEF Cancelled, Present
  <2>. QED  BY <2>1, <2>2 DEF Tables, Entries
<1>2. table' \in [Kinds -> Tables]
  <2>1. DOMAIN table' = Kinds /\ table' = [k \in Kinds |-> table'[k]]
    BY DEF Cancelled
  <2>. QED  BY <1>1, <2>1
<1>. QED  BY <1>1, <1>2

-----------------------------------------------------------------------------
(* What each step does to the stack, the round and the status *)

(* The steps that leave the round alone. *)
Quiet ==
  \/ Begin \/ Finish \/ Return
  \/ \E e \in Entities : BeginUpdateEntity(e) \/ DropHandleOutside(e) \/ SubscribeOutside(e)
  \/ \E e \in Entities : UpdateEntity(e) \/ Notify(e) \/ Emit(e)
  \/ Defer
  \/ \E k \in Kinds, e \in Entities, w \in Watchers : Subscribe(k, e, w)
  \/ \E s \in SubIds : DropSubscription(s) \/ Detach(s)
  \/ \E x \in Owners, e \in Entities : DropHandle(x, e)
  \/ ApplyActivate \/ ApplyDefer
  \/ EndFlush

(* ... and the others. *)
InRound ==
  \/ TakeDropped \/ (\E e \in Entities : Release(e))
  \/ RunRelease \/ DropEntity \/ EndRelease
  \/ ApplyNotify \/ ApplyEmit
  \/ Visit \/ Visited \/ EndRetain

LEMMA NextIsEither == Next => Quiet \/ InRound
BY DEF Next, Quiet, InRound

LEMMA QuietStays ==
  ASSUME Plain, Shaped, Quiet
  PROVE  Shaped' /\ Middle' = Middle
<1>1. Framed /\ Ordered
  BY DEF Shaped
<1>2. CASE UNCHANGED <<stack, flushing, pendingUpdates>>
  BY <1>2, ShapedWithStack
<1>3. CASE Begin
  <2>1. Update({}) \in Calls /\ Update({}).at = "update"
    BY CallsMade
  <2>. DEFINE c == Update({})
  <2>2. ~Running /\ Push(c) /\ UNCHANGED flushing /\ pendingUpdates' = pendingUpdates + 1
    BY <1>3 DEF Begin
  <2>3. c \in Calls /\ c.at = "update"
    BY <2>1
  <2>. HIDE DEF c
  <2>. QED  BY <1>1, <2>2, <2>3, ShapedAfterPush, MiddleAfterPush DEF Rounds
<1>4. ASSUME NEW e \in Entities, BeginUpdateEntity(e) \/ UpdateEntity(e)
      PROVE  Shaped' /\ Middle' = Middle
  <2>. DEFINE c == Lease(e, {e})
  <2>1. c \in Calls /\ c.at = "lease" /\ c.ent = e
    BY CallsMade
  <2>2. Push(c) /\ UNCHANGED flushing /\ pendingUpdates' = pendingUpdates + 1 /\ ~Leased(e)
    <3>1. CASE BeginUpdateEntity(e)
      BY <3>1 DEF BeginUpdateEntity, Leased, Running
    <3>2. CASE UpdateEntity(e)
      BY <3>2 DEF UpdateEntity
    <3>. QED  BY <1>4, <3>1, <3>2
  <2>. HIDE DEF c
  <2>. QED  BY <1>1, <2>1, <2>2, ShapedAfterPush, MiddleAfterPush DEF Rounds
<1>5. CASE Finish
  <2>1. Running /\ Top.at \in {"update", "lease"} /\ Top.hold \in SUBSET Entities
    BY <1>1, <1>5, TopIsCall, CallKinds DEF Finish
  <2>2. CASE ~flushing /\ pendingUpdates = 1
    <3>1. Become(Flush(Top.hold)) /\ flushing' = TRUE /\ UNCHANGED pendingUpdates
      BY <1>5, <2>2 DEF Finish
    <3>2. Shaped'
      BY <2>1, <2>2, <3>1, ShapedAfterFlush
    <3>3. Flush(Top.hold) \in Calls /\ Flush(Top.hold).at = "flush"
      BY <2>1, CallsMade
    <3>4. Middle' = Middle
      BY <1>1, <2>1, <3>1, <3>3, MiddleAfterTurn DEF Rounds
    <3>. QED  BY <3>2, <3>4
  <2>3. CASE ~(~flushing /\ pendingUpdates = 1)
    <3>1. Pop /\ UNCHANGED flushing /\ pendingUpdates' = pendingUpdates - 1
      BY <1>5, <2>3 DEF Finish
    <3>2. flushing \in BOOLEAN
      BY DEF Plain
    <3>3. flushing' = (flushing /\ Top.at # "flush")
      BY <2>1, <3>1, <3>2
    <3>4. Shaped'
      BY <2>1, <3>1, <3>3, ShapedAfterPop
    <3>. QED  BY <1>1, <2>1, <3>1, <3>4, MiddleAfterPop DEF Rounds
  <2>. QED  BY <2>2, <2>3
<1>6. CASE Return
  <2>1. Running /\ Top.at = "user" /\ Pop /\ UNCHANGED <<flushing, pendingUpdates>>
    BY <1>6 DEF Return, updates
  <2>2. flushing' = (flushing /\ Top.at # "flush")
    BY <2>1 DEF Plain
  <2>3. pendingUpdates' = pendingUpdates - 0 /\ Top.at \notin {"update", "lease", "flush"}
    BY <1>1, <2>1, CountedIsFinite DEF Shaped, CountRight
  <2>4. Shaped'
    BY <2>1, <2>2, <2>3, ShapedAfterPop
  <2>. QED  BY <1>1, <2>1, <2>4, MiddleAfterPop DEF Rounds
<1>7. CASE EndFlush
  <2>1. Running /\ Top.at = "flush" /\ Pop /\ flushing' = FALSE /\ pendingUpdates' = pendingUpdates - 1
    BY <1>7 DEF EndFlush, Flushing
  <2>2. flushing' = (flushing /\ Top.at # "flush")
    BY <2>1
  <2>3. Shaped'
    BY <2>1, <2>2, ShapedAfterPop
  <2>. QED  BY <1>1, <2>1, <2>3, MiddleAfterPop DEF Rounds
<1>8. CASE ApplyDefer
  <2>. DEFINE c == User({})
  <2>1. c \in Calls /\ c.at = "user"
    BY CallsMade
  <2>2. Flushing /\ Push(c) /\ UNCHANGED <<flushing, pendingUpdates>>
    BY <1>8 DEF ApplyDefer, Next1, updates
  <2>3. flushing
    BY <1>1, <2>2, TopOfFlush
  <2>4. pendingUpdates' = pendingUpdates + 0
    BY <1>1, <2>2, CountedIsFinite DEF Shaped, CountRight
  <2>. HIDE DEF c
  <2>. QED  BY <1>1, <2>1, <2>2, <2>3, <2>4, ShapedAfterPush, MiddleAfterPush DEF Rounds
<1>9. CASE \/ \E e \in Entities : DropHandleOutside(e) \/ SubscribeOutside(e) \/ Notify(e) \/ Emit(e)
           \/ Defer \/ ApplyActivate
  <2>1. UNCHANGED <<stack, flushing, pendingUpdates>>
    BY <1>9 DEF DropHandleOutside, SubscribeOutside, Notify, Emit, Defer, ApplyActivate, updates
  <2>. QED  BY <2>1, <1>2
<1>10. CASE \/ \E k \in Kinds, e \in Entities, w \in Watchers : Subscribe(k, e, w)
            \/ \E s \in SubIds : DropSubscription(s) \/ Detach(s)
            \/ \E x \in Owners, e \in Entities : DropHandle(x, e)
  <2>1. UNCHANGED <<stack, flushing, pendingUpdates>>
    BY <1>10 DEF Subscribe, DropSubscription, Detach, DropHandle, updates
  <2>. QED  BY <2>1, <1>2
<1>. QED  BY <1>3, <1>4, <1>5, <1>6, <1>7, <1>8, <1>9, <1>10 DEF Quiet

-----------------------------------------------------------------------------
(* One lemma for each step of a round: the shape stays, and the round goes *)
(* where the step says.                                                    *)

LEMMA RoundBegins ==
  ASSUME Plain, Shaped, Flushing, NEW c \in Calls, c.at \in Rounds, Push(c),
         UNCHANGED <<flushing, pendingUpdates>>
  PROVE  Shaped' /\ Middle = Idle /\ Middle' = c
<1>1. Framed /\ Ordered
  BY DEF Shaped
<1>2. Middle = Idle /\ Len(stack) = 1 /\ flushing
  BY <1>1, TopOfFlush
<1>3. pendingUpdates' = pendingUpdates + 0
  BY <1>1, CountedIsFinite DEF Shaped, CountRight
<1>4. c.at \notin {"flush", "update", "lease", "user"}
  BY DEF Rounds
<1>5. Shaped'
  BY <1>2, <1>3, <1>4, ShapedAfterPush
<1>. QED  BY <1>1, <1>2, <1>5, MiddleAfterPush

LEMMA RoundTurns ==
  ASSUME Plain, Shaped, Running, Top.at \in Rounds, NEW c \in Calls, c.at = Top.at, Become(c),
         UNCHANGED <<flushing, pendingUpdates>>
  PROVE  Shaped' /\ Middle = Top /\ Middle' = c /\ Len(stack') = Len(stack)
<1>1. Framed /\ Ordered
  BY DEF Shaped
<1>2. Shaped'
  BY ShapedAfterTurn
<1>3. Len(stack') = Len(stack)
  BY <1>1, Became DEF Framed
<1>. QED  BY <1>1, <1>2, <1>3, TopOfRound, MiddleAfterTurn

LEMMA RoundEnds ==
  ASSUME Plain, Shaped, Running, Top.at \in Rounds, Pop, UNCHANGED <<flushing, pendingUpdates>>
  PROVE  Shaped' /\ Middle = Top /\ Middle' = Idle
<1>1. Framed /\ Ordered
  BY DEF Shaped
<1>2. flushing' = (flushing /\ Top.at # "flush")
  BY DEF Plain, Rounds
<1>3. pendingUpdates' = pendingUpdates - 0 /\ Top.at \notin {"update", "lease", "flush"}
  BY <1>1, CountedIsFinite DEF Shaped, CountRight, Rounds
<1>4. Shaped'
  BY <1>2, <1>3, ShapedAfterPop
<1>. QED  BY <1>1, <1>4, TopOfRound, MiddleAfterPop

(* A callback starts on the round. *)
LEMMA RoundCalls ==
  ASSUME Plain, Shaped, Running, Top.at \in Rounds, NEW b \in Calls, b.at = Top.at,
         NEW s \in DOMAIN subs, NEW keep \in SUBSET Entities, Call(b, s, keep), UNCHANGED flushing
  PROVE  Shaped' /\ Middle = Top /\ Middle' = b /\ Len(stack') > Len(stack) /\ stack'[Len(stack)] = b
<1>. DEFINE w == subs[s].watcher
<1>1. Framed /\ Ordered
  BY DEF Shaped
<1>2. w \in Entities \cup {None}
  BY SubsAre DEF Subs, Watchers
<1>3. PICK c \in Calls : /\ Then(b, c) /\ c.at \in {"user", "lease"}
                         /\ pendingUpdates' = pendingUpdates + (IF c.at = "lease" THEN 1 ELSE 0)
  <2>1. CASE w = None
    <3>1. User(keep) \in Calls /\ User(keep).at = "user"
      BY CallsMade
    <3>2. Then(b, User(keep)) /\ pendingUpdates' = pendingUpdates
      BY <2>1 DEF Call
    <3>3. pendingUpdates' = pendingUpdates + 0
      BY <1>1, <3>2, CountedIsFinite DEF Shaped, CountRight
    <3>. QED  BY <3>1, <3>2, <3>3
  <2>2. CASE w # None
    <3>1. w \in Entities /\ keep \cup {w} \in SUBSET Entities
      BY <1>2, <2>2
    <3>2. Lease(w, keep \cup {w}) \in Calls /\ Lease(w, keep \cup {w}).at = "lease"
      BY <3>1, CallsMade
    <3>3. Then(b, Lease(w, keep \cup {w})) /\ pendingUpdates' = pendingUpdates + 1
      BY <2>2 DEF Call
    <3>. QED  BY <3>2, <3>3
  <2>. QED  BY <2>1, <2>2
<1>4. Shaped'
  BY <1>3, ShapedAfterThen
<1>5. Middle = Top /\ Middle' = b
  BY <1>1, <1>3, TopOfRound, MiddleAfterThen
<1>6. Len(stack') > Len(stack) /\ stack'[Len(stack)] = b
  <2>1. /\ stack' \in Seq(Calls) /\ Len(stack) + 1 \in DOMAIN stack'
        /\ Len(stack) \in Nat /\ stack'[Len(stack)] = b
    BY <1>1, <1>3, Followed, TopIsCall
  <2>2. DOMAIN stack' = 1..Len(stack') /\ Len(stack') \in Nat
    BY <2>1
  <2>. QED  BY <2>1, <2>2
<1>. QED  BY <1>4, <1>5, <1>6

LEMMA TakeDroppedIs ==
  ASSUME Plain, Shaped, TakeDropped
  PROVE  /\ Shaped' /\ Middle = Idle
         /\ Middle' = [at |-> "release", todo |-> Dead, ent |-> None, subs |-> {}, hold |-> {}]
<1>. DEFINE c == [at |-> "release", todo |-> Dead, ent |-> None, subs |-> {}, hold |-> {}]
<1>1. c \in Calls /\ c.at = "release"
  BY DEF Calls, Dead, Watchers
<1>2. Flushing /\ Push(c) /\ UNCHANGED <<flushing, pendingUpdates>>
  BY DEF TakeDropped, updates
<1>3. c.at \in Rounds
  BY <1>1 DEF Rounds
<1>. HIDE DEF c
<1>4. Shaped' /\ Middle = Idle /\ Middle' = c
  BY <1>1, <1>2, <1>3, RoundBegins
<1>. QED  BY <1>4 DEF c

(* The calls of a release and of a retain, at the top of the stack. *)
LEMMA TopReleases ==
  ASSUME Shaped, Running, Top.at = "release"
  PROVE  Top \in ReleaseCalls /\ Top \in Calls /\ Top.at \in Rounds
BY TopIsCall, CallKinds DEF Shaped, Rounds

LEMMA TopRetains ==
  ASSUME Shaped, Running, Top.at = "retain"
  PROVE  Top \in RetainCalls /\ Top \in Calls /\ Top.at \in Rounds
BY TopIsCall, CallKinds DEF Shaped, Rounds

LEMMA ReleaseIs ==
  ASSUME Plain, Shaped, NEW e \in Entities, Release(e)
  PROVE  /\ Shaped' /\ Middle \in ReleaseCalls /\ Middle.ent = None /\ e \in Middle.todo
         /\ Middle' \in ReleaseCalls
         /\ Middle' = [Middle EXCEPT !.todo = @ \ {e}, !.ent = e, !.subs = table["release"].subs[e]]
<1>. DEFINE c == [Top EXCEPT !.todo = @ \ {e}, !.ent = e, !.subs = table["release"].subs[e]]
<1>1. /\ Running /\ Top.at = "release" /\ Top.ent = None /\ e \in Top.todo
      /\ Become(c) /\ UNCHANGED <<flushing, pendingUpdates>>
  BY DEF Release, updates
<1>2. Top \in ReleaseCalls /\ Top \in Calls /\ Top.at \in Rounds
  BY <1>1, TopReleases
<1>3. table["release"].subs[e] \in SUBSET SubIds
  BY SubsOfTable DEF Kinds
<1>4. c \in ReleaseCalls
  BY <1>2, <1>3 DEF ReleaseCalls, Watchers
<1>5. c \in Calls /\ c.at = Top.at
  BY <1>1, <1>4 DEF ReleaseCalls, Calls
<1>. HIDE DEF c
<1>6. Shaped' /\ Middle = Top /\ Middle' = c
  BY <1>1, <1>2, <1>5, RoundTurns
<1>. QED  BY <1>1, <1>2, <1>4, <1>6 DEF c

(* At an entity that is being released. *)
LEMMA AtRelease ==
  ASSUME Shaped, Releasing
  PROVE  /\ Running /\ Top.at = "release" /\ Top \in ReleaseCalls /\ Top \in Calls
         /\ Top.ent \in Entities /\ Top.at \in Rounds /\ Middle = Top
<1>1. Running /\ Top.at = "release" /\ Top.ent # None
  BY DEF Releasing
<1>2. Top \in ReleaseCalls /\ Top \in Calls /\ Top.at \in Rounds
  BY <1>1, TopReleases
<1>3. Top.ent \in Entities
  BY <1>1, <1>2 DEF ReleaseCalls, Watchers
<1>4. Middle = Top
  BY <1>1, <1>2, TopOfRound DEF Shaped
<1>. QED  BY <1>1, <1>2, <1>3, <1>4

(* The next callback: it runs, or is passed over for good. *)
LEMMA RunReleaseIs ==
  ASSUME Plain, Shaped, Released, RunRelease
  PROVE  /\ Shaped' /\ Middle \in ReleaseCalls /\ Middle.ent \in Entities /\ Middle' \in ReleaseCalls
         /\ \E s \in Middle.subs :
              /\ s \in DOMAIN subs
              /\ Middle' = [Middle EXCEPT !.subs = @ \ {s}]
              /\ \/ ran' = ran \cup {s}
                 \/ (s \notin active \/ ~Live(subs[s].watcher)) /\ UNCHANGED ran
<1>. DEFINE s == Min(Top.subs)
            b == [Top EXCEPT !.subs = @ \ {s}]
<1>1. Releasing /\ Top.subs # {} /\ UNCHANGED flushing
  BY DEF RunRelease
<1>2. /\ Running /\ Top.at = "release" /\ Top \in ReleaseCalls /\ Top \in Calls
      /\ Top.ent \in Entities /\ Top.at \in Rounds /\ Middle = Top
  BY <1>1, AtRelease
<1>3. Top.subs \in SUBSET SubIds
  BY <1>2 DEF ReleaseCalls
<1>4. s \in Top.subs
  BY <1>1, <1>3, MinIsMember
<1>5. \/ /\ Call(b, s, {}) /\ ran' = ran \cup {s}
      \/ /\ Become(b) /\ UNCHANGED <<pendingUpdates, ran>>
         /\ s \notin active \/ ~Live(subs[s].watcher)
  BY DEF RunRelease
<1>. HIDE DEF s
<1>6. s \in DOMAIN subs
  BY <1>2, <1>4 DEF Released
<1>7. b \in ReleaseCalls /\ b \in Calls /\ b.at = Top.at
  BY <1>2, <1>3 DEF ReleaseCalls, Calls
<1>. HIDE DEF b
<1>8. Shaped' /\ Middle' = b
  <2>1. CASE Call(b, s, {})
    BY <1>1, <1>2, <1>6, <1>7, <2>1, RoundCalls
  <2>2. CASE Become(b) /\ UNCHANGED pendingUpdates
    BY <1>1, <1>2, <1>7, <2>2, RoundTurns
  <2>. QED  BY <1>5, <2>1, <2>2
<1>. QED  BY <1>2, <1>4, <1>5, <1>6, <1>7, <1>8 DEF b

LEMMA DropEntityIs ==
  ASSUME Plain, Shaped, DropEntity
  PROVE  /\ Shaped' /\ Middle \in ReleaseCalls /\ Middle.ent \in Entities /\ Middle.subs = {}
         /\ Middle' \in ReleaseCalls /\ Middle' = [Middle EXCEPT !.ent = None]
         /\ Middle = Top
<1>. DEFINE c == [Top EXCEPT !.ent = None]
<1>1. Releasing /\ Top.subs = {} /\ Become(c) /\ UNCHANGED <<flushing, pendingUpdates>>
  BY DEF DropEntity, updates
<1>2. /\ Running /\ Top.at = "release" /\ Top \in ReleaseCalls /\ Top \in Calls
      /\ Top.ent \in Entities /\ Top.at \in Rounds /\ Middle = Top
  BY <1>1, AtRelease
<1>3. c \in ReleaseCalls /\ c \in Calls /\ c.at = Top.at
  BY <1>2 DEF ReleaseCalls, Calls, Watchers
<1>. HIDE DEF c
<1>4. Shaped' /\ Middle' = c
  BY <1>1, <1>2, <1>3, RoundTurns
<1>. QED  BY <1>1, <1>2, <1>3, <1>4 DEF c

LEMMA EndReleaseIs ==
  ASSUME Plain, Shaped, EndRelease
  PROVE  /\ Shaped' /\ Middle \in ReleaseCalls /\ Middle.ent = None /\ Middle.todo = {}
         /\ Middle' = Idle
<1>1. /\ Running /\ Top.at = "release" /\ Top.ent = None /\ Top.todo = {} /\ Pop
      /\ UNCHANGED <<flushing, pendingUpdates>>
  BY DEF EndRelease, updates
<1>. QED  BY <1>1, TopReleases, RoundEnds

(* A retain begins, on the subscribers of the entity, if there are any. *)
Retained(kind, e, ev) ==
  \/ /\ ~Present(table[kind], e)
     /\ Middle' = Idle /\ UNCHANGED table
  \/ /\ Present(table[kind], e)
     /\ Middle' \in RetainCalls /\ Middle'.at = "retain"
     /\ Middle'.kind = kind /\ Middle'.key = e /\ Middle'.ev = ev /\ Middle'.run = 0
     /\ Middle'.todo = table[kind].subs[e] /\ Middle'.kept = table[kind].subs[e]
     /\ Placing(kind, e, "taken", {})

LEMMA RetainIs ==
  ASSUME Plain, Shaped, Flushing, NEW kind \in Kinds, NEW e \in Entities, NEW ev \in 0..MaxOps,
         Retain(kind, e, ev), UNCHANGED <<flushing, pendingUpdates>>
  PROVE  Shaped' /\ Middle = Idle /\ Retained(kind, e, ev)
<1>1. CASE ~Present(table[kind], e)
  <2>1. UNCHANGED <<stack, table>>
    BY <1>1 DEF Retain
  <2>2. Shaped' /\ Middle' = Middle
    BY <2>1, ShapedWithStack
  <2>3. Middle = Idle
    BY TopOfFlush DEF Shaped
  <2>. QED  BY <1>1, <2>1, <2>2, <2>3 DEF Retained
<1>2. CASE Present(table[kind], e)
  <2>. DEFINE S == table[kind].subs[e]
              c == [at |-> "retain", kind |-> kind, key |-> e, todo |-> S,
                    kept |-> S, run |-> 0, ev |-> ev, hold |-> {}]
  <2>1. Push(c) /\ table' = [table EXCEPT ![kind] = Taken(@, e)]
    BY <1>2 DEF Retain
  <2>2. S \in SUBSET SubIds
    BY SubsOfTable
  <2>3. c \in RetainCalls
    BY <2>2 DEF RetainCalls
  <2>4. c \in Calls /\ c.at \in Rounds
    BY <2>3 DEF Calls, RetainCalls, Rounds
  <2>5. /\ c.at = "retain" /\ c.kind = kind /\ c.key = e /\ c.ev = ev /\ c.run = 0
        /\ c.todo = S /\ c.kept = S
    OBVIOUS
  <2>. HIDE DEF c
  <2>6. Shaped' /\ Middle = Idle /\ Middle' = c
    BY <2>1, <2>4, RoundBegins
  <2>7. Placing(kind, e, "taken", {})
    BY <2>1, TableAfterTake
  <2>. QED  BY <1>2, <2>3, <2>5, <2>6, <2>7 DEF Retained
<1>. QED  BY <1>1, <1>2

(* The first effect, of a kind. *)
LEMMA HeadIs ==
  ASSUME Plain, NEW kind, Next1(kind)
  PROVE  /\ effects \in Seq(Effects) /\ effects # <<>>
         /\ Head(effects) = effects[1] /\ 1 \in DOMAIN effects
         /\ Head(effects) \in Effects /\ Head(effects).kind = kind
         /\ effects' = Tail(effects)
         /\ DOMAIN effects = 1..Len(effects) /\ Len(effects) \in Nat
         /\ DOMAIN effects' = 1..Len(effects) - 1
         /\ \A i \in DOMAIN effects' : effects'[i] = effects[i + 1] /\ i + 1 \in DOMAIN effects
<1>1. effects \in Seq(Effects) /\ effects # <<>> /\ Head(effects).kind = kind /\ effects' = Tail(effects)
  BY DEF Plain, Next1
<1>. QED  BY <1>1

LEMMA EffectsAre ==
  ASSUME NEW f \in Effects
  PROVE  /\ f.kind \in {"notify", "event", "activate", "defer"}
         /\ f.kind = "notify" => f.ent \in Entities /\ f = NotifyOf(f.ent)
         /\ f.kind = "event" => f.ent \in Entities /\ f.ev \in 1..MaxOps
         /\ f.kind = "activate" => f.sub \in SubIds /\ f = ActivateOf(f.sub)
BY DEF Effects, NotifyOf, ActivateOf

LEMMA ApplyNotifyIs ==
  ASSUME Plain, Shaped, ApplyNotify
  PROVE  /\ Shaped' /\ Middle = Idle
         /\ \E e \in Entities : /\ Head(effects) = NotifyOf(e) /\ notifs' = notifs \ {e}
                                /\ Retained("notify", e, 0)
<1>1. PICK e \in Entities : Head(effects) = NotifyOf(e) /\ Head(effects).ent = e
  BY HeadIs, EffectsAre DEF ApplyNotify
<1>2. Flushing /\ Retain("notify", e, 0) /\ notifs' = notifs \ {e} /\ UNCHANGED <<flushing, pendingUpdates>>
  BY <1>1 DEF ApplyNotify, Next1, updates
<1>3. 0 \in 0..MaxOps /\ "notify" \in Kinds
  BY BoundsAssumption DEF Kinds
<1>4. Shaped' /\ Middle = Idle /\ Retained("notify", e, 0)
  BY <1>2, <1>3, RetainIs
<1>. QED  BY <1>1, <1>2, <1>4

LEMMA ApplyEmitIs ==
  ASSUME Plain, Shaped, ApplyEmit
  PROVE  /\ Shaped' /\ Middle = Idle
         /\ Head(effects).ent \in Entities /\ Head(effects).ev \in 1..MaxOps
         /\ Head(effects).kind = "event"
         /\ Retained("event", Head(effects).ent, Head(effects).ev)
<1>1. Head(effects).ent \in Entities /\ Head(effects).ev \in 1..MaxOps /\ Head(effects).kind = "event"
  BY HeadIs, EffectsAre DEF ApplyEmit
<1>2. /\ Flushing /\ Retain("event", Head(effects).ent, Head(effects).ev)
      /\ UNCHANGED <<flushing, pendingUpdates>>
  BY DEF ApplyEmit, Next1, updates
<1>3. Head(effects).ev \in 0..MaxOps /\ "event" \in Kinds
  BY <1>1, BoundsAssumption DEF Kinds
<1>4. Shaped' /\ Middle = Idle /\ Retained("event", Head(effects).ent, Head(effects).ev)
  BY <1>1, <1>2, <1>3, RetainIs
<1>. QED  BY <1>1, <1>4

(* The next subscriber of a retain is passed over, dropped or called. *)
LEMMA VisitIs ==
  ASSUME Plain, Shaped, Filed, Visit
  PROVE  /\ Shaped' /\ Middle \in RetainCalls /\ Middle' \in RetainCalls
         /\ Middle'.kind = Middle.kind /\ Middle'.key = Middle.key /\ Middle'.ev = Middle.ev
         /\ \E s \in Middle.todo :
              /\ s \in Registered(Middle.kind, Middle.key)
              /\ Middle'.todo = Middle.todo \ {s}
              /\ \/ /\ s \notin active /\ Middle'.kept = Middle.kept /\ UNCHANGED <<owed, due>>
                    /\ Len(stack') = Len(stack)
                 \/ /\ s \in active /\ ~Listening(s) /\ Middle'.kept = Middle.kept \ {s}
                    /\ UNCHANGED <<owed, due>> /\ Len(stack') = Len(stack)
                 \/ /\ s \in active /\ Listening(s) /\ Middle'.kept = Middle.kept
                    /\ owed' = owed \ {s}
                    /\ due' = [due EXCEPT ![s] = IF @ = <<>> THEN @ ELSE Tail(@)]
                    /\ Top = Middle /\ stack'[Len(stack)] = Middle' /\ Middle'.run = s
<1>. DEFINE s == Min(Top.todo)
            rest == [Top EXCEPT !.todo = @ \ {s}]
<1>1. /\ Running /\ Top.at = "retain" /\ Top.run = 0 /\ Top.todo # {} /\ UNCHANGED flushing
      /\ UNCHANGED <<status, dropped, subs>>
  BY DEF Visit, Retaining, registry
<1>2. Top \in RetainCalls /\ Top \in Calls /\ Top.at \in Rounds /\ Middle = Top
  BY <1>1, TopRetains, TopOfRound DEF Shaped
<1>3. Top.todo \in SUBSET SubIds /\ Top.key \in Entities
  BY <1>2 DEF RetainCalls
<1>4. s \in Top.todo
  BY <1>1, <1>3, MinIsMember
<1>5. \/ s \notin active /\ Become(rest) /\ UNCHANGED <<pendingUpdates, owed, due>>
      \/ /\ s \in active /\ (s \in dropped \/ ~Live(Top.key) \/ ~Live(subs[s].watcher))
         /\ Become([rest EXCEPT !.kept = @ \ {s}])
         /\ UNCHANGED <<pendingUpdates, owed, due>>
      \/ /\ s \in active \ dropped /\ Live(Top.key) /\ Live(subs[s].watcher)
         /\ Call([rest EXCEPT !.run = s], s, {Top.key})
         /\ owed' = owed \ {s}
         /\ due' = [due EXCEPT ![s] = IF @ = <<>> THEN @ ELSE Tail(@)]
  BY DEF Visit
<1>. HIDE DEF s
<1>6. s \in Registered(Top.kind, Top.key) /\ s \in SubIds /\ s \in DOMAIN subs /\ subs[s].key = Top.key
  BY <1>1, <1>2, <1>3, <1>4 DEF Filed, Registered
<1>7. /\ rest \in RetainCalls /\ rest.at = "retain" /\ rest.kind = Top.kind /\ rest.key = Top.key
      /\ rest.ev = Top.ev /\ rest.todo = Top.todo \ {s} /\ rest.kept = Top.kept
  BY <1>1, <1>2 DEF RetainCalls
<1>. HIDE DEF rest
<1>8. RetainCalls \subseteq Calls
  BY DEF RetainCalls, Calls
<1>9. CASE s \notin active /\ Become(rest) /\ UNCHANGED <<pendingUpdates, owed, due>>
  <2>1. Shaped' /\ Middle' = rest /\ Len(stack') = Len(stack)
    BY <1>1, <1>2, <1>7, <1>8, <1>9, RoundTurns
  <2>. QED  BY <1>2, <1>4, <1>6, <1>7, <1>9, <2>1
<1>10. CASE /\ s \in active /\ (s \in dropped \/ ~Live(Top.key) \/ ~Live(subs[s].watcher))
            /\ Become([rest EXCEPT !.kept = @ \ {s}])
            /\ UNCHANGED <<pendingUpdates, owed, due>>
  <2>. DEFINE c == [rest EXCEPT !.kept = @ \ {s}]
  <2>1. /\ c \in RetainCalls /\ c.at = "retain" /\ c.kind = Top.kind /\ c.key = Top.key
        /\ c.ev = Top.ev /\ c.todo = Top.todo \ {s} /\ c.kept = Top.kept \ {s}
    BY <1>7 DEF RetainCalls
  <2>2. Become(c)
    BY <1>10
  <2>. HIDE DEF c
  <2>3. Shaped' /\ Middle' = c /\ Len(stack') = Len(stack)
    BY <1>1, <1>2, <1>8, <1>10, <2>1, <2>2, RoundTurns
  <2>4. ~Listening(s)
    BY <1>6, <1>10 DEF Listening
  <2>. QED  BY <1>2, <1>4, <1>6, <1>10, <2>1, <2>3, <2>4
<1>11. CASE /\ s \in active \ dropped /\ Live(Top.key) /\ Live(subs[s].watcher)
            /\ Call([rest EXCEPT !.run = s], s, {Top.key})
            /\ owed' = owed \ {s}
            /\ due' = [due EXCEPT ![s] = IF @ = <<>> THEN @ ELSE Tail(@)]
  <2>. DEFINE c == [rest EXCEPT !.run = s]
  <2>1. /\ c \in RetainCalls /\ c.at = "retain" /\ c.kind = Top.kind /\ c.key = Top.key
        /\ c.ev = Top.ev /\ c.todo = Top.todo \ {s} /\ c.kept = Top.kept /\ c.run = s
    BY <1>6, <1>7 DEF RetainCalls
  <2>2. Call(c, s, {Top.key}) /\ {Top.key} \in SUBSET Entities
    BY <1>3, <1>11
  <2>. HIDE DEF c
  <2>3. Shaped' /\ Middle' = c /\ stack'[Len(stack)] = c
    BY <1>1, <1>2, <1>6, <1>8, <2>1, <2>2, RoundCalls
  <2>4. Listening(s)
    BY <1>6, <1>11 DEF Listening
  <2>. QED  BY <1>2, <1>4, <1>6, <1>11, <2>1, <2>3, <2>4
<1>. QED  BY <1>5, <1>9, <1>10, <1>11

LEMMA VisitedIs ==
  ASSUME Plain, Shaped, Visited
  PROVE  /\ Shaped' /\ Middle \in RetainCalls /\ Middle' \in RetainCalls
         /\ Middle'.kind = Middle.kind /\ Middle'.key = Middle.key /\ Middle'.ev = Middle.ev
         /\ Middle'.todo = Middle.todo
         /\ Middle'.kept \subseteq Middle.kept /\ Middle.kept \ Middle'.kept \subseteq dropped
<1>. DEFINE c == [Top EXCEPT !.run = 0, !.kept = IF Top.run \in dropped THEN @ \ {Top.run} ELSE @]
<1>1. /\ Running /\ Top.at = "retain" /\ Top.run # 0 /\ Become(c) /\ UNCHANGED <<flushing, pendingUpdates>>
  BY DEF Visited, Retaining, updates
<1>2. Top \in RetainCalls /\ Top \in Calls /\ Top.at \in Rounds
  BY <1>1, TopRetains
<1>3. /\ c \in RetainCalls /\ c.kind = Top.kind /\ c.key = Top.key /\ c.ev = Top.ev
      /\ c.todo = Top.todo /\ c.at = Top.at
      /\ c.kept \subseteq Top.kept /\ Top.kept \ c.kept \subseteq dropped
  BY <1>2 DEF RetainCalls
<1>4. c \in Calls
  BY <1>3 DEF RetainCalls, Calls
<1>. HIDE DEF c
<1>5. Shaped' /\ Middle = Top /\ Middle' = c
  BY <1>1, <1>2, <1>3, <1>4, RoundTurns
<1>. QED  BY <1>2, <1>3, <1>5

LEMMA EndRetainIs ==
  ASSUME Plain, Shaped, EndRetain
  PROVE  /\ Shaped' /\ Middle \in RetainCalls /\ Middle.todo = {} /\ Middle' = Idle
         /\ LET S == Middle.kept \cup table[Middle.kind].subs[Middle.key] IN
              Placing(Middle.kind, Middle.key, IF S = {} THEN "absent" ELSE "present", S)
<1>1. /\ Running /\ Top.at = "retain" /\ Top.todo = {} /\ Pop
      /\ table' = [table EXCEPT ![Top.kind] = PutBack(@, Top.key, Top.kept)]
      /\ UNCHANGED <<flushing, pendingUpdates>>
  BY DEF EndRetain, Retaining, updates
<1>2. Top \in RetainCalls /\ Top.at \in Rounds
  BY <1>1, TopRetains
<1>3. Shaped' /\ Middle = Top /\ Middle' = Idle
  BY <1>1, <1>2, RoundEnds
<1>4. Top.kind \in Kinds /\ Top.key \in Entities /\ Top.kept \in SUBSET SubIds
  BY <1>2 DEF RetainCalls
<1>. QED  BY <1>1, <1>2, <1>3, <1>4, TableAfterPutBack

-----------------------------------------------------------------------------
(* Which steps change what *)

Adding ==
  /\ \E k \in Kinds, e \in Entities, w \in Watchers : Added(k, e, w)
  /\ UNCHANGED <<status, handles, dropped, notifs, updates, stack, history>>

Cancelling == (\E s \in SubIds : DropSubscription(s)) \/ DropEntity

Aged == \A e \in Entities :
          status'[e] = status[e] \/ (status[e] = "live" /\ status'[e] = "dead")

LEMMA SubscribersAdd ==
  /\ \A e \in Entities : SubscribeOutside(e) => Adding
  /\ \A k \in Kinds, e \in Entities, w \in Watchers : Subscribe(k, e, w) => Adding
<1>1. ASSUME NEW e \in Entities, SubscribeOutside(e)  PROVE Adding
  <2>1. Added("event", e, None) /\ "event" \in Kinds /\ None \in Watchers
    BY <1>1 DEF SubscribeOutside, Kinds, Watchers
  <2>2. UNCHANGED <<status, handles, dropped, notifs, updates, stack, history>>
    BY <1>1 DEF SubscribeOutside
  <2>. QED  BY <2>1, <2>2 DEF Adding
<1>2. ASSUME NEW k \in Kinds, NEW e \in Entities, NEW w \in Watchers, Subscribe(k, e, w)
      PROVE  Adding
  <2>1. Added(k, e, w) /\ UNCHANGED <<status, handles, dropped, notifs, updates, stack, history>>
    BY <1>2 DEF Subscribe
  <2>. QED  BY <2>1 DEF Adding
<1>. QED  BY <1>1, <1>2

LEMMA AddingSteps ==
  ASSUME Next
  PROVE  \/ Adding
         \/ Begin \/ Finish \/ Return
         \/ \E e \in Entities : BeginUpdateEntity(e) \/ DropHandleOutside(e)
         \/ \E e \in Entities : UpdateEntity(e) \/ Notify(e) \/ Emit(e)
         \/ Defer
         \/ \E s \in SubIds : DropSubscription(s) \/ Detach(s)
         \/ \E x \in Owners, e \in Entities : DropHandle(x, e)
         \/ InRound \/ ApplyActivate \/ ApplyDefer \/ EndFlush
BY NextIsEither, SubscribersAdd DEF Quiet

LEMMA SubsMove == Next => UNCHANGED subs \/ Adding
<1>. SUFFICES ASSUME Next, ~Adding  PROVE UNCHANGED subs
  OBVIOUS
<1>. QED
  BY AddingSteps
  DEF InRound, registry, Begin, Finish, Return, BeginUpdateEntity, DropHandleOutside, UpdateEntity, Notify, Emit,
      Defer, DropSubscription, Detach, DropHandle, TakeDropped, Release, RunRelease,
      DropEntity, EndRelease, ApplyNotify, ApplyEmit, ApplyActivate, ApplyDefer, Visit, Visited, EndRetain, EndFlush

LEMMA HeldMoves ==
  Next => UNCHANGED held \/ Adding \/ Cancelling \/ (held' \subseteq held /\ UNCHANGED dropped)
<1>. SUFFICES ASSUME Next, ~Adding, ~Cancelling
              PROVE  UNCHANGED held \/ (held' \subseteq held /\ UNCHANGED dropped)
  OBVIOUS
<1>. QED
  BY AddingSteps
  DEF InRound, registry, Begin, Finish, Return, BeginUpdateEntity, DropHandleOutside, UpdateEntity, Notify, Emit,
      Defer, Cancelling, Detach, DropHandle, TakeDropped, Release, RunRelease,
      EndRelease, ApplyNotify, ApplyEmit, ApplyActivate, ApplyDefer, Visit, Visited, EndRetain, EndFlush

LEMMA TableMoves ==
  Next => \/ UNCHANGED table \/ Adding \/ Cancelling
          \/ (\E e \in Entities : Release(e)) \/ ApplyNotify \/ ApplyEmit \/ EndRetain
<1>. SUFFICES ASSUME Next, ~Adding, ~Cancelling, ~ApplyNotify, ~ApplyEmit, ~EndRetain,
                     ~ \E e \in Entities : Release(e)
              PROVE  UNCHANGED table
  OBVIOUS
<1>. QED
  BY AddingSteps
  DEF InRound, registry, Begin, Finish, Return, BeginUpdateEntity, DropHandleOutside, UpdateEntity, Notify, Emit,
      Defer, Cancelling, Detach, DropHandle, TakeDropped, RunRelease,
      EndRelease, ApplyActivate, ApplyDefer, Visit, Visited, EndFlush

LEMMA QuietTable == Quiet => UNCHANGED table \/ Adding \/ \E s \in SubIds : DropSubscription(s)
<1>. SUFFICES ASSUME Quiet, ~Adding, ~ \E s \in SubIds : DropSubscription(s)
              PROVE  UNCHANGED table
  OBVIOUS
<1>. QED
  BY SubscribersAdd
  DEF Quiet, registry, Begin, Finish, Return, BeginUpdateEntity, DropHandleOutside, UpdateEntity, Notify, Emit,
      Defer, Detach, DropHandle, ApplyActivate, ApplyDefer, EndFlush

LEMMA ActiveMoves == Next => UNCHANGED active \/ Adding \/ ApplyActivate
<1>. SUFFICES ASSUME Next, ~Adding, ~ApplyActivate  PROVE UNCHANGED active
  OBVIOUS
<1>. QED
  BY AddingSteps
  DEF InRound, registry, Begin, Finish, Return, BeginUpdateEntity, DropHandleOutside, UpdateEntity, Notify, Emit,
      Defer, DropSubscription, Detach, DropHandle, TakeDropped, Release, RunRelease,
      DropEntity, EndRelease, ApplyNotify, ApplyEmit, ApplyDefer, Visit, Visited, EndRetain, EndFlush

LEMMA DroppedMoves == Next => UNCHANGED dropped \/ Cancelling
<1>. SUFFICES ASSUME Next, ~Cancelling  PROVE UNCHANGED dropped
  OBVIOUS
<1>. QED
  BY AddingSteps
  DEF InRound, registry, Begin, Finish, Return, BeginUpdateEntity, DropHandleOutside, UpdateEntity, Notify, Emit,
      Defer, Cancelling, Detach, DropHandle, TakeDropped, Release, RunRelease, Adding,
      EndRelease, ApplyNotify, ApplyEmit, ApplyActivate, ApplyDefer, Visit, Visited, EndRetain, EndFlush

LEMMA EffectsMove ==
  Next => \/ UNCHANGED effects \/ Adding \/ Defer
          \/ (\E e \in Entities : Notify(e) \/ Emit(e))
          \/ ApplyNotify \/ ApplyEmit \/ ApplyActivate \/ ApplyDefer
<1>. SUFFICES ASSUME Next, ~Adding, ~Defer, ~ApplyNotify, ~ApplyEmit, ~ApplyActivate, ~ApplyDefer,
                     ~ \E e \in Entities : Notify(e) \/ Emit(e)
              PROVE  UNCHANGED effects
  OBVIOUS
<1>. QED
  BY AddingSteps
  DEF InRound, queue, Begin, Finish, Return, BeginUpdateEntity, DropHandleOutside, UpdateEntity,
      DropSubscription, Detach, DropHandle, TakeDropped, Release, RunRelease,
      DropEntity, EndRelease, Visit, Visited, EndRetain, EndFlush

LEMMA NotifsMove == Next => UNCHANGED notifs \/ (\E e \in Entities : Notify(e)) \/ ApplyNotify
<1>. SUFFICES ASSUME Next, ~ApplyNotify, ~ \E e \in Entities : Notify(e)
              PROVE  UNCHANGED notifs
  OBVIOUS
<1>. QED
  BY AddingSteps
  DEF InRound, queue, Begin, Finish, Return, BeginUpdateEntity, DropHandleOutside, UpdateEntity, Emit, Defer,
      DropSubscription, Detach, DropHandle, TakeDropped, Release, RunRelease, Adding,
      DropEntity, EndRelease, ApplyEmit, ApplyActivate, ApplyDefer, Visit, Visited, EndRetain, EndFlush

LEMMA OwedMoves == Next => UNCHANGED owed \/ (\E e \in Entities : Notify(e)) \/ Visit
<1>. SUFFICES ASSUME Next, ~Visit, ~ \E e \in Entities : Notify(e)
              PROVE  UNCHANGED owed
  OBVIOUS
<1>. QED
  BY AddingSteps
  DEF InRound, history, Begin, Finish, Return, BeginUpdateEntity, DropHandleOutside, UpdateEntity, Emit, Defer,
      DropSubscription, Detach, DropHandle, TakeDropped, Release, RunRelease, Adding,
      DropEntity, EndRelease, ApplyNotify, ApplyEmit, ApplyActivate, ApplyDefer, Visited, EndRetain, EndFlush

LEMMA DueMoves == Next => UNCHANGED due \/ (\E e \in Entities : Emit(e)) \/ Visit
<1>. SUFFICES ASSUME Next, ~Visit, ~ \E e \in Entities : Emit(e)
              PROVE  UNCHANGED due
  OBVIOUS
<1>. QED
  BY AddingSteps
  DEF InRound, history, Begin, Finish, Return, BeginUpdateEntity, DropHandleOutside, UpdateEntity, Notify, Defer,
      DropSubscription, Detach, DropHandle, TakeDropped, Release, RunRelease, Adding,
      DropEntity, EndRelease, ApplyNotify, ApplyEmit, ApplyActivate, ApplyDefer, Visited, EndRetain, EndFlush

LEMMA RanMoves == Next => UNCHANGED ran \/ RunRelease
<1>. SUFFICES ASSUME Next, ~RunRelease  PROVE UNCHANGED ran
  OBVIOUS
<1>. QED
  BY AddingSteps
  DEF InRound, history, Begin, Finish, Return, BeginUpdateEntity, DropHandleOutside, UpdateEntity, Notify, Emit, Defer,
      DropSubscription, Detach, DropHandle, TakeDropped, Release, Visit, Adding,
      DropEntity, EndRelease, ApplyNotify, ApplyEmit, ApplyActivate, ApplyDefer, Visited, EndRetain, EndFlush

LEMMA FuelBurns == Plain /\ Next => fuel' \in 0..MaxOps /\ fuel' <= fuel
<1>. SUFFICES ASSUME Plain, Next  PROVE fuel' \in 0..MaxOps /\ fuel' <= fuel
  OBVIOUS
<1>1. UNCHANGED fuel \/ (fuel > 0 /\ fuel' = fuel - 1)
  <2>1. CASE Quiet
    BY <2>1
    DEF Quiet, Begin, Finish, Return, BeginUpdateEntity, DropHandleOutside, SubscribeOutside, UpdateEntity,
        Notify, Emit, Defer, Subscribe, Operation, DropSubscription, Detach, DropHandle,
        ApplyActivate, ApplyDefer, EndFlush
  <2>2. CASE InRound
    BY <2>2
    DEF InRound, TakeDropped, Release, RunRelease, DropEntity, EndRelease, ApplyNotify, ApplyEmit,
        Visit, Visited, EndRetain
  <2>. QED  BY <2>1, <2>2, NextIsEither
<1>2. fuel \in 0..MaxOps /\ MaxOps \in Nat
  BY BoundsAssumption DEF Plain
<1>. QED  BY <1>1, <1>2

(* Only the last drop of a handle, outside a release, moves a status. *)
LEMMA BuriedIs ==
  ASSUME status \in [Entities -> Statuses], NEW hs, NEW calls, status' = Buried(status, hs, calls)
  PROVE  status' \in [Entities -> Statuses] /\ Aged
BY DEF Buried, Aged, Statuses

LEMMA StatusMoves ==
  ASSUME Plain, Next
  PROVE  (status' \in [Entities -> Statuses] /\ Aged) \/ TakeDropped \/ DropEntity
<1>1. status \in [Entities -> Statuses]
  BY DEF Plain
<1>2. CASE UNCHANGED status
  BY <1>1, <1>2 DEF Aged
<1>3. CASE Finish \/ Return \/ EndFlush
  <2>1. UNCHANGED status \/ status' = Buried(status, handles, stack')
    BY <1>3 DEF Finish, Return, EndFlush
  <2>. QED  BY <1>1, <1>2, <2>1, BuriedIs
<1>4. CASE (\E x \in Owners, e \in Entities : DropHandle(x, e)) \/ (\E e \in Entities : DropHandleOutside(e))
  <2>1. status' = Buried(status, handles', stack)
    BY <1>4 DEF DropHandle, DropHandleOutside
  <2>. QED  BY <1>1, <2>1, BuriedIs
<1>5. ASSUME ~(Finish \/ Return \/ EndFlush), ~TakeDropped, ~DropEntity,
             ~ \E x \in Owners, e \in Entities : DropHandle(x, e),
             ~ \E e \in Entities : DropHandleOutside(e)
      PROVE  UNCHANGED status
  BY <1>5, AddingSteps
  DEF InRound, Begin, BeginUpdateEntity, UpdateEntity, Notify, Emit, Defer,
      DropSubscription, Detach, Release, Visit, Adding, RunRelease,
      EndRelease, ApplyNotify, ApplyEmit, ApplyActivate, ApplyDefer, Visited, EndRetain
<1>. QED  BY <1>2, <1>3, <1>4, <1>5

LEMMA StatusAfterTake ==
  ASSUME Plain, TakeDropped
  PROVE  /\ status' \in [Entities -> Statuses]
         /\ \A e \in Entities : status'[e] = IF status[e] = "dead" THEN "releasing" ELSE status[e]
BY DEF Plain, TakeDropped, Statuses, Dead

LEMMA StatusAfterDrop ==
  ASSUME Plain, Shaped, DropEntity
  PROVE  /\ status' \in [Entities -> Statuses]
         /\ Middle.ent \in Entities /\ status'[Middle.ent] = "gone"
         /\ \A e \in Entities \ {Middle.ent} :
              status'[e] = status[e] \/ (status[e] = "live" /\ status'[e] = "dead")
<1>1. Middle = Top /\ Top.ent \in Entities
  BY DropEntityIs
<1>2. status' = Buried([status EXCEPT ![Top.ent] = "gone"], handles', stack')
  BY DEF DropEntity
<1>3. status \in [Entities -> Statuses]
  BY DEF Plain
<1>4. \A e \in Entities : status'[e] = status[e] \/ e = Top.ent \/ (status[e] = "live" /\ status'[e] = "dead")
  BY <1>1, <1>2, <1>3 DEF Buried
<1>5. status'[Top.ent] = "gone" /\ status' \in [Entities -> Statuses]
  BY <1>1, <1>2, <1>3 DEF Buried, Statuses
<1>. QED  BY <1>1, <1>4, <1>5

(* A new subscription. *)
LEMMA AddedIs ==
  ASSUME Plain, NEW k \in Kinds, NEW e \in Entities, NEW w \in Watchers, Added(k, e, w)
  PROVE  LET n == Len(subs) + 1 IN
           /\ n \in SubIds /\ n \notin DOMAIN subs /\ status[e] = "live"
           /\ subs' \in Seq(Subs) /\ Len(subs') <= MaxSubs
           /\ DOMAIN subs' = DOMAIN subs \cup {n}
           /\ subs'[n] = [kind |-> k, key |-> e, watcher |-> w]
           /\ \A s \in DOMAIN subs : subs'[s] = subs[s]
           /\ Placing(k, e, "present", table[k].subs[e] \cup {n})
           /\ held' = held \cup {n}
           /\ \/ k = "release" /\ active' = active \cup {n} /\ UNCHANGED effects
              \/ k # "release" /\ UNCHANGED active /\ effects' = Append(effects, ActivateOf(n))
<1>. DEFINE n == Len(subs) + 1
            r == [kind |-> k, key |-> e, watcher |-> w]
<1>1. /\ subs \in Seq(Subs) /\ Len(subs) < MaxSubs /\ Len(subs) \in Nat
      /\ n \in SubIds /\ n \notin DOMAIN subs
  BY SubsAre DEF Plain, Added
<1>2. r \in Subs
  BY DEF Subs
<1>. HIDE DEF r
<1>3. subs' = Append(subs, r)
  BY DEF Added, r
<1>4. /\ subs' \in Seq(Subs) /\ DOMAIN subs' = DOMAIN subs \cup {n} /\ subs'[n] = r
      /\ Len(subs') = n /\ \A s \in DOMAIN subs : subs'[s] = subs[s]
  BY <1>1, <1>2, <1>3
<1>5. n <= MaxSubs
  BY <1>1, BoundsAssumption
<1>. HIDE DEF n
<1>6. table' = [table EXCEPT ![k] = Inserted(@, e, n)]
  BY DEF Added, n
<1>7. Placing(k, e, "present", table[k].subs[e] \cup {n})
  BY <1>1, <1>6, TableAfterInsert
<1>8. /\ status[e] = "live" /\ held' = held \cup {n}
      /\ \/ k = "release" /\ active' = active \cup {n} /\ UNCHANGED effects
         \/ k # "release" /\ UNCHANGED active /\ effects' = Append(effects, ActivateOf(n))
  BY DEF Added, n, ActivateOf
<1>9. Len(subs') <= MaxSubs
  BY <1>4, <1>5
<1>. QED  BY <1>1, <1>4, <1>7, <1>8, <1>9 DEF n, r

LEMMA CancellingIs ==
  ASSUME Plain, Shaped, Cancelling
  PROVE  \E S \in SUBSET held : /\ dropped' = dropped \cup S /\ held' = held \ S /\ table' = Cancelled(S)
                                /\ UNCHANGED <<subs, active, effects, notifs>>
<1>1. CASE \E s \in SubIds : DropSubscription(s)
  <2>1. PICK s \in SubIds : DropSubscription(s)
    BY <1>1
  <2>2. /\ {s} \in SUBSET held /\ dropped' = dropped \cup {s} /\ held' = held \ {s}
        /\ table' = Cancelled({s}) /\ UNCHANGED <<subs, active, effects, notifs>>
    BY <2>1 DEF DropSubscription, queue
  <2>. QED  BY <2>2
<1>2. CASE DropEntity
  <2>. DEFINE S == {s \in held : subs[s].watcher = Top.ent}
  <2>1. /\ S \in SUBSET held /\ dropped' = dropped \cup S /\ held' = held \ S
        /\ table' = Cancelled(S) /\ UNCHANGED <<subs, active, effects, notifs>>
    BY <1>2 DEF DropEntity, queue
  <2>. QED  BY <2>1
<1>. QED  BY <1>1, <1>2 DEF Cancelling

-----------------------------------------------------------------------------
(* Plain stays *)

LEMMA HandlesStay ==
  ASSUME Plain, Shaped, Next
  PROVE  /\ status' \in [Entities -> Statuses]
         /\ handles' \in [Owners -> SUBSET Entities]
         /\ \A e \in Entities : status'[e] = "gone" => handles'[e] = {}
<1>1. /\ status \in [Entities -> Statuses] /\ handles \in [Owners -> SUBSET Entities]
      /\ \A e \in Entities : status[e] = "gone" => handles[e] = {}
      /\ Entities \subseteq Owners
  BY DEF Plain, Owners
<1>2. CASE DropEntity
  <2>. DEFINE d == Top.ent
  <2>1. Middle = Top /\ d \in Entities
    BY <1>2, DropEntityIs
  <2>2. handles' = [handles EXCEPT ![d] = {}]
    BY <1>2 DEF DropEntity
  <2>3. /\ status' \in [Entities -> Statuses] /\ \A e \in Entities \ {d} : status'[e] = "gone" => status[e] = "gone"
    BY <1>2, <2>1, StatusAfterDrop
  <2>. HIDE DEF d
  <2>4. /\ handles' \in [Owners -> SUBSET Entities] /\ handles'[d] = {}
        /\ \A e \in Entities \ {d} : handles'[e] = handles[e]
    BY <1>1, <2>1, <2>2
  <2>. QED  BY <1>1, <2>3, <2>4
<1>3. CASE ~DropEntity
  <2>1. /\ status' \in [Entities -> Statuses]
        /\ \A e \in Entities : status'[e] = "gone" => status[e] = "gone"
    BY <1>1, <1>3, StatusMoves, StatusAfterTake DEF Aged
  <2>2. /\ handles' \in [Owners -> SUBSET Entities]
        /\ \A x \in Owners : handles'[x] \subseteq handles[x]
    <3>1. CASE UNCHANGED handles
      BY <1>1, <3>1
    <3>2. ASSUME NEW x \in Owners, NEW e \in Entities, DropHandle(x, e)
          PROVE  /\ handles' \in [Owners -> SUBSET Entities]
                 /\ \A y \in Owners : handles'[y] \subseteq handles[y]
      <4>1. handles' = [handles EXCEPT ![x] = @ \ {e}]
        BY <3>2 DEF DropHandle
      <4>. QED  BY <1>1, <4>1
    <3>3. ASSUME NEW e \in Entities, DropHandleOutside(e)
          PROVE  /\ handles' \in [Owners -> SUBSET Entities]
                 /\ \A y \in Owners : handles'[y] \subseteq handles[y]
      <4>1. handles' = [handles EXCEPT ![App] = @ \ {e}]
        BY <3>3 DEF DropHandleOutside
      <4>. QED  BY <1>1, <4>1
    <3>4. ASSUME ~ \E x \in Owners, e \in Entities : DropHandle(x, e),
                 ~ \E e \in Entities : DropHandleOutside(e)
          PROVE  UNCHANGED handles
      BY <1>3, <3>4, AddingSteps
      DEF InRound, Begin, Finish, Return, BeginUpdateEntity, UpdateEntity, Notify, Emit, Defer,
          DropSubscription, Detach, TakeDropped, Release, RunRelease, Adding,
          EndRelease, ApplyNotify, ApplyEmit, ApplyActivate, ApplyDefer, Visit, Visited, EndRetain, EndFlush
    <3>. QED  BY <3>1, <3>2, <3>3, <3>4
  <2>. QED  BY <1>1, <2>1, <2>2
<1>. QED  BY <1>2, <1>3

(* The subscriptions there were keep their kind, emitter and watcher. *)
LEMMA SubsGrow ==
  ASSUME Plain, Next
  PROVE  /\ subs' \in Seq(Subs) /\ Len(subs') <= MaxSubs
         /\ DOMAIN subs \subseteq DOMAIN subs'
         /\ \A s \in DOMAIN subs : subs'[s] = subs[s]
<1>1. CASE UNCHANGED subs
  BY <1>1 DEF Plain
<1>2. CASE Adding
  BY <1>2, AddedIs DEF Adding
<1>. QED  BY <1>1, <1>2, SubsMove

LEMMA TableIsTyped ==
  ASSUME Plain, Shaped, Next
  PROVE  table' \in [Kinds -> Tables]
<1>1. CASE UNCHANGED table
  BY <1>1 DEF Plain
<1>2. CASE Adding
  BY <1>2, AddedIs DEF Adding, Placing
<1>3. CASE Cancelling
  BY <1>3, CancellingIs, TableAfterCancel
<1>4. ASSUME NEW e \in Entities, Release(e)  PROVE table' \in [Kinds -> Tables]
  BY <1>4, TableAfterRemove DEF Release
<1>5. CASE ApplyNotify
  BY <1>1, <1>5, ApplyNotifyIs DEF Retained, Placing
<1>6. CASE ApplyEmit
  BY <1>1, <1>6, ApplyEmitIs DEF Retained, Placing
<1>7. CASE EndRetain
  BY <1>7, EndRetainIs DEF Placing
<1>. QED  BY <1>1, <1>2, <1>3, <1>4, <1>5, <1>6, <1>7, TableMoves

LEMMA FlagsAreTyped ==
  ASSUME Plain, Shaped, Filed, Released, Next
  PROVE  /\ active' \cup dropped' \cup held' \cup owed' \cup ran' \subseteq DOMAIN subs'
         /\ held' \cap dropped' = {}
<1>1. /\ active \cup dropped \cup held \cup owed \cup ran \subseteq DOMAIN subs
      /\ held \cap dropped = {}
  BY DEF Plain
<1>2. DOMAIN subs \subseteq DOMAIN subs'
  BY SubsGrow
<1>3. active' \subseteq DOMAIN subs'
  <2>1. CASE Adding
    BY <1>1, <2>1, AddedIs DEF Adding
  <2>2. CASE ApplyActivate
    <3>1. active' = active \cup {effects[1].sub} /\ 1 \in DOMAIN effects /\ effects[1].kind = "activate"
      BY <2>2, HeadIs DEF ApplyActivate
    <3>2. effects[1].sub \in DOMAIN subs
      BY <3>1 DEF Plain
    <3>. QED  BY <1>1, <1>2, <3>1, <3>2
  <2>. QED  BY <1>1, <1>2, <2>1, <2>2, ActiveMoves
<1>4. held' \cup dropped' \subseteq DOMAIN subs' /\ held' \cap dropped' = {}
  <2>1. CASE Adding
    <3>1. UNCHANGED dropped /\ \E n : n \notin DOMAIN subs /\ held' = held \cup {n} /\ n \in DOMAIN subs'
      BY <2>1, AddedIs DEF Adding
    <3>. QED  BY <1>1, <1>2, <3>1
  <2>2. CASE Cancelling
    <3>1. PICK S \in SUBSET held : dropped' = dropped \cup S /\ held' = held \ S
      BY <2>2, CancellingIs
    <3>. QED  BY <1>1, <1>2, <3>1
  <2>3. CASE ~Adding /\ ~Cancelling
    BY <1>1, <1>2, <2>3, HeldMoves, DroppedMoves
  <2>. QED  BY <2>1, <2>2, <2>3
<1>5. owed' \subseteq DOMAIN subs'
  <2>1. ASSUME NEW e \in Entities, Notify(e)  PROVE owed' \subseteq DOMAIN subs
    BY <1>1, <2>1 DEF Notify, Registered
  <2>2. CASE Visit
    <3>1. PICK s : UNCHANGED owed \/ owed' = owed \ {s}
      BY <2>2, VisitIs
    <3>. QED  BY <1>1, <1>2, <3>1
  <2>. QED  BY <1>1, <1>2, <2>1, <2>2, OwedMoves
<1>6. ran' \subseteq DOMAIN subs'
  <2>1. CASE RunRelease
    BY <1>1, <1>2, <2>1, RunReleaseIs
  <2>. QED  BY <1>1, <1>2, <2>1, RanMoves
<1>. QED  BY <1>3, <1>4, <1>5, <1>6

(* The queue: an effect is put at its end, or taken off its head. *)
LEMMA AppendedIs ==
  ASSUME Plain, NEW f \in Effects, effects' = Append(effects, f)
  PROVE  /\ effects' \in Seq(Effects)
         /\ Len(effects) \in Nat /\ DOMAIN effects = 1..Len(effects)
         /\ Len(effects) + 1 \notin DOMAIN effects
         /\ DOMAIN effects' = DOMAIN effects \cup {Len(effects) + 1}
         /\ effects'[Len(effects) + 1] = f
         /\ \A i \in DOMAIN effects : effects'[i] = effects[i]
BY DEF Plain

LEMMA ActivateIsEffect ==
  ASSUME NEW s \in SubIds
  PROVE  ActivateOf(s) \in Effects /\ ActivateOf(s).kind = "activate" /\ ActivateOf(s).sub = s
BY DEF ActivateOf, Effects

LEMMA NotifyIsEffect ==
  ASSUME NEW e \in Entities
  PROVE  NotifyOf(e) \in Effects /\ NotifyOf(e).kind = "notify" /\ NotifyOf(e).ent = e
BY DEF NotifyOf, Effects

EventOf(e, n) == [kind |-> "event", ent |-> e, ev |-> n]

LEMMA EmitIs ==
  ASSUME Plain, NEW e \in Entities, Emit(e)
  PROVE  /\ fuel \in 1..MaxOps /\ fuel' = fuel - 1
         /\ EventOf(e, fuel) \in Effects /\ EventOf(e, fuel).kind = "event"
         /\ EventOf(e, fuel).ent = e /\ EventOf(e, fuel).ev = fuel
         /\ effects' = Append(effects, EventOf(e, fuel))
         /\ due' = [s \in SubIds |-> IF s \in Registered("event", e) THEN Append(due[s], fuel) ELSE due[s]]
<1>1. fuel \in 1..MaxOps /\ fuel' = fuel - 1
  BY BoundsAssumption DEF Plain, Emit, Operation
<1>2. EventOf(e, fuel) \in Effects
  BY <1>1 DEF EventOf, Effects
<1>. QED  BY <1>1, <1>2 DEF Emit, EventOf, Serial

(* What is new in the queue, after a step. *)
LEMMA QueueMoves ==
  ASSUME Plain, Shaped, Next
  PROVE  \/ UNCHANGED effects
         \/ /\ \E kind : Next1(kind)
            /\ ApplyNotify \/ ApplyEmit \/ ApplyActivate \/ ApplyDefer
         \/ \E f \in Effects :
              /\ effects' = Append(effects, f)
              /\ \/ Adding /\ f = ActivateOf(Len(subs) + 1) /\ Len(subs) + 1 \in DOMAIN subs' \cap SubIds
                 \/ Defer /\ f.kind = "defer"
                 \/ \E e \in Entities : Notify(e) /\ e \notin notifs /\ f = NotifyOf(e)
                 \/ \E e \in Entities : Emit(e) /\ f = EventOf(e, fuel) /\ f.kind = "event"
<1>1. CASE Adding
  <2>1. \/ UNCHANGED effects
        \/ /\ effects' = Append(effects, ActivateOf(Len(subs) + 1))
           /\ Len(subs) + 1 \in DOMAIN subs' \cap SubIds
    BY <1>1, AddedIs DEF Adding
  <2>2. Len(subs) + 1 \in SubIds => ActivateOf(Len(subs) + 1) \in Effects
    BY ActivateIsEffect
  <2>. QED  BY <1>1, <2>1, <2>2
<1>2. CASE Defer
  <2>. DEFINE f == [kind |-> "defer"]
  <2>1. f \in Effects /\ effects' = Append(effects, f) /\ f.kind = "defer"
    BY <1>2 DEF Defer, Effects
  <2>. QED  BY <1>2, <2>1
<1>3. ASSUME NEW e \in Entities, Notify(e)
      PROVE  \/ UNCHANGED effects
             \/ effects' = Append(effects, NotifyOf(e)) /\ NotifyOf(e) \in Effects /\ e \notin notifs
  BY <1>3, NotifyIsEffect DEF Notify, queue, NotifyOf
<1>4. ASSUME NEW e \in Entities, Emit(e)
      PROVE  /\ effects' = Append(effects, EventOf(e, fuel)) /\ EventOf(e, fuel) \in Effects
             /\ EventOf(e, fuel).kind = "event"
  BY <1>4, EmitIs
<1>5. CASE ApplyNotify \/ ApplyEmit \/ ApplyActivate \/ ApplyDefer
  BY <1>5 DEF ApplyNotify, ApplyEmit, ApplyActivate, ApplyDefer
<1>. QED  BY <1>1, <1>2, <1>3, <1>4, <1>5, EffectsMove

LEMMA QueueIsTyped ==
  ASSUME Plain, Shaped, Next
  PROVE  /\ effects' \in Seq(Effects) /\ notifs' \subseteq Entities
         /\ \A i \in DOMAIN effects' : effects'[i].kind = "activate" => effects'[i].sub \in DOMAIN subs'
<1>1. /\ effects \in Seq(Effects) /\ notifs \subseteq Entities
      /\ \A i \in DOMAIN effects : effects[i].kind = "activate" => effects[i].sub \in DOMAIN subs
  BY DEF Plain
<1>2. DOMAIN subs \subseteq DOMAIN subs'
  BY SubsGrow
<1>3. notifs' \subseteq Entities
  <2>1. ASSUME NEW e \in Entities, Notify(e)  PROVE notifs' \subseteq Entities
    BY <1>1, <2>1 DEF Notify, queue
  <2>2. CASE ApplyNotify
    BY <1>1, <2>2 DEF ApplyNotify
  <2>. QED  BY <1>1, <2>1, <2>2, NotifsMove
<1>4. effects' \in Seq(Effects)
      /\ \A i \in DOMAIN effects' : effects'[i].kind = "activate" => effects'[i].sub \in DOMAIN subs'
  <2>1. CASE UNCHANGED effects
    BY <1>1, <1>2, <2>1
  <2>2. ASSUME NEW kind, Next1(kind)
        PROVE  effects' \in Seq(Effects)
               /\ \A i \in DOMAIN effects' : effects'[i].kind = "activate" => effects'[i].sub \in DOMAIN subs'
    <3>1. effects # <<>> /\ effects' = Tail(effects)
      BY <2>2, HeadIs
    <3>2. effects' \in Seq(Effects)
      BY <1>1, <3>1
    <3>. QED  BY <1>1, <1>2, <2>2, <3>2, HeadIs
  <2>3. ASSUME NEW f \in Effects, effects' = Append(effects, f),
               f.kind = "activate" => f.sub \in DOMAIN subs'
        PROVE  effects' \in Seq(Effects)
               /\ \A i \in DOMAIN effects' : effects'[i].kind = "activate" => effects'[i].sub \in DOMAIN subs'
    BY <1>1, <1>2, <2>3, AppendedIs
  <2>4. \A e \in Entities : NotifyOf(e).kind = "notify"
    BY NotifyIsEffect
  <2>5. \A s \in SubIds : ActivateOf(s).sub = s
    BY ActivateIsEffect
  <2>. QED  BY <2>1, <2>2, <2>3, <2>4, <2>5, QueueMoves
<1>. QED  BY <1>3, <1>4

LEMMA DueIsTyped ==
  ASSUME Plain, Shaped, Filed, Next
  PROVE  due' \in [SubIds -> Seq(1..MaxOps)]
<1>1. due \in [SubIds -> Seq(1..MaxOps)]
  BY DEF Plain
<1>2. ASSUME NEW e \in Entities, Emit(e)  PROVE due' \in [SubIds -> Seq(1..MaxOps)]
  <2>1. fuel \in 1..MaxOps
        /\ due' = [s \in SubIds |-> IF s \in Registered("event", e) THEN Append(due[s], fuel) ELSE due[s]]
    BY <1>2, EmitIs
  <2>2. \A s \in SubIds : Append(due[s], fuel) \in Seq(1..MaxOps)
    BY <1>1, <2>1
  <2>. QED  BY <1>1, <2>1, <2>2
<1>3. CASE Visit
  <2>1. PICK s : UNCHANGED due \/ due' = [due EXCEPT ![s] = IF @ = <<>> THEN @ ELSE Tail(@)]
    BY <1>3, VisitIs
  <2>2. \A r \in SubIds : due[r] # <<>> => Tail(due[r]) \in Seq(1..MaxOps)
    BY <1>1
  <2>. QED  BY <1>1, <2>1, <2>2
<1>. QED  BY <1>1, <1>2, <1>3, DueMoves

LEMMA PlainStays ==
  ASSUME Plain, Shaped, Filed, Released, Next, flushing' \in BOOLEAN
  PROVE  Plain'
<1>1. late' \subseteq Entities
  <2>1. CASE UNCHANGED late
    BY <2>1 DEF Plain
  <2>2. CASE late' = late \cup NewlyDead
    BY <2>2 DEF Plain, NewlyDead
  <2>3. CASE Quiet
    BY <2>1, <2>2, <2>3
    DEF Quiet, history, Begin, Finish, Return, BeginUpdateEntity, DropHandleOutside, SubscribeOutside, UpdateEntity,
        Notify, Emit, Defer, Subscribe, DropSubscription, Detach, DropHandle,
        ApplyActivate, ApplyDefer, EndFlush
  <2>4. CASE InRound
    BY <2>1, <2>4
    DEF InRound, history, TakeDropped, Release, RunRelease, DropEntity, EndRelease, ApplyNotify, ApplyEmit,
        Visit, Visited, EndRetain
  <2>. QED  BY <2>3, <2>4, NextIsEither
<1>2. fuel' \in 0..MaxOps
  BY FuelBurns
<1>3. /\ status' \in [Entities -> Statuses]
      /\ handles' \in [Owners -> SUBSET Entities]
      /\ \A e \in Entities : status'[e] = "gone" => handles'[e] = {}
  BY HandlesStay
<1>4. subs' \in Seq(Subs) /\ Len(subs') <= MaxSubs
  BY SubsGrow
<1>5. table' \in [Kinds -> Tables]
  BY TableIsTyped
<1>6. /\ active' \cup dropped' \cup held' \cup owed' \cup ran' \subseteq DOMAIN subs'
      /\ held' \cap dropped' = {}
  BY FlagsAreTyped
<1>7. /\ effects' \in Seq(Effects) /\ notifs' \subseteq Entities
      /\ \A i \in DOMAIN effects' : effects'[i].kind = "activate" => effects'[i].sub \in DOMAIN subs'
  BY QueueIsTyped
<1>8. due' \in [SubIds -> Seq(1..MaxOps)]
  BY DueIsTyped
<1>. QED  BY <1>1, <1>2, <1>3, <1>4, <1>5, <1>6, <1>7, <1>8 DEF Plain

LEMMA ShapedStays ==
  ASSUME Plain, Shaped, Filed, Released, Next
  PROVE  Shaped'
<1>1. CASE Quiet
  BY <1>1, QuietStays
<1>2. CASE InRound
  BY <1>2, TakeDroppedIs, ReleaseIs, RunReleaseIs, DropEntityIs, EndReleaseIs, ApplyNotifyIs,
     ApplyEmitIs, VisitIs, VisitedIs, EndRetainIs DEF InRound
<1>. QED  BY <1>1, <1>2, NextIsEither

-----------------------------------------------------------------------------
(* Filed stays *)

LEMMA RegisteredGrow ==
  ASSUME Plain, Next, NEW k, NEW e
  PROVE  Registered(k, e) \subseteq Registered(k, e)'
BY SubsGrow DEF Registered

(* A table set at one key with subscribers of that key stays filed. *)
LEMMA FiledAfterPlacing ==
  ASSUME Plain, Filed, Next, NEW kind \in Kinds, NEW d \in Entities, NEW entry, NEW S,
         Placing(kind, d, entry, S), S \subseteq Registered(kind, d)', entry = "present" <=> S # {}
  PROVE  \A k \in Kinds, e \in Entities :
           /\ table'[k].subs[e] \subseteq Registered(k, e)'
           /\ table'[k].entry[e] = "present" <=> table'[k].subs[e] # {}
<1>. TAKE k \in Kinds, e \in Entities
<1>1. CASE k = kind /\ e = d
  BY <1>1 DEF Placing
<1>2. CASE k # kind \/ e # d
  <2>1. table'[k].entry[e] = table[k].entry[e] /\ table'[k].subs[e] = table[k].subs[e]
    BY <1>2 DEF Placing
  <2>. QED  BY <2>1, RegisteredGrow DEF Filed, Present
<1>. QED  BY <1>1, <1>2

LEMMA TableFiled ==
  ASSUME Plain, Shaped, Filed, Next
  PROVE  \A k \in Kinds, e \in Entities :
           /\ table'[k].subs[e] \subseteq Registered(k, e)'
           /\ table'[k].entry[e] = "present" <=> table'[k].subs[e] # {}
<1>. DEFINE Goal == \A k \in Kinds, e \in Entities :
                      /\ table'[k].subs[e] \subseteq Registered(k, e)'
                      /\ table'[k].entry[e] = "present" <=> table'[k].subs[e] # {}
<1>. SUFFICES Goal
  OBVIOUS
<1>0. \A k \in Kinds, e \in Entities :
        /\ table[k].subs[e] \subseteq Registered(k, e)
        /\ Registered(k, e) \subseteq Registered(k, e)'
        /\ table[k].entry[e] = "present" <=> table[k].subs[e] # {}
  BY RegisteredGrow DEF Filed, Present
<1>1. CASE UNCHANGED table
  BY <1>0, <1>1
<1>2. CASE Adding
  <2>. DEFINE n == Len(subs) + 1
  <2>0. PICK k \in Kinds, e \in Entities, w \in Watchers : Added(k, e, w)
    BY <1>2 DEF Adding
  <2>1. /\ Placing(k, e, "present", table[k].subs[e] \cup {n})
        /\ n \in DOMAIN subs' /\ subs'[n].kind = k /\ subs'[n].key = e
    <3>1. /\ Placing(k, e, "present", table[k].subs[e] \cup {n})
          /\ DOMAIN subs' = DOMAIN subs \cup {n}
          /\ subs'[n] = [kind |-> k, key |-> e, watcher |-> w]
      BY <2>0, AddedIs
    <3>. HIDE DEF n
    <3>. QED  BY <3>1
  <2>2. table[k].subs[e] \cup {n} \subseteq Registered(k, e)'
    BY <1>0, <2>1 DEF Registered
  <2>3. table[k].subs[e] \cup {n} # {}
    OBVIOUS
  <2>. DEFINE S == table[k].subs[e] \cup {n}
  <2>. HIDE DEF S, Goal
  <2>4. Placing(k, e, "present", S) /\ S \subseteq Registered(k, e)' /\ S # {}
    BY <2>1, <2>2, <2>3 DEF S
  <2>. QED  BY <2>4, FiledAfterPlacing DEF Goal
<1>3. CASE Cancelling
  <2>1. PICK S \in SUBSET held : table' = Cancelled(S)
    BY <1>3, CancellingIs
  <2>2. \A k \in Kinds, e \in Entities :
          /\ table'[k].subs[e] = table[k].subs[e] \ S
          /\ table'[k].entry[e] = IF table[k].entry[e] = "present" /\ table[k].subs[e] \ S = {}
                                  THEN "absent" ELSE table[k].entry[e]
    BY <2>1, TableAfterCancel
  <2>3. ASSUME NEW k \in Kinds, NEW e \in Entities
        PROVE  /\ table'[k].subs[e] \subseteq Registered(k, e)'
               /\ table'[k].entry[e] = "present" <=> table'[k].subs[e] # {}
    <3>1. CASE table[k].entry[e] = "present" /\ table[k].subs[e] \ S = {}
      BY <2>2, <3>1
    <3>2. CASE ~(table[k].entry[e] = "present" /\ table[k].subs[e] \ S = {})
      <4>1. table'[k].entry[e] = table[k].entry[e] /\ table'[k].subs[e] = table[k].subs[e] \ S
        BY <2>2, <3>2
      <4>. QED  BY <1>0, <3>2, <4>1
    <3>. QED  BY <3>1, <3>2
  <2>. QED  BY <2>3
<1>4. ASSUME NEW d \in Entities, Release(d)  PROVE Goal
  <2>1. \A k \in Kinds : /\ table'[k].entry[d] = "absent" /\ table'[k].subs[d] = {}
                         /\ \A e \in Entities \ {d} : /\ table'[k].entry[e] = table[k].entry[e]
                                                      /\ table'[k].subs[e] = table[k].subs[e]
    BY <1>4, TableAfterRemove DEF Release
  <2>2. ASSUME NEW k \in Kinds, NEW e \in Entities
        PROVE  /\ table'[k].subs[e] \subseteq Registered(k, e)'
               /\ table'[k].entry[e] = "present" <=> table'[k].subs[e] # {}
    <3>1. CASE e = d
      BY <2>1, <3>1
    <3>2. CASE e # d
      BY <1>0, <2>1, <3>2
    <3>. QED  BY <3>1, <3>2
  <2>. QED  BY <2>2
<1>5. ASSUME NEW kind \in Kinds, NEW d \in Entities, NEW ev, Retained(kind, d, ev)  PROVE Goal
  <2>1. CASE UNCHANGED table
    BY <1>1, <2>1
  <2>2. CASE Placing(kind, d, "taken", {})
    <3>. HIDE DEF Goal
    <3>. QED  BY <2>2, FiledAfterPlacing DEF Goal
  <2>. QED  BY <1>5, <2>1, <2>2 DEF Retained
<1>6. CASE ApplyNotify
  BY <1>5, <1>6, ApplyNotifyIs DEF Kinds
<1>7. CASE ApplyEmit
  BY <1>5, <1>7, ApplyEmitIs DEF Kinds
<1>8. CASE EndRetain
  <2>0. PICK kind \in Kinds, d \in Entities, kept \in {Middle.kept} :
          /\ kind = Middle.kind /\ d = Middle.key /\ kept = Middle.kept /\ Middle.at = "retain"
          /\ LET S == kept \cup table[kind].subs[d] IN
               Placing(kind, d, IF S = {} THEN "absent" ELSE "present", S)
    BY <1>8, EndRetainIs DEF RetainCalls
  <2>. DEFINE S == kept \cup table[kind].subs[d]
  <2>1. Placing(kind, d, IF S = {} THEN "absent" ELSE "present", S)
    BY <2>0
  <2>2. S \subseteq Registered(kind, d)'
    <3>1. kept \subseteq Registered(kind, d)
      BY <2>0 DEF Filed
    <3>2. table[kind].subs[d] \subseteq Registered(kind, d) /\ Registered(kind, d) \subseteq Registered(kind, d)'
      BY <1>0
    <3>. QED  BY <3>1, <3>2
  <2>3. CASE S = {}
    <3>1. Placing(kind, d, "absent", S)
      BY <2>1, <2>3
    <3>. HIDE DEF Goal, S
    <3>. QED  BY <2>2, <2>3, <3>1, FiledAfterPlacing DEF Goal
  <2>4. CASE S # {}
    <3>1. Placing(kind, d, "present", S)
      BY <2>1, <2>4
    <3>. HIDE DEF Goal, S
    <3>. QED  BY <2>2, <2>4, <3>1, FiledAfterPlacing DEF Goal
  <2>. QED  BY <2>3, <2>4
<1>9. Goal
  BY <1>1, <1>2, <1>3, <1>4, <1>6, <1>7, <1>8, TableMoves
<1>. QED  BY <1>9

(* With no retain in progress, no key is taken. *)
LEMMA NoneTaken ==
  ASSUME Filed, Middle.at # "retain"
  PROVE  \A k \in Kinds, e \in Entities : table[k].entry[e] # "taken"
BY DEF Filed

LEMMA TakenStays ==
  ASSUME Plain, Shaped, Filed, Released, Next
  PROVE  \A k \in Kinds, e \in Entities :
           table'[k].entry[e] = "taken" =>
             Middle'.at = "retain" /\ Middle'.kind = k /\ Middle'.key = e
<1>. DEFINE Goal == \A k \in Kinds, e \in Entities :
                      table'[k].entry[e] = "taken" =>
                        Middle'.at = "retain" /\ Middle'.kind = k /\ Middle'.key = e
<1>. SUFFICES Goal
  OBVIOUS
<1>1. ASSUME \A k \in Kinds, e \in Entities : table'[k].entry[e] = "taken" => table[k].entry[e] = "taken",
             \/ Middle' = Middle
             \/ Middle.at # "retain"
             \/ Middle'.at = "retain" /\ Middle'.kind = Middle.kind /\ Middle'.key = Middle.key
      PROVE  Goal
  BY <1>1 DEF Filed
<1>. HIDE DEF Goal
<1>2. CASE Cancelling
  <2>1. PICK S \in SUBSET held : table' = Cancelled(S)
    BY <1>2, CancellingIs
  <2>2. \A k \in Kinds, e \in Entities :
          table'[k].entry[e] = IF table[k].entry[e] = "present" /\ table[k].subs[e] \ S = {}
                               THEN "absent" ELSE table[k].entry[e]
    BY <2>1, TableAfterCancel
  <2>3. \A k \in Kinds, e \in Entities : table'[k].entry[e] = "taken" => table[k].entry[e] = "taken"
    BY <2>2
  <2>4. CASE DropEntity
    <3>1. Middle.at # "retain"
      BY <2>4, DropEntityIs DEF ReleaseCalls
    <3>. QED  BY <1>1, <2>3, <3>1
  <2>5. CASE \E s \in SubIds : DropSubscription(s)
    <3>1. Middle' = Middle
      BY <2>5, QuietStays DEF Quiet
    <3>. QED  BY <1>1, <2>3, <3>1
  <2>. QED  BY <1>2, <2>4, <2>5 DEF Cancelling
<1>3. CASE Quiet /\ ~Cancelling
  <2>1. \A k \in Kinds, e \in Entities : table'[k].entry[e] = "taken" => table[k].entry[e] = "taken"
    <3>1. CASE UNCHANGED table
      BY <3>1
    <3>2. CASE Adding
      <4>1. PICK k \in Kinds, e \in Entities, w \in Watchers : Added(k, e, w)
        BY <3>2 DEF Adding
      <4>2. Placing(k, e, "present", table[k].subs[e] \cup {Len(subs) + 1})
        BY <4>1, AddedIs
      <4>. QED  BY <4>2 DEF Placing
    <3>. QED  BY <1>3, <3>1, <3>2, QuietTable DEF Cancelling
  <2>2. Middle' = Middle
    BY <1>3, QuietStays
  <2>. QED  BY <1>1, <2>1, <2>2
<1>4. CASE TakeDropped
  <2>1. UNCHANGED table /\ Middle.at # "retain"
    BY <1>4, TakeDroppedIs DEF TakeDropped, registry, Idle
  <2>. QED  BY <1>1, <2>1
<1>5. ASSUME NEW d \in Entities, Release(d)  PROVE Goal
  <2>1. \A k \in Kinds : /\ table'[k].entry[d] = "absent"
                         /\ \A e \in Entities \ {d} : table'[k].entry[e] = table[k].entry[e]
    BY <1>5, TableAfterRemove DEF Release
  <2>2. \A k \in Kinds, e \in Entities : table'[k].entry[e] = "taken" => table[k].entry[e] = "taken"
    BY <2>1
  <2>3. Middle.at # "retain"
    BY <1>5, ReleaseIs DEF ReleaseCalls
  <2>. QED  BY <1>1, <2>2, <2>3
<1>6. CASE RunRelease \/ EndRelease
  <2>1. UNCHANGED table /\ Middle.at # "retain"
    BY <1>6, RunReleaseIs, EndReleaseIs DEF RunRelease, EndRelease, registry, ReleaseCalls
  <2>. QED  BY <1>1, <2>1
<1>7. ASSUME NEW kind \in Kinds, NEW d \in Entities, NEW ev, Retained(kind, d, ev), Middle = Idle
      PROVE  Goal
  <2>1. CASE UNCHANGED table
    BY <1>1, <1>7, <2>1 DEF Idle
  <2>2. CASE Placing(kind, d, "taken", {}) /\ Middle'.at = "retain" /\ Middle'.kind = kind /\ Middle'.key = d
    <3>1. \A k \in Kinds, e \in Entities : table[k].entry[e] # "taken"
      BY <1>7, NoneTaken DEF Idle
    <3>. QED  BY <2>2, <3>1 DEF Goal, Placing
  <2>. QED  BY <1>7, <2>1, <2>2 DEF Retained
<1>8. CASE ApplyNotify
  BY <1>7, <1>8, ApplyNotifyIs DEF Kinds
<1>9. CASE ApplyEmit
  BY <1>7, <1>9, ApplyEmitIs DEF Kinds
<1>10. CASE Visit \/ Visited
  <2>1. UNCHANGED table
    BY <1>10 DEF Visit, Visited, registry
  <2>2. Middle'.at = "retain" /\ Middle'.kind = Middle.kind /\ Middle'.key = Middle.key
    BY <1>10, VisitIs, VisitedIs DEF RetainCalls
  <2>. QED  BY <1>1, <2>1, <2>2
<1>11. CASE EndRetain
  <2>1. PICK entry, S : /\ entry \in {"absent", "present"}
                        /\ Middle.kind \in Kinds /\ Middle.key \in Entities
                        /\ Middle.at = "retain"
                        /\ Placing(Middle.kind, Middle.key, entry, S)
    BY <1>11, EndRetainIs DEF RetainCalls
  <2>2. \A k \in Kinds, e \in Entities : table'[k].entry[e] # "taken"
    BY <2>1 DEF Filed, Placing
  <2>. QED  BY <2>2 DEF Goal
<1>12. Goal
  BY <1>2, <1>3, <1>4, <1>5, <1>6, <1>8, <1>9, <1>10, <1>11, NextIsEither DEF InRound, Cancelling
<1>. QED  BY <1>12

(* An entity that has subscribers is not being released. *)
LEMMA PresentIsLive ==
  ASSUME Plain, Filed, Released, Middle = Idle, NEW k \in Kinds, NEW e \in Entities, Present(table[k], e)
  PROVE  status[e] \in {"live", "dead"}
<1>1. status[e] \in Statuses /\ ~InRelease(e)
  BY DEF Plain, InRelease, Idle
<1>. QED  BY <1>1 DEF Released, Present, Statuses

RetainIsFiled ==
  /\ Middle.kind # "release"
  /\ Middle.todo \cup Middle.kept \subseteq Registered(Middle.kind, Middle.key)
  /\ Middle.kind = "event" => Middle.ev # 0
  /\ status[Middle.key] \in {"live", "dead"}

LEMMA RetainFiled ==
  ASSUME Plain, Shaped, Filed, Released, Next, Middle'.at = "retain"
  PROVE  RetainIsFiled'
<1>1. ASSUME Middle.at = "retain", Middle'.kind = Middle.kind, Middle'.key = Middle.key,
             Middle'.ev = Middle.ev, Middle'.todo \cup Middle'.kept \subseteq Middle.todo \cup Middle.kept,
             \A e \in Entities : status[e] \in {"live", "dead"} => status'[e] \in {"live", "dead"}
      PROVE  RetainIsFiled'
  <2>1. PICK k \in Kinds, e \in Entities : k = Middle.kind /\ e = Middle.key
    BY <1>1, MiddleIsRound DEF Shaped, RetainCalls
  <2>2. Registered(k, e) \subseteq Registered(k, e)'
    BY RegisteredGrow
  <2>3. Registered(k, e)' = Registered(Middle.kind, Middle.key)'
    BY <1>1, <2>1 DEF Registered
  <2>4. /\ k # "release" /\ Middle.todo \cup Middle.kept \subseteq Registered(k, e)
        /\ k = "event" => Middle.ev # 0
        /\ status[e] \in {"live", "dead"}
    BY <1>1, <2>1 DEF Filed
  <2>5. Middle'.kind = k /\ Middle'.key = e
    BY <1>1, <2>1
  <2>. QED  BY <1>1, <2>2, <2>3, <2>4, <2>5 DEF RetainIsFiled
<1>2. CASE Quiet
  <2>1. Middle' = Middle
    BY <1>2, QuietStays
  <2>2. ~TakeDropped /\ ~DropEntity
    <3>1. Middle.at = "retain"
      BY <2>1
    <3>. QED  BY <3>1, TakeDroppedIs, DropEntityIs DEF Idle, ReleaseCalls
  <2>. QED  BY <1>1, <2>1, <2>2, StatusMoves DEF Aged
<1>3. ASSUME NEW kind \in {"notify", "event"}, NEW e \in Entities, NEW ev, Retained(kind, e, ev), Middle = Idle,
             kind = "event" => ev # 0, UNCHANGED <<status, subs>>
      PROVE  RetainIsFiled'
  <2>1. /\ Present(table[kind], e) /\ Middle'.kind = kind /\ Middle'.key = e /\ Middle'.ev = ev
        /\ Middle'.todo = table[kind].subs[e] /\ Middle'.kept = table[kind].subs[e]
    BY <1>3 DEF Retained, Idle
  <2>2. kind \in Kinds
    BY DEF Kinds
  <2>3. status[e] \in {"live", "dead"}
    BY <1>3, <2>1, <2>2, PresentIsLive
  <2>4. table[kind].subs[e] \subseteq Registered(kind, e)
    BY <2>2 DEF Filed
  <2>5. Registered(Middle.kind, Middle.key)' = Registered(kind, e)
    BY <1>3, <2>1 DEF Registered
  <2>. QED  BY <1>3, <2>1, <2>3, <2>4, <2>5 DEF RetainIsFiled
<1>4. CASE ApplyNotify
  <2>1. UNCHANGED <<status, subs>>
    BY <1>4 DEF ApplyNotify
  <2>. QED  BY <1>3, <1>4, <2>1, ApplyNotifyIs
<1>5. CASE ApplyEmit
  <2>1. UNCHANGED <<status, subs>>
    BY <1>5 DEF ApplyEmit
  <2>. QED  BY <1>3, <1>5, <2>1, ApplyEmitIs
<1>6. CASE Visit \/ Visited
  <2>1. UNCHANGED status
    BY <1>6 DEF Visit, Visited
  <2>2. Middle.at = "retain" /\ Middle'.kind = Middle.kind /\ Middle'.key = Middle.key /\ Middle'.ev = Middle.ev
    BY <1>6, VisitIs, VisitedIs DEF RetainCalls
  <2>3. Middle'.todo \cup Middle'.kept \subseteq Middle.todo \cup Middle.kept
    <3>1. CASE Visit
      BY <3>1, VisitIs
    <3>2. CASE Visited
      BY <3>2, VisitedIs
    <3>. QED  BY <1>6, <3>1, <3>2
  <2>. QED  BY <1>1, <2>1, <2>2, <2>3
<1>7. CASE TakeDropped \/ (\E e \in Entities : Release(e)) \/ RunRelease \/ DropEntity \/ EndRelease \/ EndRetain
  <2>1. Middle' \in ReleaseCalls \/ Middle' = Idle \/ Middle'.at = "release"
    <3>1. CASE TakeDropped
      <4>1. Middle' = [at |-> "release", todo |-> Dead, ent |-> None, subs |-> {}, hold |-> {}]
        BY <3>1, TakeDroppedIs
      <4>. QED  BY <4>1
    <3>2. CASE RunRelease
      BY <3>2, RunReleaseIs
    <3>3. CASE (\E e \in Entities : Release(e)) \/ DropEntity \/ EndRelease \/ EndRetain
      BY <3>3, ReleaseIs, DropEntityIs, EndReleaseIs, EndRetainIs
    <3>. QED  BY <1>7, <3>1, <3>2, <3>3
  <2>2. Middle'.at # "retain"
    BY <2>1 DEF ReleaseCalls, Idle
  <2>. QED  BY <2>2
<1>. QED  BY <1>2, <1>4, <1>5, <1>6, <1>7, NextIsEither DEF InRound

LEMMA FiledStays ==
  ASSUME Plain, Shaped, Filed, Released, Next
  PROVE  Filed'
BY TableFiled, TakenStays, RetainFiled DEF Filed, Present, RetainIsFiled

-----------------------------------------------------------------------------
(* Released stays *)

(* A status only goes on. *)
LEMMA StatusOnward ==
  ASSUME Plain, Shaped, Next, NEW e \in Entities
  PROVE  /\ status[e] = "gone" => status'[e] = "gone"
         /\ status[e] \in {"releasing", "gone"} => status'[e] \in {"releasing", "gone"}
         /\ status'[e] = "live" => status[e] = "live"
<1>1. CASE TakeDropped
  BY <1>1, StatusAfterTake
<1>2. CASE DropEntity
  BY <1>2, StatusAfterDrop
<1>3. CASE ~TakeDropped /\ ~DropEntity
  BY <1>3, StatusMoves DEF Aged
<1>. QED  BY <1>1, <1>2, <1>3

LEMMA LiveFades ==
  ASSUME Plain, Shaped, Next, NEW w \in Watchers, Live(w)'
  PROVE  Live(w)
BY StatusOnward DEF Live, Watchers

LEMMA ListeningFades ==
  ASSUME Plain, Shaped, Next, NEW s \in DOMAIN subs, Listening(s)'
  PROVE  Listening(s)
<1>1. subs'[s] = subs[s] /\ subs[s].key \in Watchers /\ subs[s].watcher \in Watchers
  BY SubsGrow, SubsAre DEF Subs, Watchers
<1>2. s \notin dropped
  BY DroppedMoves, CancellingIs DEF Listening
<1>3. Live(subs[s].key)' /\ Live(subs[s].watcher)'
  BY <1>1 DEF Listening, Live
<1>4. Live(subs[s].key) /\ Live(subs[s].watcher)
  <2>1. PICK k \in Watchers, w \in Watchers : k = subs[s].key /\ w = subs[s].watcher
    BY <1>1
  <2>2. Live(k)' /\ Live(w)'
    BY <1>1, <1>3, <2>1 DEF Live
  <2>. QED  BY <2>1, <2>2, LiveFades
<1>. QED  BY <1>2, <1>4 DEF Listening

LEMMA ReleasingStays ==
  ASSUME Plain, Shaped, Filed, Released, Next, NEW e \in Entities
  PROVE  status'[e] = "releasing" <=> InRelease(e)'
<1>1. (status[e] = "releasing" <=> InRelease(e)) /\ None \notin Entities
  BY OwnersAssumption DEF Released
<1>2. CASE TakeDropped
  <2>1. ~InRelease(e)
    BY <1>2, TakeDroppedIs DEF InRelease, Idle
  <2>2. Middle' = [at |-> "release", todo |-> Dead, ent |-> None, subs |-> {}, hold |-> {}]
    BY <1>2, TakeDroppedIs
  <2>3. InRelease(e)' <=> e \in Dead
    BY <1>1, <2>2 DEF InRelease
  <2>4. status'[e] = "releasing" <=> status[e] = "dead"
    BY <1>1, <1>2, <2>1, StatusAfterTake
  <2>. QED  BY <2>3, <2>4 DEF Dead
<1>3. CASE DropEntity
  <2>1. /\ Middle \in ReleaseCalls /\ Middle.ent \in Entities
        /\ Middle' = [Middle EXCEPT !.ent = None]
    BY <1>3, DropEntityIs
  <2>2. Middle.at = "release" /\ Middle'.at = "release" /\ Middle'.todo = Middle.todo /\ Middle'.ent = None
    BY <2>1 DEF ReleaseCalls
  <2>3. CASE e = Middle.ent
    <3>1. e \notin Middle.todo /\ status'[e] = "gone"
      BY <1>3, <2>2, <2>3, StatusAfterDrop DEF Released
    <3>. QED  BY <1>1, <2>2, <3>1 DEF InRelease
  <2>4. CASE e # Middle.ent
    <3>1. status'[e] = "releasing" <=> status[e] = "releasing"
      BY <1>3, <2>4, StatusAfterDrop
    <3>. QED  BY <1>1, <2>2, <2>4, <3>1 DEF InRelease
  <2>. QED  BY <2>3, <2>4
<1>4. CASE ~TakeDropped /\ ~DropEntity
  <2>1. status'[e] = "releasing" <=> status[e] = "releasing"
    BY <1>4, StatusMoves DEF Aged
  <2>2. InRelease(e)' <=> InRelease(e)
    <3>1. CASE Quiet
      BY <3>1, QuietStays DEF InRelease
    <3>2. ASSUME NEW d \in Entities, Release(d)  PROVE InRelease(e)' <=> InRelease(e)
      <4>1. /\ Middle \in ReleaseCalls /\ Middle.ent = None /\ d \in Middle.todo
            /\ Middle' = [Middle EXCEPT !.todo = @ \ {d}, !.ent = d, !.subs = table["release"].subs[d]]
        BY <3>2, ReleaseIs
      <4>2. Middle'.at = "release" /\ Middle.at = "release" /\ Middle'.todo = Middle.todo \ {d} /\ Middle'.ent = d
        BY <4>1 DEF ReleaseCalls
      <4>. QED  BY <1>1, <4>1, <4>2 DEF InRelease
    <3>3. CASE RunRelease
      <4>1. PICK s : Middle \in ReleaseCalls /\ Middle' = [Middle EXCEPT !.subs = @ \ {s}]
        BY <3>3, RunReleaseIs
      <4>2. Middle'.at = Middle.at /\ Middle'.todo = Middle.todo /\ Middle'.ent = Middle.ent
        BY <4>1 DEF ReleaseCalls
      <4>. QED  BY <4>2 DEF InRelease
    <3>4. CASE EndRelease
      BY <1>1, <3>4, EndReleaseIs DEF InRelease, Idle
    <3>5. CASE ApplyNotify \/ ApplyEmit
      <4>1. Middle = Idle /\ (Middle' = Idle \/ Middle'.at = "retain")
        BY <3>5, ApplyNotifyIs, ApplyEmitIs DEF Retained
      <4>. QED  BY <4>1 DEF InRelease, Idle
    <3>6. CASE Visit \/ Visited \/ EndRetain
      <4>1. Middle \in RetainCalls /\ (Middle' \in RetainCalls \/ Middle' = Idle)
        BY <3>6, VisitIs, VisitedIs, EndRetainIs
      <4>2. Middle.at # "release" /\ Middle'.at # "release"
        BY <4>1 DEF RetainCalls, Idle
      <4>. QED  BY <4>2 DEF InRelease
    <3>. QED  BY <1>4, <3>1, <3>2, <3>3, <3>4, <3>5, <3>6, NextIsEither DEF InRound
  <2>. QED  BY <1>1, <2>1, <2>2
<1>. QED  BY <1>2, <1>3, <1>4

(* The callbacks taken are those of the entity, and go one by one. *)
ReleaseIsFiled ==
  Middle.at = "release" =>
    /\ Middle.ent \notin Middle.todo
    /\ \A s \in Middle.subs :
         s \in DOMAIN subs /\ subs[s].kind = "release" /\ subs[s].key = Middle.ent

LEMMA ReleaseFiled ==
  ASSUME Plain, Shaped, Filed, Released, Next
  PROVE  ReleaseIsFiled'
<1>1. ReleaseIsFiled /\ None \notin Entities
  BY OwnersAssumption DEF Released, ReleaseIsFiled
<1>2. DOMAIN subs \subseteq DOMAIN subs' /\ \A s \in DOMAIN subs : subs'[s] = subs[s]
  BY SubsGrow
<1>3. CASE Quiet
  <2>1. Middle' = Middle
    BY <1>3, QuietStays
  <2>. QED  BY <1>1, <1>2, <2>1 DEF ReleaseIsFiled
<1>4. CASE TakeDropped
  <2>1. Middle' = [at |-> "release", todo |-> Dead, ent |-> None, subs |-> {}, hold |-> {}]
    BY <1>4, TakeDroppedIs
  <2>2. None \notin Dead
    BY <1>1 DEF Dead
  <2>3. Middle'.ent = None /\ Middle'.todo = Dead /\ Middle'.subs = {}
    BY <2>1
  <2>. QED  BY <2>2, <2>3 DEF ReleaseIsFiled
<1>5. ASSUME NEW e \in Entities, Release(e)  PROVE ReleaseIsFiled'
  <2>1. Middle \in ReleaseCalls
        /\ Middle' = [Middle EXCEPT !.todo = @ \ {e}, !.ent = e, !.subs = table["release"].subs[e]]
    BY <1>5, ReleaseIs
  <2>2. Middle'.todo = Middle.todo \ {e} /\ Middle'.ent = e /\ Middle'.subs = table["release"].subs[e]
    BY <2>1 DEF ReleaseCalls
  <2>3. table["release"].subs[e] \subseteq Registered("release", e)
    BY DEF Filed, Kinds
  <2>. QED  BY <1>2, <2>2, <2>3 DEF ReleaseIsFiled, Registered
<1>6. CASE RunRelease
  <2>1. PICK s : Middle \in ReleaseCalls /\ Middle' = [Middle EXCEPT !.subs = @ \ {s}]
    BY <1>6, RunReleaseIs
  <2>2. /\ Middle.at = "release" /\ Middle'.todo = Middle.todo /\ Middle'.ent = Middle.ent
        /\ Middle'.subs = Middle.subs \ {s}
    BY <2>1 DEF ReleaseCalls
  <2>. QED  BY <1>1, <1>2, <2>2 DEF ReleaseIsFiled
<1>7. CASE DropEntity
  <2>1. Middle \in ReleaseCalls /\ Middle.subs = {} /\ Middle' = [Middle EXCEPT !.ent = None]
    BY <1>7, DropEntityIs
  <2>2. Middle'.todo = Middle.todo /\ Middle'.ent = None /\ Middle'.subs = {} /\ Middle.todo \subseteq Entities
    BY <2>1 DEF ReleaseCalls
  <2>. QED  BY <1>1, <2>2 DEF ReleaseIsFiled
<1>8. CASE EndRelease \/ ApplyNotify \/ ApplyEmit \/ Visit \/ Visited \/ EndRetain
  <2>1. Middle' = Idle \/ Middle' \in RetainCalls
    <3>1. CASE EndRelease \/ ApplyNotify
      BY <3>1, EndReleaseIs, ApplyNotifyIs DEF Retained
    <3>2. CASE ApplyEmit \/ Visit
      BY <3>2, ApplyEmitIs, VisitIs DEF Retained
    <3>3. CASE Visited \/ EndRetain
      BY <3>3, VisitedIs, EndRetainIs
    <3>. QED  BY <1>8, <3>1, <3>2, <3>3
  <2>2. Middle'.at # "release"
    BY <2>1 DEF RetainCalls, Idle
  <2>. QED  BY <2>2 DEF ReleaseIsFiled
<1>. QED  BY <1>3, <1>4, <1>5, <1>6, <1>7, <1>8, NextIsEither DEF InRound

(* An entity that is gone, or whose release has begun, has no subscribers. *)
Closed(e) == status[e] = "gone" \/ (Middle.at = "release" /\ Middle.ent = e)

LEMMA ClosedStays ==
  ASSUME Plain, Shaped, Filed, Released, Next, NEW e \in Entities, Closed(e)'
  PROVE  \A k \in Kinds : table'[k].entry[e] = "absent"
<1>1. Closed(e) => \A k \in Kinds : table[k].entry[e] = "absent"
  BY DEF Released, Closed
<1>2. CASE UNCHANGED table /\ Closed(e)
  BY <1>1, <1>2
<1>3. CASE Cancelling /\ Closed(e)
  <2>1. PICK S \in SUBSET held : table' = Cancelled(S)
    BY <1>3, CancellingIs
  <2>2. \A k \in Kinds : table'[k].entry[e] = IF table[k].entry[e] = "present" /\ table[k].subs[e] \ S = {}
                                              THEN "absent" ELSE table[k].entry[e]
    BY <2>1, TableAfterCancel
  <2>. QED  BY <1>1, <1>3, <2>2
<1>4. CASE Quiet
  <2>1. Closed(e)
    <3>1. Middle' = Middle
      BY <1>4, QuietStays
    <3>2. CASE TakeDropped \/ DropEntity
      <4>2. CASE DropEntity
        BY <4>2, <3>1, DropEntityIs, StatusAfterDrop DEF Closed, ReleaseCalls
      <4>3. CASE TakeDropped
        BY <4>3, <3>1, StatusAfterTake DEF Closed
      <4>. QED  BY <3>2, <4>2, <4>3
    <3>3. CASE ~TakeDropped /\ ~DropEntity
      BY <3>1, <3>3, StatusMoves DEF Closed, Aged
    <3>. QED  BY <3>2, <3>3
  <2>2. CASE Adding
    <3>1. PICK k \in Kinds, d \in Entities, w \in Watchers : Added(k, d, w)
      BY <2>2 DEF Adding
    <3>2. status[d] = "live" /\ \E S : Placing(k, d, "present", S)
      BY <3>1, AddedIs
    <3>3. d # e
      <4>1. CASE status[e] = "gone"
        BY <3>2, <4>1
      <4>2. CASE Middle.at = "release" /\ Middle.ent = e
        <5>1. status[e] = "releasing"
          BY <4>2 DEF Released, InRelease
        <5>. QED  BY <3>2, <5>1
      <4>. QED  BY <2>1, <4>1, <4>2 DEF Closed
    <3>. QED  BY <1>1, <2>1, <3>2, <3>3 DEF Placing
  <2>. QED  BY <1>2, <1>3, <1>4, <2>1, <2>2, QuietTable DEF Cancelling
<1>5. CASE TakeDropped
  <2>1. Middle' = [at |-> "release", todo |-> Dead, ent |-> None, subs |-> {}, hold |-> {}]
    BY <1>5, TakeDroppedIs
  <2>2. Middle'.ent # e
    BY <2>1, OwnersAssumption
  <2>3. status[e] = "gone"
    BY <1>5, <2>2, StatusAfterTake DEF Closed
  <2>. QED  BY <1>2, <1>5, <2>3 DEF Closed, TakeDropped, registry
<1>6. ASSUME NEW d \in Entities, Release(d)
      PROVE  \A k \in Kinds : table'[k].entry[e] = "absent"
  <2>1. \A k \in Kinds : /\ table'[k].entry[d] = "absent"
                         /\ \A c \in Entities \ {d} : table'[k].entry[c] = table[k].entry[c]
    BY <1>6, TableAfterRemove DEF Release
  <2>2. CASE d = e
    BY <2>1, <2>2
  <2>3. CASE d # e
    <3>1. Middle \in ReleaseCalls
          /\ Middle' = [Middle EXCEPT !.todo = @ \ {d}, !.ent = d, !.subs = table["release"].subs[d]]
      BY <1>6, ReleaseIs
    <3>2. Middle'.ent = d /\ UNCHANGED status
      BY <1>6, <3>1 DEF ReleaseCalls, Release
    <3>3. status[e] = "gone"
      BY <2>3, <3>2 DEF Closed
    <3>. QED  BY <1>1, <2>1, <2>3, <3>3 DEF Closed
  <2>. QED  BY <2>2, <2>3
<1>7. CASE RunRelease
  <2>1. PICK s : Middle \in ReleaseCalls /\ Middle' = [Middle EXCEPT !.subs = @ \ {s}]
    BY <1>7, RunReleaseIs
  <2>2. Middle'.at = Middle.at /\ Middle'.ent = Middle.ent /\ UNCHANGED <<status, table>>
    BY <1>7, <2>1 DEF ReleaseCalls, RunRelease, registry
  <2>3. Closed(e)
    BY <2>2 DEF Closed
  <2>. QED  BY <1>2, <2>2, <2>3
<1>8. CASE DropEntity
  <2>1. Middle \in ReleaseCalls /\ Middle' = [Middle EXCEPT !.ent = None]
    BY <1>8, DropEntityIs
  <2>2. Middle'.ent # e /\ Middle.at = "release"
    BY <2>1, OwnersAssumption DEF ReleaseCalls
  <2>3. Closed(e)
    BY <1>8, <2>2, StatusAfterDrop DEF Closed
  <2>. QED  BY <1>3, <1>8, <2>3 DEF Cancelling
<1>9. ASSUME NEW kind \in Kinds, NEW d \in Entities, NEW ev, Retained(kind, d, ev), Middle = Idle, UNCHANGED status
      PROVE  \A k \in Kinds : table'[k].entry[e] = "absent"
  <2>1. status[e] = "gone" /\ Closed(e)
    BY <1>9 DEF Closed, Retained, Idle
  <2>2. CASE UNCHANGED table
    BY <1>2, <2>1, <2>2
  <2>3. CASE Present(table[kind], d) /\ Placing(kind, d, "taken", {})
    <3>1. d # e
      BY <1>9, <2>1, <2>3, PresentIsLive
    <3>. QED  BY <1>1, <2>1, <2>3, <3>1 DEF Placing
  <2>. QED  BY <1>9, <2>2, <2>3 DEF Retained
<1>10. CASE ApplyNotify
  <2>1. UNCHANGED status /\ "notify" \in Kinds
    BY <1>10 DEF ApplyNotify, Kinds
  <2>. QED  BY <1>9, <1>10, <2>1, ApplyNotifyIs
<1>11. CASE ApplyEmit
  <2>1. UNCHANGED status /\ "event" \in Kinds
    BY <1>11 DEF ApplyEmit, Kinds
  <2>. QED  BY <1>9, <1>11, <2>1, ApplyEmitIs
<1>12. CASE EndRelease
  <2>1. Closed(e)
    BY <1>12, EndReleaseIs DEF Closed, Idle, EndRelease
  <2>. QED  BY <1>2, <1>12, <2>1 DEF EndRelease, registry
<1>13. CASE Visit \/ Visited
  <2>1. Middle' \in RetainCalls /\ UNCHANGED <<status, table>>
    BY <1>13, VisitIs, VisitedIs DEF Visit, Visited, registry
  <2>2. Closed(e)
    BY <2>1 DEF Closed, RetainCalls
  <2>. QED  BY <1>2, <2>1, <2>2
<1>14. CASE EndRetain
  <2>1. PICK kind \in Kinds, d \in Entities : \E entry, S :
          Middle.at = "retain" /\ d = Middle.key /\ Placing(kind, d, entry, S)
    BY <1>14, EndRetainIs DEF RetainCalls
  <2>2. UNCHANGED status /\ Middle' = Idle
    BY <1>14, EndRetainIs DEF EndRetain
  <2>3. status[e] = "gone"
    BY <2>2 DEF Closed, Idle
  <2>4. d # e
    BY <2>1, <2>3 DEF Filed
  <2>. QED  BY <1>1, <2>1, <2>3, <2>4 DEF Closed, Placing
<1>. QED  BY <1>4, <1>5, <1>6, <1>7, <1>8, <1>10, <1>11, <1>12, <1>13, <1>14, NextIsEither DEF InRound

LEMMA RanStays ==
  ASSUME Plain, Shaped, Filed, Released, Next
  PROVE  \A s \in ran' : subs'[s].kind = "release" /\ status'[subs'[s].key] \in {"releasing", "gone"}
<1>1. ASSUME NEW s \in DOMAIN subs, subs[s].kind = "release", status[subs[s].key] \in {"releasing", "gone"}
      PROVE  subs'[s].kind = "release" /\ status'[subs'[s].key] \in {"releasing", "gone"}
  <2>1. subs'[s] = subs[s] /\ subs[s].key \in Entities
    BY SubsGrow, SubsAre DEF Subs
  <2>. QED  BY <1>1, <2>1, StatusOnward
<1>2. \A s \in ran : s \in DOMAIN subs /\ subs[s].kind = "release" /\ status[subs[s].key] \in {"releasing", "gone"}
  BY DEF Released, Plain
<1>3. CASE RunRelease
  <2>1. PICK s \in Middle.subs : /\ s \in DOMAIN subs /\ (ran' = ran \cup {s} \/ UNCHANGED ran)
                                 /\ Middle \in ReleaseCalls /\ Middle.ent \in Entities
    BY <1>3, RunReleaseIs
  <2>2. Middle.at = "release"
    BY <2>1 DEF ReleaseCalls
  <2>3. subs[s].kind = "release" /\ subs[s].key = Middle.ent /\ status[Middle.ent] = "releasing"
    BY <2>1, <2>2 DEF Released, InRelease
  <2>. QED  BY <1>1, <1>2, <2>1, <2>3
<1>. QED  BY <1>1, <1>2, <1>3, RanMoves

LEMMA FlagsGrow ==
  ASSUME Plain, Shaped, Filed, Released, Next
  PROVE  ran \subseteq ran' /\ dropped \subseteq dropped' /\ active \subseteq active'
<1>1. ran \subseteq ran'
  BY RanMoves, RunReleaseIs
<1>2. dropped \subseteq dropped'
  BY DroppedMoves, CancellingIs
<1>3. active \subseteq active'
  <2>1. CASE Adding
    <3>1. PICK k \in Kinds, e \in Entities, w \in Watchers : Added(k, e, w)
      BY <2>1 DEF Adding
    <3>. QED  BY <3>1, AddedIs
  <2>2. CASE ApplyActivate
    BY <2>2 DEF ApplyActivate
  <2>. QED  BY <2>1, <2>2, ActiveMoves
<1>. QED  BY <1>1, <1>2, <1>3

(* A subscriber leaves the table when it is cancelled, when its entity is  *)
(* released, or for a retain.                                              *)
LEMMA TableKeeps ==
  ASSUME Plain, Shaped, Next, NEW k \in Kinds, NEW e \in Entities, NEW s \in table[k].subs[e]
  PROVE  \/ s \in table'[k].subs[e]
         \/ s \in dropped'
         \/ Release(e)
         \/ k # "release" /\ Middle'.at = "retain" /\ s \in Middle'.kept \cap Middle'.todo
<1>1. ASSUME NEW kind \in Kinds, NEW d \in Entities, NEW entry, NEW S, Placing(kind, d, entry, S),
             kind = k /\ d = e => s \in S
      PROVE  s \in table'[k].subs[e]
  BY <1>1 DEF Placing
<1>2. CASE Adding
  <2>1. PICK kind \in Kinds, d \in Entities, w \in Watchers : Added(kind, d, w)
    BY <1>2 DEF Adding
  <2>2. PICK n : Placing(kind, d, "present", table[kind].subs[d] \cup {n})
    BY <2>1, AddedIs
  <2>. QED  BY <1>1, <2>2
<1>3. CASE Cancelling
  <2>1. PICK S \in SUBSET held : dropped' = dropped \cup S /\ table' = Cancelled(S)
    BY <1>3, CancellingIs
  <2>2. table'[k].subs[e] = table[k].subs[e] \ S
    BY <2>1, TableAfterCancel
  <2>. QED  BY <2>1, <2>2
<1>4. ASSUME NEW d \in Entities, Release(d), d # e  PROVE s \in table'[k].subs[e]
  BY <1>4, TableAfterRemove DEF Release
<1>5. ASSUME NEW kind \in Kinds, NEW d \in Entities, NEW ev, Retained(kind, d, ev), kind # "release"
      PROVE  \/ s \in table'[k].subs[e]
             \/ k # "release" /\ Middle'.at = "retain" /\ s \in Middle'.kept \cap Middle'.todo
  <2>1. CASE UNCHANGED table
    BY <2>1
  <2>2. CASE Placing(kind, d, "taken", {}) /\ (kind # k \/ d # e)
    BY <1>1, <2>2
  <2>3. CASE /\ kind = k /\ d = e /\ Middle'.at = "retain"
             /\ Middle'.todo = table[kind].subs[d] /\ Middle'.kept = table[kind].subs[d]
    BY <1>5, <2>3
  <2>. QED  BY <1>5, <2>1, <2>2, <2>3 DEF Retained
<1>6. CASE ApplyNotify
  BY <1>5, <1>6, ApplyNotifyIs DEF Kinds
<1>7. CASE ApplyEmit
  BY <1>5, <1>7, ApplyEmitIs DEF Kinds
<1>8. CASE EndRetain
  <2>1. PICK kind \in Kinds, d \in Entities : \E entry, kept :
          Placing(kind, d, entry, kept \cup table[kind].subs[d])
    BY <1>8, EndRetainIs DEF RetainCalls
  <2>. QED  BY <1>1, <2>1
<1>9. CASE UNCHANGED table
  BY <1>9
<1>. QED  BY <1>2, <1>3, <1>4, <1>6, <1>7, <1>8, <1>9, TableMoves

(* A callback taken by the release in progress stays in it until it runs.  *)
LEMMA ReleaseKeeps ==
  ASSUME Plain, Shaped, Filed, Released, Next, Middle.at = "release", NEW s \in Middle.subs
  PROVE  \/ s \in ran'
         \/ ~Live(subs[s].watcher)
         \/ Middle'.at = "release" /\ s \in Middle'.subs
<1>1. s \in DOMAIN subs /\ subs[s].kind = "release" /\ subs[s].key = Middle.ent
  BY DEF Released
<1>2. Middle.ent # None /\ s \in active
  BY <1>1, SubsAre, OwnersAssumption DEF Subs, Released
<1>3. CASE Quiet
  BY <1>3, QuietStays
<1>4. CASE RunRelease
  <2>1. PICK t \in Middle.subs :
          /\ Middle \in ReleaseCalls /\ Middle' = [Middle EXCEPT !.subs = @ \ {t}]
          /\ \/ ran' = ran \cup {t}
             \/ (t \notin active \/ ~Live(subs[t].watcher)) /\ UNCHANGED ran
    BY <1>4, RunReleaseIs
  <2>2. Middle'.at = Middle.at /\ Middle'.subs = Middle.subs \ {t}
    BY <2>1 DEF ReleaseCalls
  <2>. QED  BY <1>2, <2>1, <2>2
<1>5. CASE TakeDropped \/ (\E e \in Entities : Release(e)) \/ DropEntity \/ EndRelease
  <2>1. CASE TakeDropped
    BY <2>1, TakeDroppedIs DEF Idle
  <2>2. CASE (\E e \in Entities : Release(e)) \/ EndRelease
    BY <1>2, <2>2, ReleaseIs, EndReleaseIs
  <2>3. CASE DropEntity
    BY <2>3, DropEntityIs
  <2>. QED  BY <1>5, <2>1, <2>2, <2>3
<1>6. CASE ApplyNotify \/ ApplyEmit
  BY <1>6, ApplyNotifyIs, ApplyEmitIs DEF Idle
<1>7. CASE Visit \/ Visited \/ EndRetain
  BY <1>7, VisitIs, VisitedIs, EndRetainIs DEF RetainCalls
<1>. QED  BY <1>3, <1>4, <1>5, <1>6, <1>7, NextIsEither DEF InRound

(* A release listener runs, is cancelled or outlived by its watcher, or is *)
(* on its way.                                                             *)
ReleaseKept(s) ==
  \/ s \in ran \cup dropped \/ ~Live(subs[s].watcher)
  \/ s \in table["release"].subs[subs[s].key]
  \/ Middle.at = "release" /\ s \in Middle.subs

LEMMA ReleaseListenersStay ==
  ASSUME Plain, Shaped, Filed, Released, Next, NEW s \in DOMAIN subs', subs'[s].kind = "release"
  PROVE  s \in active' /\ ReleaseKept(s)'
<1>. DEFINE Goal == s \in active' /\ ReleaseKept(s)'
<1>. SUFFICES Goal
  OBVIOUS
<1>1. CASE s \notin DOMAIN subs
  <2>1. Adding
    BY <1>1, SubsMove
  <2>2. PICK k \in Kinds, e \in Entities, w \in Watchers : Added(k, e, w)
    BY <2>1 DEF Adding
  <2>. DEFINE n == Len(subs) + 1
  <2>3. /\ DOMAIN subs' = DOMAIN subs \cup {n}
        /\ subs'[n] = [kind |-> k, key |-> e, watcher |-> w]
        /\ Placing(k, e, "present", table[k].subs[e] \cup {n})
        /\ k = "release" => active' = active \cup {n}
    BY <2>2, AddedIs
  <2>. HIDE DEF n
  <2>4. s = n /\ k = "release" /\ subs'[s].key = e
    BY <1>1, <2>3
  <2>5. s \in table'["release"].subs[e]
    BY <2>3, <2>4 DEF Placing
  <2>. QED  BY <2>3, <2>4, <2>5 DEF ReleaseKept
<1>2. CASE s \in DOMAIN subs
  <2>1. subs'[s] = subs[s] /\ subs[s].key \in Entities /\ subs[s].watcher \in Watchers
    BY <1>2, SubsGrow, SubsAre DEF Subs
  <2>2. s \in active /\ ReleaseKept(s)
    BY <1>2, <2>1 DEF Released, ReleaseKept
  <2>3. s \in active'
    BY <2>2, FlagsGrow
  <2>4. CASE ~Live(subs[s].watcher)
    <3>1. ~Live(subs[s].watcher)'
      <4>1. PICK w \in Watchers : w = subs[s].watcher /\ w = subs'[s].watcher
        BY <2>1
      <4>2. ~Live(w)'
        BY <2>4, <4>1, LiveFades
      <4>. QED  BY <4>1, <4>2 DEF Live
    <3>. QED  BY <2>3, <3>1 DEF ReleaseKept, Live
  <2>5. CASE s \in ran \cup dropped
    BY <2>3, <2>5, FlagsGrow DEF ReleaseKept
  <2>6. CASE s \in table["release"].subs[subs[s].key]
    <3>1. PICK e \in Entities : e = subs[s].key /\ s \in table["release"].subs[e]
      BY <2>1, <2>6
    <3>2. \/ s \in table'["release"].subs[e]
          \/ s \in dropped'
          \/ Release(e)
      BY <3>1, TableKeeps DEF Kinds
    <3>3. CASE Release(e)
      <4>1. Middle \in ReleaseCalls
            /\ Middle' = [Middle EXCEPT !.todo = @ \ {e}, !.ent = e, !.subs = table["release"].subs[e]]
        BY <3>3, ReleaseIs
      <4>2. Middle'.at = "release" /\ Middle'.subs = table["release"].subs[e]
        BY <4>1 DEF ReleaseCalls
      <4>. QED  BY <2>3, <3>1, <4>2 DEF ReleaseKept
    <3>. QED  BY <2>1, <2>3, <3>1, <3>2, <3>3 DEF ReleaseKept
  <2>7. CASE Middle.at = "release" /\ s \in Middle.subs
    BY <2>3, <2>4, <2>7, ReleaseKeeps DEF ReleaseKept
  <2>. QED  BY <2>2, <2>4, <2>5, <2>6, <2>7 DEF ReleaseKept
<1>. QED  BY <1>1, <1>2

LEMMA ReleasedStays ==
  ASSUME Plain, Shaped, Filed, Released, Next
  PROVE  Released'
BY ReleasingStays, ReleaseFiled, ClosedStays, RanStays, ReleaseListenersStay
   DEF Released, ReleaseIsFiled, Closed, ReleaseKept

-----------------------------------------------------------------------------
(* Placed, Called, Activated and Pending stay *)

(* A new subscription is in its table. *)
LEMMA NewIsPlaced ==
  ASSUME Plain, Next, NEW s \in DOMAIN subs', s \notin DOMAIN subs
  PROVE  /\ Adding
         /\ s \in table'[subs'[s].kind].subs[subs'[s].key]
         /\ s \in SubIds /\ s = Len(subs) + 1
         /\ \/ subs'[s].kind = "release" /\ s \in active'
            \/ effects' = Append(effects, ActivateOf(s)) /\ UNCHANGED active /\ subs'[s].kind # "release"
<1>1. Adding
  BY SubsMove
<1>2. PICK k \in Kinds, e \in Entities, w \in Watchers : Added(k, e, w)
  BY <1>1 DEF Adding
<1>. DEFINE n == Len(subs) + 1
<1>3. /\ DOMAIN subs' = DOMAIN subs \cup {n} /\ n \in SubIds
      /\ subs'[n] = [kind |-> k, key |-> e, watcher |-> w]
      /\ Placing(k, e, "present", table[k].subs[e] \cup {n})
      /\ \/ k = "release" /\ active' = active \cup {n}
         \/ k # "release" /\ UNCHANGED active /\ effects' = Append(effects, ActivateOf(n))
  BY <1>2, AddedIs
<1>6. s = Len(subs) + 1 <=> s = n
  OBVIOUS
<1>. HIDE DEF n
<1>4. s = n /\ subs'[s].kind = k /\ subs'[s].key = e
  BY <1>3
<1>5. s \in table'[k].subs[e]
  BY <1>3, <1>4 DEF Placing
<1>. QED  BY <1>1, <1>3, <1>4, <1>5, <1>6

PlacedAt(s) ==
  \/ s \in table[subs[s].kind].subs[subs[s].key]
  \/ Middle.at = "retain" /\ s \in Middle.kept

LEMMA PlacedStays ==
  ASSUME Plain, Shaped, Filed, Released, Placed, Next
  PROVE  Placed'
<1>. SUFFICES ASSUME NEW s \in DOMAIN subs', subs'[s].kind # "release", Listening(s)'
              PROVE  PlacedAt(s)'
  BY DEF Placed, PlacedAt
<1>1. CASE s \notin DOMAIN subs
  BY <1>1, NewIsPlaced DEF PlacedAt
<1>2. CASE s \in DOMAIN subs
  <2>1. /\ subs'[s] = subs[s] /\ Listening(s) /\ s \notin dropped'
        /\ subs[s].kind \in Kinds /\ subs[s].key \in Entities
    BY <1>2, SubsGrow, SubsAre, ListeningFades DEF Subs, Listening
  <2>2. PlacedAt(s)
    BY <1>2, <2>1 DEF Placed, PlacedAt
  <2>3. PICK k \in Kinds, e \in Entities : k = subs[s].kind /\ e = subs[s].key
    BY <2>1
  <2>4. CASE s \in table[k].subs[e]
    <3>1. ~Release(e)
      <4>1. SUFFICES ASSUME Release(e)  PROVE FALSE
        OBVIOUS
      <4>2. Middle \in ReleaseCalls /\ e \in Middle.todo
        BY <4>1, ReleaseIs
      <4>3. status[e] = "releasing"
        BY <4>2 DEF Released, InRelease, ReleaseCalls
      <4>4. status[e] = "live"
        BY <2>1, <2>3, OwnersAssumption DEF Listening, Live
      <4>. QED  BY <4>3, <4>4
    <3>2. \/ s \in table'[k].subs[e]
          \/ Middle'.at = "retain" /\ s \in Middle'.kept
      BY <2>1, <2>4, <3>1, TableKeeps
    <3>. QED  BY <2>1, <2>3, <3>2 DEF PlacedAt
  <2>5. CASE Middle.at = "retain" /\ s \in Middle.kept
    <3>1. CASE Quiet
      BY <2>5, <3>1, QuietStays DEF PlacedAt
    <3>2. CASE Visit
      <4>1. Middle' \in RetainCalls /\ s \in Middle'.kept
        BY <2>1, <2>5, <3>2, VisitIs
      <4>. QED  BY <4>1 DEF PlacedAt, RetainCalls
    <3>3. CASE Visited
      <4>1. Middle' \in RetainCalls /\ s \in Middle'.kept
        BY <2>1, <2>5, <3>3, VisitedIs DEF Listening
      <4>. QED  BY <4>1 DEF PlacedAt, RetainCalls
    <3>4. CASE EndRetain
      <4>1. PICK entry, S : Middle.kept \subseteq S /\ Placing(Middle.kind, Middle.key, entry, S)
        BY <3>4, EndRetainIs
      <4>2. Middle.kind = k /\ Middle.key = e
        BY <2>3, <2>5 DEF Filed, Registered
      <4>3. s \in table'[k].subs[e]
        BY <2>5, <4>1, <4>2 DEF Placing
      <4>. QED  BY <2>1, <2>3, <4>3 DEF PlacedAt
    <3>5. ~TakeDropped /\ ~ApplyNotify /\ ~ApplyEmit
      BY <2>5, TakeDroppedIs, ApplyNotifyIs, ApplyEmitIs DEF Idle
    <3>6. ~(\E d \in Entities : Release(d)) /\ ~RunRelease /\ ~DropEntity /\ ~EndRelease
      BY <2>5, ReleaseIs, RunReleaseIs, DropEntityIs, EndReleaseIs DEF ReleaseCalls
    <3>. QED  BY <3>1, <3>2, <3>3, <3>4, <3>5, <3>6, NextIsEither DEF InRound
  <2>. QED  BY <2>2, <2>3, <2>4, <2>5 DEF PlacedAt
<1>. QED  BY <1>1, <1>2

LEMMA ActivatedStays ==
  ASSUME Plain, Shaped, Filed, Released, Activated, Next
  PROVE  Activated'
<1>. SUFFICES ASSUME NEW s \in DOMAIN subs' \ active'
              PROVE  subs'[s].kind # "release" /\ \E i \in DOMAIN effects' : effects'[i] = ActivateOf(s)
  BY DEF Activated, ActivateOf
<1>1. CASE s \notin DOMAIN subs
  <2>1. effects' = Append(effects, ActivateOf(s)) /\ subs'[s].kind # "release" /\ s \in SubIds
    BY <1>1, NewIsPlaced
  <2>. QED  BY <2>1, ActivateIsEffect, AppendedIs
<1>2. CASE s \in DOMAIN subs
  <2>1. subs'[s] = subs[s] /\ s \notin active
    BY <1>2, SubsGrow, FlagsGrow
  <2>2. PICK i \in DOMAIN effects : subs[s].kind # "release" /\ effects[i] = ActivateOf(s)
    BY <1>2, <2>1 DEF Activated
  <2>3. CASE UNCHANGED effects
    BY <2>1, <2>2, <2>3
  <2>4. CASE \E f \in Effects : effects' = Append(effects, f)
    BY <2>1, <2>2, <2>4, AppendedIs
  <2>5. CASE (\E kind : Next1(kind)) /\ i # 1
    <3>1. /\ DOMAIN effects = 1..Len(effects) /\ Len(effects) \in Nat
          /\ DOMAIN effects' = 1..Len(effects) - 1
          /\ \A j \in DOMAIN effects' : effects'[j] = effects[j + 1]
      BY <2>5, HeadIs
    <3>2. i - 1 \in DOMAIN effects' /\ i - 1 + 1 = i
      BY <2>5, <3>1
    <3>. QED  BY <2>1, <2>2, <3>1, <3>2
  <2>6. CASE i = 1 /\ (ApplyNotify \/ ApplyEmit \/ ApplyActivate \/ ApplyDefer)
    <3>1. effects[1].kind = "activate" /\ effects[1].sub = s
      BY <2>2, <2>6 DEF ActivateOf
    <3>2. ApplyActivate
      BY <2>6, <3>1, HeadIs DEF ApplyNotify, ApplyEmit, ApplyDefer
    <3>3. s \in active'
      BY <3>1, <3>2, HeadIs DEF ApplyActivate
    <3>. QED  BY <3>3
  <2>. QED  BY <2>3, <2>4, <2>5, <2>6, QueueMoves
<1>. QED  BY <1>1, <1>2

LEMMA PendingStays ==
  ASSUME Plain, Shaped, Pending, Next
  PROVE  Pending'
<1>. DEFINE Goal == Pending'
<1>. SUFFICES Goal
  OBVIOUS
<1>1. ASSUME UNCHANGED <<notifs, effects>>  PROVE Goal
  BY <1>1 DEF Pending, NotifyOf
<1>2. ASSUME NEW f \in Effects, effects' = Append(effects, f), UNCHANGED notifs, f.kind # "notify"
      PROVE  Goal
  <2>. USE AppendedIs, NotifyIsEffect, <1>2
  <2>1. ASSUME NEW e \in Entities
        PROVE  e \in notifs' <=> \E i \in DOMAIN effects' : effects'[i] = NotifyOf(e)
    BY DEF Pending
  <2>2. ASSUME NEW i \in DOMAIN effects', NEW j \in DOMAIN effects',
               effects'[i].kind = "notify", effects'[i] = effects'[j]
        PROVE  i = j
    BY <2>2 DEF Pending
  <2>. QED  BY <2>1, <2>2 DEF Pending, NotifyOf
<1>3. ASSUME NEW e \in Entities, Notify(e)  PROVE Goal
  <2>1. CASE e \in notifs
    BY <1>1, <1>3, <2>1 DEF Notify, queue
  <2>2. CASE e \notin notifs
    <3>1. /\ effects' = Append(effects, NotifyOf(e)) /\ notifs' = notifs \cup {e}
          /\ NotifyOf(e) \in Effects /\ NotifyOf(e).kind = "notify" /\ NotifyOf(e).ent = e
      BY <1>3, <2>2, NotifyIsEffect DEF Notify, NotifyOf
    <3>2. /\ Len(effects) + 1 \notin DOMAIN effects
          /\ DOMAIN effects' = DOMAIN effects \cup {Len(effects) + 1}
          /\ effects'[Len(effects) + 1] = NotifyOf(e)
          /\ \A i \in DOMAIN effects : effects'[i] = effects[i] /\ effects[i] # NotifyOf(e)
      BY <2>2, <3>1, AppendedIs DEF Pending
    <3>3. \A d \in Entities : d # e => NotifyOf(d) # NotifyOf(e)
      BY NotifyIsEffect
    <3>4. ASSUME NEW d \in Entities
          PROVE  d \in notifs' <=> \E i \in DOMAIN effects' : effects'[i] = NotifyOf(d)
      <4>1. CASE d = e
        BY <3>1, <3>2, <4>1
      <4>2. CASE d # e
        BY <3>1, <3>2, <3>3, <4>2 DEF Pending
      <4>. QED  BY <4>1, <4>2
    <3>5. ASSUME NEW i \in DOMAIN effects', NEW j \in DOMAIN effects',
                 effects'[i].kind = "notify", effects'[i] = effects'[j]
          PROVE  i = j
      BY <3>2, <3>5 DEF Pending
    <3>. QED  BY <3>4, <3>5 DEF Pending, NotifyOf
  <2>. QED  BY <2>1, <2>2
<1>4. ASSUME NEW kind, Next1(kind),
             notifs' = IF Head(effects).kind = "notify" THEN notifs \ {Head(effects).ent} ELSE notifs
      PROVE  Goal
  <2>1. /\ DOMAIN effects = 1..Len(effects) /\ Len(effects) \in Nat
        /\ DOMAIN effects' = 1..Len(effects) - 1 /\ Head(effects) = effects[1] /\ 1 \in DOMAIN effects
        /\ \A i \in DOMAIN effects' : effects'[i] = effects[i + 1] /\ i + 1 \in DOMAIN effects
    BY <1>4, HeadIs
  <2>2. \A i \in DOMAIN effects : i # 1 => i - 1 \in DOMAIN effects' /\ effects'[i - 1] = effects[i]
    BY <2>1
  <2>3. ASSUME NEW i \in DOMAIN effects', NEW j \in DOMAIN effects',
               effects'[i].kind = "notify", effects'[i] = effects'[j]
        PROVE  i = j
    <3>1. i + 1 = j + 1
      BY <2>1, <2>3 DEF Pending
    <3>. QED  BY <2>1, <3>1
  <2>4. ASSUME NEW e \in Entities
        PROVE  e \in notifs' <=> \E i \in DOMAIN effects' : effects'[i] = NotifyOf(e)
    <3>1. effects[1] \in Effects /\ NotifyOf(e).kind = "notify" /\ NotifyOf(e).ent = e
      BY <2>1, NotifyIsEffect DEF Plain
    <3>2. CASE effects[1] = NotifyOf(e)
      <4>1. e \notin notifs'
        BY <1>4, <2>1, <3>1, <3>2
      <4>2. ASSUME NEW i \in DOMAIN effects', effects'[i] = NotifyOf(e)  PROVE FALSE
        <5>1. i + 1 \in DOMAIN effects /\ effects[i + 1] = effects[1] /\ effects[1].kind = "notify"
          BY <2>1, <3>1, <3>2, <4>2
        <5>2. i + 1 = 1
          BY <2>1, <5>1 DEF Pending
        <5>. QED  BY <2>1, <5>2
      <4>. QED  BY <4>1, <4>2
    <3>3. CASE effects[1] # NotifyOf(e)
      <4>1. e \in notifs' <=> e \in notifs
        BY <1>4, <2>1, <3>1, <3>3, EffectsAre
      <4>2. (\E i \in DOMAIN effects : effects[i] = NotifyOf(e))
              <=> (\E i \in DOMAIN effects' : effects'[i] = NotifyOf(e))
        BY <2>1, <2>2, <3>3
      <4>. QED  BY <4>1, <4>2 DEF Pending
    <3>. QED  BY <3>2, <3>3
  <2>. QED  BY <2>3, <2>4 DEF Pending, NotifyOf
<1>5. CASE ApplyNotify
  BY <1>4, <1>5, HeadIs DEF ApplyNotify
<1>6. CASE ApplyEmit \/ ApplyActivate \/ ApplyDefer
  BY <1>4, <1>6, HeadIs DEF ApplyEmit, ApplyActivate, ApplyDefer
<1>7. CASE ~ApplyNotify /\ ~\E e \in Entities : Notify(e)
  <2>1. UNCHANGED notifs
    BY <1>7, NotifsMove
  <2>2. CASE UNCHANGED effects
    BY <1>1, <2>1, <2>2
  <2>3. CASE \E f \in Effects : effects' = Append(effects, f) /\ f.kind # "notify"
    BY <1>2, <2>1, <2>3
  <2>4. \/ UNCHANGED effects
        \/ ApplyEmit \/ ApplyActivate \/ ApplyDefer
        \/ \E f \in Effects : effects' = Append(effects, f) /\ f.kind # "notify"
    <3>1. \A s \in SubIds : ActivateOf(s).kind # "notify"
      BY ActivateIsEffect
    <3>. QED  BY <1>7, <3>1, QueueMoves
  <2>. HIDE DEF Goal
  <2>. QED  BY <1>6, <2>2, <2>3, <2>4
<1>. HIDE DEF Goal
<1>. QED  BY <1>3, <1>5, <1>7

LEMMA CalledStays ==
  ASSUME Plain, Shaped, Filed, Released, Placed, Called, Next
  PROVE  Called'
<1>. SUFFICES ASSUME NEW s \in owed'
              PROVE  /\ s \in active' /\ subs'[s].kind = "notify"
                     /\ Listening(s)' => \/ subs'[s].key \in notifs'
                                         \/ Middle'.at = "retain" /\ s \in Middle'.todo
  BY DEF Called
<1>1. ASSUME NEW e \in Entities, Notify(e), s \notin owed
      PROVE  s \in active' /\ subs'[s].kind = "notify" /\ subs'[s].key \in notifs'
  <2>1. s \in Registered("notify", e) \cap active /\ e \in notifs' /\ UNCHANGED <<subs, active>>
    BY <1>1 DEF Notify, registry, queue
  <2>. QED  BY <2>1 DEF Registered
<1>2. s \in owed \/ \E e \in Entities : Notify(e) /\ s \notin owed
  BY OwedMoves, VisitIs
<1>3. CASE s \in owed
  <2>1. s \in DOMAIN subs /\ s \in active /\ subs[s].kind = "notify"
    BY <1>3 DEF Plain, Called
  <2>2. subs'[s] = subs[s] /\ s \in active' /\ subs[s].key \in Entities
    BY <2>1, SubsGrow, FlagsGrow, SubsAre DEF Subs
  <2>3. SUFFICES ASSUME Listening(s)'
                 PROVE  subs[s].key \in notifs' \/ (Middle'.at = "retain" /\ s \in Middle'.todo)
    BY <2>1, <2>2
  <2>4. Listening(s)
    BY <2>1, <2>3, ListeningFades
  <2>5. PICK e \in Entities : e = subs[s].key
    BY <2>2
  <2>6. CASE e \in notifs
    <3>1. CASE UNCHANGED notifs
      BY <2>5, <2>6, <3>1
    <3>2. ASSUME NEW d \in Entities, Notify(d)  PROVE e \in notifs'
      BY <2>6, <3>2 DEF Notify, queue
    <3>3. CASE ApplyNotify
      <4>1. PICK d \in Entities : Middle = Idle /\ notifs' = notifs \ {d} /\ Retained("notify", d, 0)
        BY <3>3, ApplyNotifyIs
      <4>2. CASE d # e
        BY <2>5, <2>6, <4>1, <4>2
      <4>3. CASE d = e
        <5>1. s \in table["notify"].subs[e]
          BY <2>1, <2>4, <2>5, <4>1 DEF Placed, Idle
        <5>2. Present(table["notify"], e)
          BY <5>1 DEF Filed, Kinds
        <5>3. Middle'.at = "retain" /\ Middle'.todo = table["notify"].subs[e]
          BY <4>1, <4>3, <5>2 DEF Retained
        <5>. QED  BY <5>1, <5>3
      <4>. QED  BY <4>2, <4>3
    <3>. QED  BY <2>5, <3>1, <3>2, <3>3, NotifsMove
  <2>7. CASE Middle.at = "retain" /\ s \in Middle.todo
    <3>1. CASE Quiet
      BY <2>7, <3>1, QuietStays
    <3>2. CASE Visit
      <4>1. Middle'.at = "retain"
        BY <3>2, VisitIs DEF RetainCalls
      <4>2. s \in Middle'.todo
        BY <2>1, <2>4, <2>7, <3>2, VisitIs
      <4>. QED  BY <4>1, <4>2
    <3>3. CASE Visited
      <4>1. Middle' \in RetainCalls /\ Middle'.todo = Middle.todo
        BY <3>3, VisitedIs
      <4>. QED  BY <2>7, <4>1 DEF RetainCalls
    <3>4. ~EndRetain /\ ~TakeDropped /\ ~ApplyNotify /\ ~ApplyEmit
      BY <2>7, EndRetainIs, TakeDroppedIs, ApplyNotifyIs, ApplyEmitIs DEF Idle
    <3>5. ~(\E d \in Entities : Release(d)) /\ ~RunRelease /\ ~DropEntity /\ ~EndRelease
      BY <2>7, ReleaseIs, RunReleaseIs, DropEntityIs, EndReleaseIs DEF ReleaseCalls
    <3>. QED  BY <3>1, <3>2, <3>3, <3>4, <3>5, NextIsEither DEF InRound
  <2>. QED  BY <1>3, <2>4, <2>5, <2>6, <2>7 DEF Called
<1>. QED  BY <1>1, <1>2, <1>3

-----------------------------------------------------------------------------
(* Serials stays *)

(* An event in the queue was there, or has just been given the next number. *)
LEMMA EventsOnward ==
  ASSUME Plain, Shaped, Next, NEW j \in DOMAIN effects', effects'[j].kind = "event"
  PROVE  \/ \E i \in DOMAIN effects : effects[i] = effects'[j]
         \/ effects'[j].ev = fuel /\ fuel' < fuel
<1>1. CASE UNCHANGED effects
  BY <1>1
<1>2. CASE \E kind : Next1(kind)
  BY <1>2, HeadIs
<1>3. ASSUME NEW f \in Effects, effects' = Append(effects, f)
      PROVE  (\E i \in DOMAIN effects : effects[i] = effects'[j]) \/ effects'[j] = f
  BY <1>3, AppendedIs
<1>4. ASSUME NEW e \in Entities, Emit(e)
      PROVE  EventOf(e, fuel).ev = fuel /\ fuel' < fuel
  BY <1>4, EmitIs
<1>5. \A s \in SubIds : ActivateOf(s).kind # "event"
  BY ActivateIsEffect
<1>6. \A e \in Entities : NotifyOf(e).kind # "event"
  BY NotifyIsEffect
<1>. QED  BY <1>1, <1>2, <1>3, <1>4, <1>5, <1>6, QueueMoves

LEMMA SerialsStays ==
  ASSUME Plain, Shaped, Filed, Released, Serials, Next
  PROVE  Serials'
<1>1. fuel \in Int /\ fuel' \in Int /\ fuel' <= fuel
  BY FuelBurns DEF Plain
<1>2. \A i \in DOMAIN effects : effects[i].kind = "event" => effects[i].ev \in Int
  BY EffectsAre DEF Plain
<1>3. \A i \in DOMAIN effects' : effects'[i].kind = "event" => effects'[i].ev \in Int
  BY QueueIsTyped, EffectsAre
<1>4. ASSUME NEW j \in DOMAIN effects', effects'[j].kind = "event"
      PROVE  effects'[j].ev > fuel'
  BY <1>1, <1>2, <1>4, EventsOnward DEF Serials
<1>5. ASSUME NEW i \in DOMAIN effects', NEW j \in DOMAIN effects', i < j,
             effects'[i].kind = "event", effects'[j].kind = "event"
      PROVE  effects'[i].ev > effects'[j].ev
  <2>1. CASE UNCHANGED effects
    BY <1>5, <2>1 DEF Serials
  <2>2. CASE \E kind : Next1(kind)
    <3>1. /\ effects'[i] = effects[i + 1] /\ effects'[j] = effects[j + 1]
          /\ i + 1 \in DOMAIN effects /\ j + 1 \in DOMAIN effects /\ i + 1 < j + 1
      BY <1>5, <2>2, HeadIs
    <3>. QED  BY <1>5, <3>1 DEF Serials
  <2>3. ASSUME NEW f \in Effects, effects' = Append(effects, f),
               f.kind = "event" => f.ev = fuel
        PROVE  effects'[i].ev > effects'[j].ev
    <3>1. /\ i \in DOMAIN effects /\ effects'[i] = effects[i]
          /\ (j \in DOMAIN effects /\ effects'[j] = effects[j]) \/ effects'[j] = f
      BY <1>5, <2>3, AppendedIs
    <3>. QED  BY <1>5, <2>3, <3>1 DEF Serials
  <2>4. \/ UNCHANGED effects \/ \E kind : Next1(kind)
        \/ \E f \in Effects : effects' = Append(effects, f) /\ (f.kind = "event" => f.ev = fuel)
    <3>1. \A s \in SubIds : ActivateOf(s).kind # "event"
      BY ActivateIsEffect
    <3>2. \A e \in Entities : NotifyOf(e).kind # "event"
      BY NotifyIsEffect
    <3>3. \A e \in Entities : Emit(e) => EventOf(e, fuel).ev = fuel
      BY EmitIs
    <3>. QED  BY <3>1, <3>2, <3>3, QueueMoves
  <2>. QED  BY <2>1, <2>2, <2>3, <2>4
<1>6. ASSUME Middle'.at = "retain", Middle'.kind = "event"
      PROVE  /\ Middle'.ev > fuel'
             /\ \A j \in DOMAIN effects' : effects'[j].kind = "event" => Middle'.ev > effects'[j].ev
  <2>. DEFINE Goal == /\ Middle'.ev > fuel'
                      /\ \A j \in DOMAIN effects' : effects'[j].kind = "event" => Middle'.ev > effects'[j].ev
  <2>. SUFFICES Goal
    OBVIOUS
  <2>1. ASSUME Middle.at = "retain", Middle'.kind = Middle.kind, Middle'.ev = Middle.ev
        PROVE  Goal
    <3>1. PICK m \in Int : m = Middle.ev /\ m = Middle'.ev
      BY <2>1, MiddleIsRound DEF Shaped, RetainCalls
    <3>2. m > fuel /\ \A i \in DOMAIN effects : effects[i].kind = "event" => m > effects[i].ev
      BY <1>6, <2>1, <3>1 DEF Serials
    <3>3. \A j \in DOMAIN effects' : effects'[j].kind = "event" => m > effects'[j].ev
      BY <3>2, EventsOnward
    <3>. QED  BY <1>1, <3>1, <3>2, <3>3
  <2>2. CASE ApplyEmit
    <3>1. /\ Middle'.ev = effects[1].ev /\ effects[1].kind = "event" /\ UNCHANGED fuel
          /\ 1 \in DOMAIN effects /\ DOMAIN effects' \subseteq Nat \ {0}
          /\ \A j \in DOMAIN effects' : effects'[j] = effects[j + 1] /\ j + 1 \in DOMAIN effects
      <4>1. Next1("event") /\ UNCHANGED fuel
        BY <2>2 DEF ApplyEmit
      <4>2. Middle'.ev = Head(effects).ev /\ Head(effects).kind = "event"
        BY <1>6, <2>2, ApplyEmitIs DEF Retained, Idle
      <4>3. /\ Head(effects) = effects[1] /\ 1 \in DOMAIN effects
            /\ DOMAIN effects' = 1..Len(effects) - 1 /\ Len(effects) \in Nat
            /\ \A j \in DOMAIN effects' : effects'[j] = effects[j + 1] /\ j + 1 \in DOMAIN effects
        BY <4>1, HeadIs
      <4>. QED  BY <4>1, <4>2, <4>3
    <3>2. \A j \in DOMAIN effects' : 1 < j + 1
      BY <3>1
    <3>. QED  BY <3>1, <3>2 DEF Serials
  <2>. HIDE DEF Goal
  <2>3. CASE Quiet
    BY <1>6, <2>1, <2>3, QuietStays
  <2>4. CASE Visit \/ Visited
    BY <2>1, <2>4, VisitIs, VisitedIs DEF RetainCalls
  <2>5. ~EndRetain /\ ~TakeDropped /\ ~ApplyNotify /\ ~EndRelease
    <3>1. ~TakeDropped
      <4>1. TakeDropped => Middle'.at = "release"
        BY TakeDroppedIs
      <4>. QED  BY <1>6, <4>1
    <3>. QED  BY <1>6, <3>1, EndRetainIs, EndReleaseIs, ApplyNotifyIs DEF Idle, Retained
  <2>6. ~(\E d \in Entities : Release(d)) /\ ~RunRelease /\ ~DropEntity
    BY <1>6, ReleaseIs, RunReleaseIs, DropEntityIs DEF ReleaseCalls
  <2>. QED  BY <2>2, <2>3, <2>4, <2>5, <2>6, NextIsEither DEF InRound
<1>. QED  BY <1>4, <1>5, <1>6 DEF Serials

-----------------------------------------------------------------------------
(* Due stays *)

(* Only an event emitted, or its delivery, changes what is due to a listener. *)
LEMMA DueIs ==
  ASSUME Plain, Shaped, Filed, Next, NEW s \in SubIds
  PROVE  \/ due'[s] = due[s]
         \/ \E e \in Entities : Emit(e) /\ s \in Registered("event", e) /\ due'[s] = Append(due[s], fuel)
         \/ /\ Visit /\ s \in Middle.todo /\ s \in active /\ Listening(s)
            /\ s \in Registered(Middle.kind, Middle.key)
            /\ due[s] # <<>> /\ due'[s] = Tail(due[s])
<1>1. ASSUME NEW e \in Entities, Emit(e)
      PROVE  due'[s] = due[s] \/ (s \in Registered("event", e) /\ due'[s] = Append(due[s], fuel))
  <2>1. due' = [t \in SubIds |-> IF t \in Registered("event", e) THEN Append(due[t], fuel) ELSE due[t]]
    BY <1>1, EmitIs
  <2>. QED  BY <2>1
<1>2. CASE Visit
  <2>1. PICK t \in Middle.todo :
          /\ t \in Registered(Middle.kind, Middle.key)
          /\ \/ UNCHANGED due
             \/ /\ t \in active /\ Listening(t)
                /\ due' = [due EXCEPT ![t] = IF @ = <<>> THEN @ ELSE Tail(@)]
    BY <1>2, VisitIs
  <2>2. due \in [SubIds -> Seq(1..MaxOps)]
    BY DEF Plain
  <2>3. CASE s # t
    BY <2>1, <2>2, <2>3
  <2>4. CASE s = t
    <3>1. CASE due[s] = <<>>
      BY <2>1, <2>2, <2>4, <3>1
    <3>2. CASE due[s] # <<>>
      BY <1>2, <2>1, <2>2, <2>4, <3>2
    <3>. QED  BY <3>1, <3>2
  <2>. QED  BY <2>3, <2>4
<1>. QED  BY <1>1, <1>2, DueMoves

LEMMA DueSeq ==
  ASSUME Plain, NEW s \in SubIds
  PROVE  /\ due[s] \in Seq(1..MaxOps) /\ DOMAIN due[s] = 1..Len(due[s]) /\ Len(due[s]) \in Nat
         /\ \A i \in DOMAIN due[s] : due[s][i] \in 1..MaxOps
         /\ 1..MaxOps \subseteq Int /\ fuel \in Int
BY BoundsAssumption DEF Plain

LEMMA AppendToDue ==
  ASSUME Plain, NEW s \in SubIds, NEW m \in 1..MaxOps, due'[s] = Append(due[s], m)
  PROVE  /\ DOMAIN due[s]' = DOMAIN due[s] \cup {Len(due[s]) + 1}
         /\ DOMAIN due[s] = 1..Len(due[s]) /\ Len(due[s]) \in Nat
         /\ due'[s][Len(due[s]) + 1] = m /\ \A i \in DOMAIN due[s] : due'[s][i] = due[s][i]
BY DueSeq

LEMMA TailOfDue ==
  ASSUME Plain, NEW s \in SubIds, due[s] # <<>>, due'[s] = Tail(due[s])
  PROVE  /\ DOMAIN due[s] = 1..Len(due[s]) /\ Len(due[s]) \in Nat \ {0}
         /\ DOMAIN due[s]' = 1..Len(due[s]) - 1
         /\ \A i \in DOMAIN due[s]' : due'[s][i] = due[s][i + 1] /\ i + 1 \in DOMAIN due[s]
         /\ Head(due[s]) = due[s][1]
BY DueSeq

LEMMA NothingElseDue ==
  ASSUME Plain, Shaped, Filed, Due, Next, NEW s \in SubIds,
         s \notin DOMAIN subs' \/ subs'[s].kind # "event"
  PROVE  due'[s] = <<>>
<1>1. s \notin DOMAIN subs \/ subs[s].kind # "event"
  BY SubsGrow
<1>2. due[s] = <<>>
  BY <1>1 DEF Due
<1>. QED  BY <1>1, <1>2, DueIs DEF Registered

(* What is due stays in the order of the numbers, all of which are used up. *)
Falling(s) ==
  \A i, j \in DOMAIN due[s] : due[s][i] > fuel /\ (i < j => due[s][i] > due[s][j])

LEMMA FallingStays ==
  ASSUME Plain, Shaped, Filed, Due, Next, NEW s \in SubIds
  PROVE  Falling(s)'
<1>1. Falling(s) /\ fuel \in Int /\ fuel' \in Int /\ fuel' <= fuel
  BY FuelBurns, DueSeq DEF Due, Falling
<1>2. \A i \in DOMAIN due[s] : due[s][i] \in Int
  BY DueSeq
<1>3. CASE due'[s] = due[s]
  BY <1>1, <1>2, <1>3 DEF Falling
<1>4. ASSUME NEW e \in Entities, Emit(e), due'[s] = Append(due[s], fuel)  PROVE Falling(s)'
  <2>1. fuel \in 1..MaxOps /\ fuel' = fuel - 1
    BY <1>4, EmitIs
  <2>2. /\ DOMAIN due[s]' = DOMAIN due[s] \cup {Len(due[s]) + 1}
        /\ DOMAIN due[s] = 1..Len(due[s]) /\ Len(due[s]) \in Nat
        /\ due'[s][Len(due[s]) + 1] = fuel /\ \A i \in DOMAIN due[s] : due'[s][i] = due[s][i]
    BY <1>4, <2>1, AppendToDue
  <2>. QED  BY <1>1, <1>2, <2>1, <2>2 DEF Falling
<1>5. CASE due[s] # <<>> /\ due'[s] = Tail(due[s])
  <2>1. /\ DOMAIN due[s]' = 1..Len(due[s]) - 1 /\ Len(due[s]) \in Nat
        /\ \A i \in DOMAIN due[s]' : due'[s][i] = due[s][i + 1] /\ i + 1 \in DOMAIN due[s]
    BY <1>5, TailOfDue
  <2>2. ASSUME NEW i \in DOMAIN due[s]', NEW j \in DOMAIN due[s]'
        PROVE  due'[s][i] > fuel' /\ (i < j => due'[s][i] > due'[s][j])
    <3>1. /\ due'[s][i] = due[s][i + 1] /\ i + 1 \in DOMAIN due[s] /\ i \in Int
          /\ due'[s][j] = due[s][j + 1] /\ j + 1 \in DOMAIN due[s] /\ j \in Int
      BY <2>1
    <3>2. due[s][i + 1] > fuel /\ due[s][i + 1] \in Int
          /\ (i + 1 < j + 1 => due[s][i + 1] > due[s][j + 1])
      BY <1>1, <1>2, <3>1 DEF Falling
    <3>. QED  BY <1>1, <3>1, <3>2
  <2>. QED  BY <2>2 DEF Falling
<1>. QED  BY <1>3, <1>4, <1>5, DueIs

-----------------------------------------------------------------------------
(* An event n is queued for s, or is being delivered and not yet to s. *)
Queued(s, n) == \E i \in DOMAIN effects : Reaches(i, s) /\ effects[i].ev = n
Delivering(s, n) ==
  /\ Middle.at = "retain" /\ Middle.kind = "event" /\ Middle.ev = n
  /\ s \in Middle.todo \cap active

LEMMA QueuedStays ==
  ASSUME UNCHANGED effects, NEW s, NEW n, subs'[s] = subs[s], s \in active' <=> s \in active
  PROVE  Queued(s, n)' <=> Queued(s, n)
BY DEF Queued, Reaches, ActivateOf

(* A new effect is at the end, after the activation of every listener.     *)
LEMMA QueuedAfterAppend ==
  ASSUME Plain, Activated, NEW f \in Effects, effects' = Append(effects, f),
         NEW s \in DOMAIN subs, NEW n, subs'[s] = subs[s], s \in active' <=> s \in active
  PROVE  Queued(s, n)' <=> \/ Queued(s, n)
                           \/ f.kind = "event" /\ f.ent = subs[s].key /\ f.ev = n
<1>1. PICK m \in Int :
        /\ DOMAIN effects' = DOMAIN effects \cup {m} /\ effects'[m] = f /\ m \notin DOMAIN effects
        /\ DOMAIN effects = 1..m - 1
        /\ \A i \in DOMAIN effects : effects'[i] = effects[i]
  <2>1. Len(effects) + 1 \in Int /\ Len(effects) + 1 - 1 = Len(effects)
    BY AppendedIs
  <2>. QED  BY <2>1, AppendedIs
<1>2. ASSUME NEW i \in DOMAIN effects
      PROVE  Reaches(i, s)' <=> Reaches(i, s)
  <2>1. \A j \in 1..i - 1 : effects'[j] = effects[j]
    BY <1>1
  <2>. QED  BY <1>1, <2>1 DEF Reaches, ActivateOf
<1>3. Reaches(m, s)' <=> f.kind = "event" /\ f.ent = subs[s].key
  <2>1. s \in active \/ \E j \in 1..m - 1 : effects'[j] = ActivateOf(s)
    <3>1. CASE s \notin active
      <4>1. PICK j \in DOMAIN effects : effects[j] = ActivateOf(s)
        BY <3>1 DEF Activated
      <4>2. j \in 1..m - 1 /\ effects'[j] = ActivateOf(s)
        BY <1>1, <4>1
      <4>. QED  BY <4>2
    <3>. QED  BY <3>1
  <2>2. Reaches(m, s)' <=> /\ effects'[m].kind = "event" /\ effects'[m].ent = subs'[s].key
                           /\ s \in active' \/ \E j \in 1..m - 1 : effects'[j] = ActivateOf(s)
    BY DEF Reaches, ActivateOf
  <2>. QED  BY <1>1, <2>1, <2>2
<1>. QED  BY <1>1, <1>2, <1>3 DEF Queued

LEMMA QueuedAfterHead ==
  ASSUME Plain, NEW kind, Next1(kind), NEW s \in DOMAIN subs, NEW n, UNCHANGED subs,
         s \in active' <=> s \in active \/ effects[1] = ActivateOf(s)
  PROVE  Queued(s, n) <=> \/ Queued(s, n)'
                          \/ /\ kind = "event" /\ effects[1].ent = subs[s].key /\ effects[1].ev = n
                             /\ s \in active
<1>1. /\ effects \in Seq(Effects) /\ 1 \in DOMAIN effects /\ effects[1].kind = kind
      /\ DOMAIN effects = 1..Len(effects) /\ Len(effects) \in Nat
      /\ DOMAIN effects' = 1..Len(effects) - 1
      /\ \A i \in DOMAIN effects' : effects'[i] = effects[i + 1] /\ i + 1 \in DOMAIN effects
  BY HeadIs
<1>2. \A i \in DOMAIN effects \ {1} : i - 1 \in DOMAIN effects' /\ effects'[i - 1] = effects[i]
  BY <1>1
<1>3. ASSUME NEW i \in DOMAIN effects \ {1}
      PROVE  Reaches(i - 1, s)' <=> Reaches(i, s)
  <2>1. (\E j \in 1..i - 1 : effects[j] = ActivateOf(s))
          <=> effects[1] = ActivateOf(s) \/ \E j \in 1..(i - 1) - 1 : effects'[j] = ActivateOf(s)
    <3>1. \A j \in 1..i - 1 : j # 1 => j - 1 \in 1..(i - 1) - 1 /\ effects'[j - 1] = effects[j]
      <4>1. ASSUME NEW j \in 1..i - 1, j # 1
            PROVE  j \in DOMAIN effects \ {1} /\ j - 1 \in 1..(i - 1) - 1
        BY <1>1, <4>1
      <4>. QED  BY <1>2, <4>1
    <3>2. \A j \in 1..(i - 1) - 1 : j + 1 \in 1..i - 1 /\ effects'[j] = effects[j + 1]
      BY <1>1
    <3>3. 1 \in 1..i - 1
      BY <1>1
    <3>. QED  BY <3>1, <3>2, <3>3
  <2>. QED  BY <1>2, <2>1 DEF Reaches, ActivateOf
<1>4. Reaches(1, s) <=> kind = "event" /\ effects[1].ent = subs[s].key /\ s \in active
  BY <1>1 DEF Reaches
<1>5. Queued(s, n)' <=> \E i \in DOMAIN effects \ {1} : Reaches(i, s) /\ effects[i].ev = n
  <2>1. ASSUME Queued(s, n)'
        PROVE  \E i \in DOMAIN effects \ {1} : Reaches(i, s) /\ effects[i].ev = n
    <3>1. PICK j \in DOMAIN effects' : Reaches(j, s)' /\ effects'[j].ev = n
      BY <2>1 DEF Queued
    <3>2. PICK i \in DOMAIN effects \ {1} : i = j + 1 /\ i - 1 = j /\ effects'[j] = effects[i]
      BY <1>1
    <3>3. Reaches(i, s)
      BY <1>3, <3>1, <3>2
    <3>. QED  BY <3>1, <3>2, <3>3
  <2>2. ASSUME NEW i \in DOMAIN effects \ {1}, Reaches(i, s), effects[i].ev = n
        PROVE  Queued(s, n)'
    BY <1>2, <1>3, <2>2 DEF Queued
  <2>. QED  BY <2>1, <2>2
<1>. QED  BY <1>1, <1>4, <1>5 DEF Queued

(* The event being delivered is the first that is due, for its number is   *)
(* the largest.                                                            *)
LEMMA DeliveredIsFirst ==
  ASSUME Plain, Shaped, Filed, Serials, Due, Middle.at = "retain", Middle.kind = "event",
         NEW s \in Middle.todo \cap active, Listening(s)
  PROVE  /\ s \in DOMAIN subs /\ s \in SubIds /\ subs[s].kind = "event"
         /\ due[s] # <<>> /\ Head(due[s]) = Middle.ev
         /\ \A n \in 1..MaxOps : Queued(s, n) => n # Middle.ev
<1>1. s \in DOMAIN subs /\ s \in SubIds /\ subs[s].kind = "event"
  BY SubsAre DEF Filed, Registered
<1>2. PICK m \in 1..MaxOps : m = Middle.ev
  BY MiddleIsRound, BoundsAssumption DEF Shaped, RetainCalls, Filed
<1>3. Awaited(s, m)
  BY <1>2 DEF Awaited
<1>4. PICK i \in DOMAIN due[s] : due[s][i] = m
  BY <1>1, <1>3 DEF Due, Given
<1>5. \A n \in 1..MaxOps : Queued(s, n) => n < m
  BY <1>2 DEF Queued, Reaches, Serials
<1>6. /\ DOMAIN due[s] = 1..Len(due[s]) /\ Len(due[s]) \in Nat
      /\ due[s] \in Seq(1..MaxOps) /\ \A j \in DOMAIN due[s] : due[s][j] \in 1..MaxOps /\ due[s][j] \in Int
  BY <1>1, DueSeq
<1>7. 1 \in DOMAIN due[s] /\ Head(due[s]) = due[s][1]
  BY <1>4, <1>6
<1>8. due[s][1] <= m
  <2>1. Awaited(s, due[s][1])
    BY <1>1, <1>6, <1>7 DEF Due, Given
  <2>2. Queued(s, due[s][1]) \/ due[s][1] = m
    BY <1>2, <2>1 DEF Awaited, Queued
  <2>. QED  BY <1>5, <1>6, <1>7, <2>2
<1>9. i = 1
  <2>1. SUFFICES ASSUME 1 < i  PROVE FALSE
    BY <1>4, <1>6
  <2>2. due[s][1] > due[s][i]
    BY <1>1, <1>4, <1>7, <2>1 DEF Due
  <2>. QED  BY <1>4, <1>6, <1>7, <1>8, <2>2
<1>10. due[s] # <<>>
  BY <1>4, <1>6, NotEmpty
<1>11. \A n \in 1..MaxOps : Queued(s, n) => n # m
  BY <1>5
<1>. QED  BY <1>1, <1>2, <1>4, <1>7, <1>9, <1>10, <1>11

LEMMA GivenAfterTail ==
  ASSUME Plain, NEW s \in SubIds, Falling(s), due[s] # <<>>, due'[s] = Tail(due[s])
  PROVE  Given(s)' = Given(s) \ {Head(due[s])}
<1>1. /\ DOMAIN due[s] = 1..Len(due[s]) /\ Len(due[s]) \in Nat \ {0}
      /\ DOMAIN due[s]' = 1..Len(due[s]) - 1
      /\ \A i \in DOMAIN due[s]' : due'[s][i] = due[s][i + 1] /\ i + 1 \in DOMAIN due[s]
      /\ Head(due[s]) = due[s][1] /\ 1 \in DOMAIN due[s]
  BY TailOfDue
<1>2. \A i \in DOMAIN due[s] : due[s][i] \in Int
  BY DueSeq
<1>3. \A i \in DOMAIN due[s] : i # 1 => /\ i - 1 \in DOMAIN due[s]' /\ due'[s][i - 1] = due[s][i]
                                        /\ due[s][i] # due[s][1]
  BY <1>1, <1>2 DEF Falling
<1>4. \A i \in DOMAIN due[s]' : i + 1 # 1
  BY <1>1
<1>5. ASSUME NEW x \in Given(s)'  PROVE x \in Given(s) \ {Head(due[s])}
  <2>1. PICK i \in DOMAIN due[s]' : x = due'[s][i]
    BY <1>5 DEF Given
  <2>. QED  BY <1>1, <1>3, <1>4, <2>1 DEF Given
<1>6. ASSUME NEW x \in Given(s), x # Head(due[s])  PROVE x \in Given(s)'
  <2>1. PICK i \in DOMAIN due[s] : x = due[s][i] /\ i # 1
    BY <1>1, <1>6 DEF Given
  <2>2. i - 1 \in DOMAIN due[s]' /\ x = due'[s][i - 1]
    BY <1>3, <2>1
  <2>. QED  BY <2>2 DEF Given
<1>. QED  BY <1>5, <1>6

LEMMA GivenAfterAppend ==
  ASSUME Plain, NEW s \in SubIds, NEW m \in 1..MaxOps, due'[s] = Append(due[s], m)
  PROVE  Given(s)' = Given(s) \cup {m}
BY AppendToDue DEF Given

(* A new listener is due nothing, and no event in the queue will find it   *)
(* active.                                                                 *)
LEMMA NewIsDueNothing ==
  ASSUME Plain, Shaped, Filed, Due, Next, NEW s \in DOMAIN subs', s \notin DOMAIN subs,
         subs'[s].kind = "event", NEW n
  PROVE  n \notin Given(s)' /\ ~Awaited(s, n)'
<1>1. /\ Adding /\ s \in SubIds /\ effects' = Append(effects, ActivateOf(s)) /\ UNCHANGED active
  BY NewIsPlaced
<1>2. due'[s] = <<>>
  BY <1>1 DEF Due, Adding, history
<1>3. s \notin active'
  BY <1>1 DEF Plain
<1>4. PICK m \in Int : /\ DOMAIN effects' = DOMAIN effects \cup {m} /\ effects'[m] = ActivateOf(s)
                       /\ DOMAIN effects = 1..m - 1 /\ ActivateOf(s).kind = "activate"
                       /\ \A i \in DOMAIN effects : effects'[i] = effects[i]
  <2>1. Len(effects) + 1 \in Int /\ Len(effects) + 1 - 1 = Len(effects)
    BY DEF Plain
  <2>. QED  BY <1>1, <2>1, ActivateIsEffect, AppendedIs
<1>5. \A i \in DOMAIN effects : effects[i] # ActivateOf(s)
  <2>1. \A i \in DOMAIN effects : effects[i].kind = "activate" => effects[i].sub # s
    BY DEF Plain
  <2>2. ActivateOf(s).kind = "activate" /\ ActivateOf(s).sub = s
    BY <1>1, ActivateIsEffect
  <2>. QED  BY <2>1, <2>2
<1>6. ASSUME NEW i \in DOMAIN effects'  PROVE ~Reaches(i, s)'
  <2>1. Reaches(i, s)' => effects'[i].kind = "event" /\ \E j \in 1..i - 1 : effects'[j] = ActivateOf(s)
    BY <1>3 DEF Reaches, ActivateOf
  <2>2. \A j \in 1..i - 1 : j \in DOMAIN effects
    BY <1>4
  <2>. QED  BY <1>4, <1>5, <2>1, <2>2
<1>. QED  BY <1>2, <1>3, <1>6 DEF Given, Awaited

(* What a step does to the events due to a listener that was there before  *)
(* and still listens, and to those it awaits.                              *)
LEMMA AwaitedStays ==
  ASSUME Plain, Shaped, Filed, Released, Placed, Pending, Called, Activated, Serials, Due, Next,
         NEW s \in DOMAIN subs, subs[s].kind = "event", Listening(s), NEW n \in 1..MaxOps
  PROVE  n \in Given(s)' <=> Queued(s, n)' \/ Delivering(s, n)'
<1>. DEFINE Goal == n \in Given(s)' <=> Queued(s, n)' \/ Delivering(s, n)'
<1>. SUFFICES Goal
  OBVIOUS
<1>0. /\ n \in Given(s) <=> Queued(s, n) \/ Delivering(s, n)
      /\ subs'[s] = subs[s] /\ s \in SubIds /\ subs[s].key \in Entities
  BY SubsGrow, SubsAre DEF Due, Awaited, Queued, Delivering, Subs
<1>1. ASSUME due'[s] = due[s], Queued(s, n)' <=> Queued(s, n), Delivering(s, n)' <=> Delivering(s, n)
      PROVE  Goal
  <2>1. Given(s)' = Given(s)
    BY <1>1 DEF Given
  <2>. QED  BY <1>0, <1>1, <2>1
<1>2. ASSUME Middle.at # "retain" \/ Middle.kind # "event"  PROVE ~Delivering(s, n)
  BY <1>2 DEF Delivering
<1>3. ASSUME Middle'.at # "retain" \/ Middle'.kind # "event"  PROVE ~Delivering(s, n)'
  BY <1>3 DEF Delivering
<1>4. (~\E e \in Entities : Emit(e)) /\ ~Visit => due'[s] = due[s]
  BY <1>0, DueIs
<1>. HIDE DEF Goal
<1>5. ASSUME NEW e \in Entities, Emit(e)  PROVE Goal
  <2>1. /\ fuel \in 1..MaxOps /\ EventOf(e, fuel) \in Effects /\ EventOf(e, fuel).kind = "event"
        /\ EventOf(e, fuel).ent = e /\ EventOf(e, fuel).ev = fuel
        /\ effects' = Append(effects, EventOf(e, fuel))
        /\ due'[s] = IF s \in Registered("event", e) THEN Append(due[s], fuel) ELSE due[s]
    <3>1. due' = [t \in SubIds |-> IF t \in Registered("event", e) THEN Append(due[t], fuel) ELSE due[t]]
      BY <1>5, EmitIs
    <3>2. due'[s] = IF s \in Registered("event", e) THEN Append(due[s], fuel) ELSE due[s]
      BY <1>0, <3>1
    <3>. QED  BY <1>5, <3>2, EmitIs
  <2>2. UNCHANGED active /\ Middle' = Middle
    BY <1>5, QuietStays DEF Quiet, Emit, registry
  <2>3. Delivering(s, n)' <=> Delivering(s, n)
    BY <2>2 DEF Delivering
  <2>4. Queued(s, n)' <=> Queued(s, n) \/ (e = subs[s].key /\ n = fuel)
    <3>1. PICK f \in Effects : f = EventOf(e, fuel) /\ effects' = Append(effects, f)
      BY <2>1
    <3>2. Queued(s, n)' <=> Queued(s, n) \/ (f.kind = "event" /\ f.ent = subs[s].key /\ f.ev = n)
      BY <1>0, <2>2, <3>1, QueuedAfterAppend
    <3>. QED  BY <2>1, <3>1, <3>2
  <2>5. CASE e = subs[s].key
    <3>1. due'[s] = Append(due[s], fuel)
      BY <2>1, <2>5 DEF Registered
    <3>2. Given(s)' = Given(s) \cup {fuel}
      BY <1>0, <2>1, <3>1, GivenAfterAppend
    <3>. QED  BY <1>0, <2>3, <2>4, <2>5, <3>2 DEF Goal
  <2>6. CASE e # subs[s].key
    <3>1. due'[s] = due[s]
      BY <2>1, <2>6 DEF Registered
    <3>. QED  BY <1>1, <2>3, <2>4, <2>6, <3>1
  <2>. QED  BY <2>5, <2>6
<1>6. CASE ApplyNotify
  <2>1. Next1("notify") /\ UNCHANGED <<subs, active>> /\ ~Visit /\ ~\E e \in Entities : Emit(e)
    <3>1. Middle = Idle /\ Next1("notify") /\ UNCHANGED <<subs, active, fuel>>
      BY <1>6, ApplyNotifyIs DEF ApplyNotify
    <3>2. ~Visit
      BY <3>1, VisitIs DEF RetainCalls, Idle
    <3>3. ~\E e \in Entities : Emit(e)
      BY <3>1, EmitIs DEF Plain
    <3>. QED  BY <3>1, <3>2, <3>3
  <2>2. effects[1].kind = "notify"
    BY <2>1, HeadIs
  <2>3. Queued(s, n)' <=> Queued(s, n)
    <3>1. effects[1] # ActivateOf(s)
      BY <2>2 DEF ActivateOf
    <3>. QED  BY <1>0, <2>1, <3>1, QueuedAfterHead
  <2>4. ~Delivering(s, n) /\ ~Delivering(s, n)'
    BY <1>2, <1>3, <1>6, ApplyNotifyIs DEF Idle, Retained
  <2>. QED  BY <1>1, <1>4, <2>1, <2>3, <2>4
<1>7. CASE ApplyActivate
  <2>1. Next1("activate") /\ UNCHANGED <<subs, due, stack>> /\ active' = active \cup {Head(effects).sub}
    BY <1>7 DEF ApplyActivate, history
  <2>2. effects[1].kind = "activate" /\ effects[1] = ActivateOf(Head(effects).sub)
    BY <2>1, HeadIs, EffectsAre
  <2>3. s \in active' <=> s \in active \/ effects[1] = ActivateOf(s)
    BY <2>1, <2>2 DEF ActivateOf
  <2>4. Queued(s, n)' <=> Queued(s, n)
    BY <1>0, <2>1, <2>3, QueuedAfterHead
  <2>5. Middle = Idle /\ Middle' = Middle
    BY <2>1, TopOfFlush DEF Next1, Middle, Shaped
  <2>6. ~Delivering(s, n) /\ ~Delivering(s, n)'
    BY <1>2, <1>3, <2>5 DEF Idle
  <2>. QED  BY <1>1, <2>1, <2>4, <2>6
<1>8. CASE ApplyDefer
  <2>1. Next1("defer") /\ UNCHANGED <<subs, due, active>>
    BY <1>8 DEF ApplyDefer, history, registry
  <2>2. effects[1].kind = "defer"
    BY <2>1, HeadIs
  <2>3. Queued(s, n)' <=> Queued(s, n)
    <3>1. effects[1] # ActivateOf(s)
      BY <2>2 DEF ActivateOf
    <3>. QED  BY <1>0, <2>1, <3>1, QueuedAfterHead
  <2>4. Middle = Idle /\ Middle' = Middle
    BY <1>8, <2>1, QuietStays, TopOfFlush DEF Quiet, Next1, Shaped
  <2>5. ~Delivering(s, n) /\ ~Delivering(s, n)'
    BY <1>2, <1>3, <2>4 DEF Idle
  <2>. QED  BY <1>1, <2>1, <2>3, <2>5
<1>9. CASE ApplyEmit
  <2>1. /\ Next1("event") /\ UNCHANGED <<subs, due, active>> /\ Middle = Idle
        /\ effects[1].kind = "event" /\ Head(effects) = effects[1]
    BY <1>9, ApplyEmitIs, HeadIs DEF ApplyEmit, history
  <2>2. Queued(s, n) <=> \/ Queued(s, n)'
                         \/ effects[1].ent = subs[s].key /\ effects[1].ev = n /\ s \in active
    <3>1. effects[1] # ActivateOf(s)
      BY <2>1 DEF ActivateOf
    <3>. QED  BY <1>0, <2>1, <3>1, QueuedAfterHead
  <2>3. ~Delivering(s, n)
    BY <1>2, <2>1 DEF Idle
  <2>4. PICK e \in Entities : e = effects[1].ent /\ Retained("event", e, effects[1].ev)
    BY <1>9, <2>1, ApplyEmitIs
  <2>5. s \in table["event"].subs[subs[s].key]
    BY <2>1 DEF Placed, Idle
  <2>6. s \in table["event"].subs[e] <=> e = subs[s].key
    BY <2>5 DEF Filed, Registered, Kinds
  <2>7. Delivering(s, n)' <=> e = subs[s].key /\ effects[1].ev = n /\ s \in active
    <3>1. CASE Middle' = Idle /\ ~Present(table["event"], e)
      <4>1. table["event"].subs[e] = {}
        BY <3>1 DEF Filed, Kinds
      <4>. QED  BY <1>3, <2>6, <3>1, <4>1 DEF Idle
    <3>2. CASE /\ Middle'.at = "retain" /\ Middle'.kind = "event" /\ Middle'.ev = effects[1].ev
               /\ Middle'.todo = table["event"].subs[e]
      BY <2>1, <2>6, <3>2 DEF Delivering
    <3>. QED  BY <2>4, <3>1, <3>2 DEF Retained
  <2>8. Given(s)' = Given(s)
    BY <2>1 DEF Given
  <2>. QED  BY <1>0, <2>2, <2>3, <2>4, <2>7, <2>8 DEF Goal
<1>10. CASE Visit
  <2>1. UNCHANGED <<effects, active, subs>>
    BY <1>10 DEF Visit, registry, queue
  <2>2. Queued(s, n)' <=> Queued(s, n)
    BY <2>1, QueuedStays
  <2>3. /\ Middle.at = "retain" /\ Middle'.at = "retain"
        /\ Middle'.kind = Middle.kind /\ Middle'.ev = Middle.ev
    BY <1>10, VisitIs DEF RetainCalls
  <2>4. PICK t \in Middle.todo :
          /\ t \in Registered(Middle.kind, Middle.key)
          /\ Middle'.todo = Middle.todo \ {t}
          /\ \/ t \notin active /\ UNCHANGED due
             \/ t \in active /\ ~Listening(t) /\ UNCHANGED due
             \/ /\ t \in active /\ Listening(t)
                /\ due' = [due EXCEPT ![t] = IF @ = <<>> THEN @ ELSE Tail(@)]
    BY <1>10, VisitIs
  <2>5. CASE s # t
    <3>1. due'[s] = due[s]
      BY <1>0, <2>4, <2>5 DEF Plain
    <3>2. Delivering(s, n)' <=> Delivering(s, n)
      BY <2>1, <2>3, <2>4, <2>5 DEF Delivering
    <3>. QED  BY <1>1, <2>2, <3>1, <3>2
  <2>6. CASE s = t /\ s \notin active
    <3>1. due'[s] = due[s]
      BY <2>4, <2>6
    <3>2. Delivering(s, n)' <=> Delivering(s, n)
      BY <2>1, <2>6 DEF Delivering
    <3>. QED  BY <1>1, <2>2, <3>1, <3>2
  <2>7. CASE s = t /\ s \in active
    <3>1. Middle.kind = "event" /\ s \in Middle.todo \cap active
      BY <2>4, <2>7 DEF Registered
    <3>2. /\ due[s] # <<>> /\ Head(due[s]) = Middle.ev
          /\ Queued(s, n) => n # Middle.ev
      BY <2>3, <3>1, DeliveredIsFirst
    <3>3. due'[s] = Tail(due[s])
      <4>1. due' = [due EXCEPT ![s] = IF @ = <<>> THEN @ ELSE Tail(@)]
        BY <2>4, <2>7
      <4>2. due \in [SubIds -> Seq(1..MaxOps)]
        BY DEF Plain
      <4>. QED  BY <1>0, <3>2, <4>1, <4>2
    <3>4. Given(s)' = Given(s) \ {Middle.ev}
      <4>1. Falling(s)
        BY <1>0 DEF Due, Falling
      <4>. QED  BY <1>0, <3>2, <3>3, <4>1, GivenAfterTail
    <3>5. Delivering(s, n) <=> n = Middle.ev
      BY <2>3, <3>1 DEF Delivering
    <3>6. ~Delivering(s, n)'
      BY <2>4, <2>7 DEF Delivering
    <3>. QED  BY <1>0, <2>2, <3>2, <3>4, <3>5, <3>6 DEF Goal
  <2>. QED  BY <2>5, <2>6, <2>7
<1>11. ASSUME UNCHANGED <<effects, active>>, due'[s] = due[s], Delivering(s, n)' <=> Delivering(s, n)
       PROVE  Goal
  <2>1. Queued(s, n)' <=> Queued(s, n)
    BY <1>0, <1>11, QueuedStays
  <2>. QED  BY <1>1, <1>11, <2>1
<1>12. CASE Visited
  <2>1. /\ UNCHANGED <<effects, active, due>> /\ Middle.at = Middle'.at /\ Middle'.kind = Middle.kind
        /\ Middle'.ev = Middle.ev /\ Middle'.todo = Middle.todo
    BY <1>12, VisitedIs DEF Visited, registry, queue, history, RetainCalls
  <2>2. Delivering(s, n)' <=> Delivering(s, n)
    BY <2>1 DEF Delivering
  <2>. QED  BY <1>11, <2>1, <2>2
<1>13. CASE EndRetain
  <2>1. UNCHANGED <<effects, active, due>> /\ Middle.todo = {} /\ Middle' = Idle
    BY <1>13, EndRetainIs DEF EndRetain, queue, history
  <2>2. ~Delivering(s, n) /\ ~Delivering(s, n)'
    BY <2>1, <1>3 DEF Delivering, Idle
  <2>. QED  BY <1>11, <2>1, <2>2
<1>14. ASSUME UNCHANGED <<effects, active, due>>, Middle.at # "retain", Middle'.at # "retain"
       PROVE  Goal
  BY <1>2, <1>3, <1>11, <1>14
<1>15. CASE TakeDropped
  <2>1. Middle = Idle /\ Middle'.at = "release"
    BY <1>15, TakeDroppedIs
  <2>. QED  BY <1>14, <1>15, <2>1 DEF Idle, TakeDropped, registry, queue, history
<1>16. CASE RunRelease
  <2>1. Middle \in ReleaseCalls /\ Middle' \in ReleaseCalls
    BY <1>16, RunReleaseIs
  <2>. QED  BY <1>14, <1>16, <2>1 DEF ReleaseCalls, RunRelease, registry, queue
<1>17. CASE DropEntity
  <2>1. Middle \in ReleaseCalls /\ Middle' \in ReleaseCalls
    BY <1>17, DropEntityIs
  <2>. QED  BY <1>14, <1>17, <2>1 DEF ReleaseCalls, DropEntity, queue, history
<1>18. CASE EndRelease
  <2>1. Middle \in ReleaseCalls /\ Middle' = Idle
    BY <1>18, EndReleaseIs
  <2>. QED  BY <1>14, <1>18, <2>1 DEF ReleaseCalls, Idle, EndRelease, registry, queue, history
<1>19. ASSUME NEW e \in Entities, Release(e)  PROVE Goal
  <2>1. Middle \in ReleaseCalls /\ Middle' \in ReleaseCalls
    BY <1>19, ReleaseIs
  <2>. QED  BY <1>14, <1>19, <2>1 DEF ReleaseCalls, Release, queue, history
<1>20. CASE Quiet /\ ~InRound /\ ~ApplyActivate /\ ~ApplyDefer /\ ~\E e \in Entities : Emit(e)
  <2>1. Middle' = Middle
    BY <1>20, QuietStays
  <2>2. due'[s] = due[s]
    BY <1>4, <1>20 DEF InRound
  <2>3. s \in active' <=> s \in active
    <3>1. CASE Adding
      <4>1. PICK k \in Kinds, e \in Entities, w \in Watchers : Added(k, e, w)
        BY <3>1 DEF Adding
      <4>2. PICK m : m \notin DOMAIN subs /\ (active' = active \cup {m} \/ UNCHANGED active)
        BY <4>1, AddedIs
      <4>. QED  BY <4>2
    <3>. QED  BY <1>20, <3>1, ActiveMoves
  <2>4. Delivering(s, n)' <=> Delivering(s, n)
    BY <2>1, <2>3 DEF Delivering
  <2>5. Queued(s, n)' <=> Queued(s, n)
    <3>1. CASE UNCHANGED effects
      BY <1>0, <2>3, <3>1, QueuedStays
    <3>2. ASSUME NEW f \in Effects, effects' = Append(effects, f), f.kind # "event"
          PROVE  Queued(s, n)' <=> Queued(s, n)
      BY <1>0, <2>3, <3>2, QueuedAfterAppend
    <3>3. \/ UNCHANGED effects
          \/ \E f \in Effects : effects' = Append(effects, f) /\ f.kind # "event"
      <4>1. \A t \in SubIds : ActivateOf(t).kind # "event"
        BY ActivateIsEffect
      <4>2. \A e \in Entities : NotifyOf(e).kind # "event"
        BY NotifyIsEffect
      <4>. QED  BY <1>20, <4>1, <4>2, QueueMoves DEF InRound
    <3>. QED  BY <3>1, <3>2, <3>3
  <2>. QED  BY <1>1, <2>2, <2>4, <2>5
<1>. QED  BY <1>5, <1>6, <1>7, <1>8, <1>9, <1>10, <1>12, <1>13, <1>15, <1>16, <1>17, <1>18, <1>19, <1>20,
             NextIsEither DEF InRound

LEMMA DueStays ==
  ASSUME Plain, Shaped, Filed, Released, Placed, Pending, Called, Activated, Serials, Due, Next
  PROVE  Due'
<1>1. \A s \in SubIds : s \notin DOMAIN subs' \/ subs'[s].kind # "event" => due'[s] = <<>>
  BY NothingElseDue
<1>2. \A s \in SubIds : Falling(s)'
  BY FallingStays
<1>3. ASSUME NEW s \in DOMAIN subs', subs'[s].kind = "event", Listening(s)', NEW n \in 1..MaxOps
      PROVE  n \in Given(s)' <=> Awaited(s, n)'
  <2>1. CASE s \notin DOMAIN subs
    BY <1>3, <2>1, NewIsDueNothing
  <2>2. CASE s \in DOMAIN subs
    <3>1. subs'[s] = subs[s] /\ Listening(s)
      BY <1>3, <2>2, SubsGrow, ListeningFades
    <3>2. n \in Given(s)' <=> Queued(s, n)' \/ Delivering(s, n)'
      BY <1>3, <2>2, <3>1, AwaitedStays
    <3>. QED  BY <3>2 DEF Awaited, Queued, Delivering
  <2>. QED  BY <2>1, <2>2
<1>. QED  BY <1>1, <1>2, <1>3 DEF Due, Falling

-----------------------------------------------------------------------------
(* The invariant *)

LEMMA EmptyTables == EmptyTable \in Tables
BY DEF EmptyTable, Tables, Entries

LEMMA InitIInv == Init => IInv
<1>. SUFFICES ASSUME Init  PROVE IInv
  OBVIOUS
<1>1. /\ status = [e \in Entities |-> "live"] /\ handles \in [Owners -> SUBSET Entities]
      /\ subs = <<>> /\ table = [k \in Kinds |-> EmptyTable]
      /\ active = {} /\ dropped = {} /\ held = {} /\ pendingUpdates = 0 /\ flushing = FALSE
      /\ effects = <<>> /\ notifs = {} /\ stack = <<>> /\ fuel = MaxOps
      /\ owed = {} /\ ran = {} /\ late = {} /\ due = [s \in SubIds |-> <<>>]
  BY DEF Init
<1>. HIDE DEF Init
<1>2. Plain
  <2>1. table \in [Kinds -> Tables]
    BY <1>1, EmptyTables
  <2>2. due \in [SubIds -> Seq(1..MaxOps)]
    BY <1>1
  <2>5. subs \in Seq(Subs) /\ effects \in Seq(Effects)
    BY <1>1
  <2>6. Len(subs) <= MaxSubs /\ fuel \in 0..MaxOps
    <3>1. Len(subs) = 0 /\ fuel = MaxOps
      BY <1>1
    <3>. QED  BY <3>1, BoundsAssumption
  <2>7. \A i \in DOMAIN effects : effects[i].kind = "activate" => effects[i].sub \in DOMAIN subs
    BY <1>1
  <2>3. /\ active \cup dropped \cup held \cup owed \cup ran \subseteq DOMAIN subs
        /\ held \cap dropped = {} /\ notifs \subseteq Entities
        /\ flushing \in BOOLEAN /\ late \subseteq Entities
    BY <1>1
  <2>4. /\ status \in [Entities -> Statuses] /\ handles \in [Owners -> SUBSET Entities]
        /\ \A e \in Entities : status[e] # "gone"
    BY <1>1 DEF Statuses
  <2>. QED  BY <2>1, <2>2, <2>3, <2>4, <2>5, <2>6, <2>7 DEF Plain
<1>3. Middle = Idle /\ Idle.at = "none"
  BY <1>1 DEF Middle, Idle
<1>4. Shaped
  <2>1. Counted = {}
    BY <1>1 DEF Counted
  <2>2. Framed
    BY <1>1 DEF Framed
  <2>3. Ordered /\ Apart
    <3>1. DOMAIN stack = {} /\ ~Running /\ flushing = FALSE
      BY <1>1 DEF Running
    <3>. QED  BY <3>1 DEF Ordered, Apart
  <2>4. CountRight
    BY <1>1, <2>1, FS_EmptySet DEF CountRight
  <2>. QED  BY <2>2, <2>3, <2>4 DEF Shaped
<1>5. Filed
  <2>1. \A k \in Kinds, e \in Entities : table[k].subs[e] = {} /\ table[k].entry[e] = "absent"
    BY <1>1 DEF EmptyTable
  <2>. QED  BY <1>3, <2>1 DEF Filed, Present
<1>6. Released
  BY <1>1, <1>3 DEF Released, InRelease
<1>7. Placed /\ Pending /\ Called /\ Activated
  BY <1>1 DEF Placed, Pending, Called, Activated
<1>8. Serials /\ Due
  BY <1>1, <1>3 DEF Serials, Due
<1>. QED  BY <1>2, <1>4, <1>5, <1>6, <1>7, <1>8 DEF IInv

LEMMA NextIInv ==
  ASSUME IInv, Next
  PROVE  IInv'
<1>1. /\ Plain /\ Shaped /\ Filed /\ Released /\ Placed
      /\ Pending /\ Called /\ Activated /\ Serials /\ Due
  BY DEF IInv
<1>2. Shaped'
  BY <1>1, ShapedStays
<1>3. Plain'
  BY <1>1, <1>2, PlainStays DEF Shaped, Ordered
<1>4. Filed' /\ Released'
  BY <1>1, FiledStays, ReleasedStays
<1>5. Placed' /\ Called'
  BY <1>1, PlacedStays, CalledStays
<1>6. Pending' /\ Activated'
  BY <1>1, PendingStays, ActivatedStays
<1>7. Serials' /\ Due'
  BY <1>1, SerialsStays, DueStays
<1>. QED  BY <1>2, <1>3, <1>4, <1>5, <1>6, <1>7 DEF IInv

LEMMA StutterIInv ==
  ASSUME IInv, UNCHANGED vars
  PROVE  IInv'
<1>1. /\ UNCHANGED <<status, handles, subs, table, active, dropped, held, effects, notifs,
                     pendingUpdates, flushing, stack, fuel, owed, due, ran, late>>
  BY DEF vars, registry, queue, updates, history
<1>2. Shaped' /\ Middle' = Middle
  BY <1>1, ShapedWithStack DEF IInv
<1>3. Plain'
  BY <1>1 DEF IInv, Plain
<1>4. Filed' /\ Released'
  BY <1>1, <1>2 DEF IInv, Filed, Released, Registered, Present, InRelease, Live
<1>5. Placed' /\ Called'
  BY <1>1, <1>2 DEF IInv, Placed, Called, Listening, Live
<1>6. Pending' /\ Activated'
  BY <1>1 DEF IInv, Pending, Activated, NotifyOf, ActivateOf
<1>7. Serials'
  BY <1>1, <1>2 DEF IInv, Serials
<1>8. Due'
  BY <1>1, <1>2 DEF IInv, Due, Listening, Live, Given, Awaited, Reaches, ActivateOf
<1>. QED  BY <1>2, <1>3, <1>4, <1>5, <1>6, <1>7, <1>8 DEF IInv

LEMMA Inductive == Spec => []IInv
BY InitIInv, NextIInv, StutterIInv, PTL DEF Spec

-----------------------------------------------------------------------------
(* At rest *)

LEMMA PushedIsRunning ==
  ASSUME Framed, NEW c, Push(c) \/ (Running /\ Become(c)) \/ (Running /\ \E b : Then(b, c))
  PROVE  Running'
<1>1. ASSUME NEW s \in Seq(Calls), stack' = Append(s, c)  PROVE stack' # <<>>
  BY <1>1
<1>2. CASE Push(c)
  BY <1>1, <1>2 DEF Push, Framed, Running
<1>3. CASE Running /\ Become(c)
  BY <1>1, <1>3, UnderIs DEF Become, Running
<1>4. CASE Running /\ \E b : Then(b, c)
  <2>1. PICK b : stack' = Append(Append(Under, b), c)
    BY <1>4 DEF Then
  <2>. QED  BY <2>1 DEF Running
<1>. QED  BY <1>2, <1>3, <1>4

(* The App comes to rest at the end of a flush only: the outermost update  *)
(* is the one that flushes.                                                *)
LEMMA ComesToRest ==
  ASSUME Plain, Shaped, Filed, Released, Next, ~Running'
  PROVE  \/ EndFlush
         \/ ~Running /\ \E e \in Entities : DropHandleOutside(e) \/ SubscribeOutside(e)
<1>. DEFINE Goal == \/ EndFlush
                    \/ ~Running /\ \E e \in Entities : DropHandleOutside(e) \/ SubscribeOutside(e)
<1>. SUFFICES ASSUME ~Goal  PROVE FALSE
  OBVIOUS
<1>0. Framed /\ Ordered /\ CountRight
  BY DEF Shaped
<1>1. ~(Running /\ UNCHANGED stack)
  BY DEF Running
<1>2. Middle'.at \notin Rounds
  BY DEF Middle, Running, Idle, Rounds
<1>3. ~Begin /\ ~ApplyDefer
  BY <1>0, PushedIsRunning DEF Begin, ApplyDefer
<1>4. ~\E e \in Entities : BeginUpdateEntity(e) \/ UpdateEntity(e)
  BY <1>0, PushedIsRunning DEF BeginUpdateEntity, UpdateEntity
<1>5. ~Finish
  <2>1. SUFFICES ASSUME Finish  PROVE FALSE
    OBVIOUS
  <2>2. Running /\ Top.at \in {"update", "lease"}
    BY <2>1 DEF Finish
  <2>3. CASE ~flushing /\ pendingUpdates = 1
    BY <1>0, <2>1, <2>2, <2>3, PushedIsRunning DEF Finish
  <2>4. CASE ~(~flushing /\ pendingUpdates = 1)
    <3>1. Pop
      BY <2>1, <2>4 DEF Finish
    <3>2. DOMAIN stack = {1} /\ Top = stack[1]
      <4>1. DOMAIN stack' = DOMAIN stack \ {Len(stack)} /\ stack' = <<>>
        BY <1>0, <2>2, <3>1, Popped DEF Running
      <4>2. DOMAIN stack = {Len(stack)} /\ 1 \in DOMAIN stack
        BY <1>0, <2>2, <4>1, TopIsCall
      <4>. QED  BY <1>0, <2>2, <4>2, TopIsCall
    <3>3. ~flushing
      BY <1>0, <2>2, <3>2 DEF Ordered
    <3>4. Counted = {1}
      BY <2>2, <3>2 DEF Counted
    <3>5. pendingUpdates = 1
      BY <1>0, <3>3, <3>4, FS_Singleton DEF CountRight
    <3>. QED  BY <2>4, <3>3, <3>5
  <2>. QED  BY <2>3, <2>4
<1>6. ~Return
  <2>1. SUFFICES ASSUME Return  PROVE FALSE
    OBVIOUS
  <2>2. Running /\ Top.at = "user" /\ Pop
    BY <2>1 DEF Return
  <2>3. DOMAIN stack = {1} /\ Top = stack[1]
    <3>1. DOMAIN stack' = DOMAIN stack \ {Len(stack)} /\ stack' = <<>>
      BY <1>0, <2>2, Popped DEF Running
    <3>2. DOMAIN stack = {Len(stack)} /\ 1 \in DOMAIN stack
      BY <1>0, <2>2, <3>1, TopIsCall
    <3>. QED  BY <1>0, <2>2, <3>2, TopIsCall
  <2>. QED  BY <1>0, <2>2, <2>3 DEF Ordered
<1>7. ~(\E e \in Entities : Notify(e) \/ Emit(e)) /\ ~Defer
  BY <1>1 DEF Notify, Emit, Defer, Operation
<1>8. ~(\E k \in Kinds, e \in Entities, w \in Watchers : Subscribe(k, e, w))
      /\ ~(\E s \in SubIds : DropSubscription(s) \/ Detach(s))
  BY <1>1 DEF Subscribe, DropSubscription, Detach, Operation
<1>9. ~(\E x \in Owners, e \in Entities : DropHandle(x, e)) /\ ~ApplyActivate
  BY <1>1 DEF DropHandle, ApplyActivate, Operation, Next1, Flushing
<1>10. ~(\E e \in Entities : DropHandleOutside(e) \/ SubscribeOutside(e)) /\ ~EndFlush
  BY DEF DropHandleOutside, SubscribeOutside
<1>11. ~ApplyNotify /\ ~ApplyEmit
  <2>1. ASSUME NEW kind, NEW e, NEW ev, Running, Retain(kind, e, ev)  PROVE FALSE
    BY <1>0, <1>1, <2>1, PushedIsRunning DEF Retain
  <2>. QED  BY <2>1 DEF ApplyNotify, ApplyEmit, Next1, Flushing
<1>12. ~TakeDropped /\ ~RunRelease
  <2>1. TakeDropped => Middle'.at = "release"
    BY TakeDroppedIs
  <2>2. RunRelease => Middle'.at = "release"
    BY RunReleaseIs DEF ReleaseCalls
  <2>. QED  BY <1>2, <2>1, <2>2 DEF Rounds
<1>13. ~(\E e \in Entities : Release(e)) /\ ~DropEntity
  BY <1>2, ReleaseIs, DropEntityIs DEF ReleaseCalls, Rounds
<1>14. ~Visit /\ ~Visited
  BY <1>2, VisitIs, VisitedIs DEF RetainCalls, Rounds
<1>15. ~EndRelease /\ ~EndRetain
  <2>1. ASSUME Running, Top.at \in Rounds, Pop  PROVE FALSE
    <3>1. Len(stack) = 2 /\ DOMAIN stack' = DOMAIN stack \ {Len(stack)} /\ DOMAIN stack = 1..Len(stack)
      BY <1>0, <2>1, TopOfRound, Popped, TopIsCall
    <3>2. 1 \in DOMAIN stack'
      BY <3>1
    <3>. QED  BY <3>2 DEF Running
  <2>. QED  BY <2>1 DEF EndRelease, EndRetain, Retaining, Rounds
<1>. QED  BY <1>3, <1>4, <1>5, <1>6, <1>7, <1>8, <1>9, <1>10, <1>11, <1>12, <1>13, <1>14, <1>15 DEF Next

AtRest ==
  ~Running => /\ \A i \in DOMAIN effects : effects[i].kind = "activate"
              /\ \A e \in Dead : e \in late

LEMMA AtRestStays ==
  ASSUME IInv, AtRest, Next
  PROVE  AtRest'
<1>. SUFFICES ASSUME ~Running'
              PROVE  /\ \A i \in DOMAIN effects' : effects'[i].kind = "activate"
                     /\ \A e \in Dead' : e \in late'
  BY DEF AtRest
<1>0. Plain /\ Shaped /\ Filed /\ Released
  BY DEF IInv
<1>1. ASSUME Aged, late' = late \cup NewlyDead, Dead \subseteq late
      PROVE  \A e \in Dead' : e \in late'
  BY <1>1 DEF Aged, Dead, NewlyDead
<1>2. CASE EndFlush
  <2>1. effects' = <<>> /\ Dead = {} /\ late' = late \cup NewlyDead
    BY <1>2 DEF EndFlush, queue
  <2>2. Aged
    BY <1>0, <1>2, BuriedIs DEF EndFlush, Plain
  <2>. QED  BY <1>1, <2>1, <2>2
<1>3. ASSUME ~Running, NEW e \in Entities, DropHandleOutside(e)
      PROVE  /\ \A i \in DOMAIN effects' : effects'[i].kind = "activate"
             /\ \A d \in Dead' : d \in late'
  <2>1. UNCHANGED effects /\ late' = late \cup NewlyDead
    BY <1>3 DEF DropHandleOutside, queue
  <2>2. Aged
    BY <1>0, <1>3, BuriedIs DEF DropHandleOutside, Plain
  <2>3. Dead \subseteq late
    BY <1>3 DEF AtRest
  <2>. QED  BY <1>1, <1>3, <2>1, <2>2, <2>3 DEF AtRest
<1>4. ASSUME ~Running, NEW e \in Entities, SubscribeOutside(e)
      PROVE  /\ \A i \in DOMAIN effects' : effects'[i].kind = "activate"
             /\ \A d \in Dead' : d \in late'
  <2>1. UNCHANGED <<status, late>> /\ Added("event", e, None) /\ "event" \in Kinds /\ None \in Watchers
    BY <1>4 DEF SubscribeOutside, history, Kinds, Watchers
  <2>2. PICK n \in SubIds : effects' = Append(effects, ActivateOf(n))
    BY <1>0, <2>1, AddedIs
  <2>3. \A i \in DOMAIN effects' : effects'[i].kind = "activate"
    BY <1>0, <1>4, <2>2, AppendedIs, ActivateIsEffect DEF AtRest
  <2>4. Dead' = Dead
    BY <2>1 DEF Dead
  <2>. QED  BY <1>4, <2>1, <2>3, <2>4 DEF AtRest
<1>. QED  BY <1>0, <1>2, <1>3, <1>4, ComesToRest

LEMMA RestInductive == Spec => [](IInv /\ AtRest)
<1>1. Init => AtRest
  BY DEF Init, AtRest, Dead
<1>2. IInv /\ AtRest /\ [Next]_vars => AtRest'
  BY AtRestStays DEF vars, queue, history, AtRest, Running, Dead
<1>. QED  BY <1>1, <1>2, Inductive, PTL DEF Spec

-----------------------------------------------------------------------------
(* The theorems *)

(* Types: of the calls in progress, and the count of the updates among     *)
(* them, which is what makes the outermost one flush.                      *)
THEOREM TypeCorrect == Spec => []TypeOK
<1>1. IInv => TypeOK
  BY DEF IInv, Plain, Shaped, Framed, CountRight, Counted, TypeOK, Subs
<1>. QED  BY <1>1, Inductive, PTL

(* Flushes do not nest, and no lease is held around one, however callbacks *)
(* update entities and updates end: no callback finds its watcher leased.  *)
THEOREM Unleased == Spec => []LeasesReturned
<1>1. IInv => LeasesReturned
  <2>. SUFFICES ASSUME IInv, NEW i \in DOMAIN stack, NEW j \in DOMAIN stack, i < j
                PROVE  /\ stack[j].at = "flush" => stack[i].at # "lease"
                       /\ stack[i].at = "lease" /\ stack[j].at = "lease" => stack[i].ent # stack[j].ent
                       /\ ~(stack[i].at = "flush" /\ stack[j].at = "flush")
    BY DEF LeasesReturned
  <2>1. i \in Nat \ {0} /\ j \in Nat
    BY DEF IInv, Shaped, Framed
  <2>2. i # j /\ stack[j].at # "flush"
    BY <2>1 DEF IInv, Shaped, Ordered
  <2>. QED  BY <2>2 DEF IInv, Shaped, Apart
<1>. QED  BY <1>1, Inductive, PTL

(* A pending notification has one effect in the queue, and no effect is    *)
(* left of one that is not pending.                                        *)
THEOREM OnePending == Spec => []Coalesced
<1>1. IInv => Coalesced
  <2>. SUFFICES ASSUME IInv, NEW e \in Entities
                PROVE  Cardinality({i \in DOMAIN effects : effects[i] = NotifyOf(e)})
                         = IF e \in notifs THEN 1 ELSE 0
    BY DEF Coalesced, NotifyOf
  <2>. DEFINE S == {i \in DOMAIN effects : effects[i] = NotifyOf(e)}
  <2>1. CASE e \notin notifs
    <3>1. S = {}
      BY <2>1 DEF IInv, Pending
    <3>. QED  BY <2>1, <3>1, FS_EmptySet
  <2>2. CASE e \in notifs
    <3>1. PICK i \in DOMAIN effects : effects[i] = NotifyOf(e)
      BY <2>2 DEF IInv, Pending
    <3>2. \A j \in S : j = i
      BY <3>1, NotifyIsEffect DEF IInv, Pending
    <3>3. S = {i}
      BY <3>1, <3>2
    <3>. QED  BY <2>2, <3>3, FS_Singleton
  <2>. QED  BY <2>1, <2>2
<1>. QED  BY <1>1, Inductive, PTL

LEMMA RestIs ==
  ASSUME IInv, AtRest, ~Running
  PROVE  /\ Middle = Idle /\ Idle.at = "none" /\ notifs = {} /\ ~flushing
         /\ \A i \in DOMAIN effects : effects[i].kind = "activate"
<1>1. Middle = Idle /\ Idle.at = "none"
  BY DEF Middle, Running, Idle
<1>2. ~flushing /\ \A i \in DOMAIN effects : effects[i].kind = "activate"
  BY DEF IInv, Shaped, Ordered, AtRest
<1>3. notifs = {}
  <2>1. ASSUME NEW e \in notifs  PROVE FALSE
    <3>1. e \in Entities
      BY DEF IInv, Plain
    <3>2. PICK i \in DOMAIN effects : effects[i] = NotifyOf(e)
      BY <3>1 DEF IInv, Pending
    <3>. QED  BY <1>2, <3>1, <3>2, NotifyIsEffect
  <2>. QED  BY <2>1
<1>. QED  BY <1>1, <1>2, <1>3

(* An App at rest has flushed: no notification, event or deferred callback *)
(* is left, no release is half done, no key of a table is taken, and the   *)
(* next update will be an outermost one.                                   *)
THEOREM RestsFlushed == Spec => []Quiescent
<1>1. IInv /\ AtRest => Quiescent
  <2>. SUFFICES ASSUME IInv, AtRest, ~Running
                PROVE  /\ notifs = {} /\ \A i \in DOMAIN effects : effects[i].kind = "activate"
                       /\ ~flushing /\ pendingUpdates = 0
                       /\ \A e \in Entities : status[e] # "releasing" /\ (e \in Dead => e \in late)
                       /\ \A k \in Kinds, e \in Entities : table[k].entry[e] # "taken"
    BY DEF Quiescent
  <2>1. pendingUpdates = 0
    <3>1. Counted = {}
      BY DEF Counted, Running
    <3>. QED  BY <3>1, RestIs, FS_EmptySet DEF IInv, Shaped, CountRight
  <2>2. \A e \in Entities : status[e] # "releasing"
    BY RestIs DEF IInv, Released, InRelease
  <2>3. \A k \in Kinds, e \in Entities : table[k].entry[e] # "taken"
    BY RestIs, NoneTaken DEF IInv
  <2>. QED  BY <2>1, <2>2, <2>3, RestIs DEF AtRest
<1>. QED  BY <1>1, RestInductive, PTL

(* An observer that was active when its entity was notified has been       *)
(* called by the time the App rests, unless it is not listening any more.  *)
THEOREM ObserversHear == Spec => []ObserversNotified
<1>1. IInv /\ AtRest => ObserversNotified
  BY RestIs DEF ObserversNotified, IInv, Called
<1>. QED  BY <1>1, RestInductive, PTL

(* A listener has been given every event emitted since it subscribed by    *)
(* the time the App rests, unless it is not listening any more.            *)
THEOREM AllDelivered == Spec => []EventsDelivered
<1>1. IInv /\ AtRest => EventsDelivered
  <2>. SUFFICES ASSUME IInv, AtRest, ~Running, NEW s \in DOMAIN subs, Listening(s)
                PROVE  due[s] = <<>>
    BY DEF EventsDelivered
  <2>1. s \in SubIds
    BY SubsAre DEF IInv
  <2>2. CASE subs[s].kind # "event"
    BY <2>1, <2>2 DEF IInv, Due
  <2>3. CASE subs[s].kind = "event"
    <3>1. \A n \in 1..MaxOps : ~Awaited(s, n)
      BY RestIs DEF Awaited, Reaches
    <3>2. \A n \in 1..MaxOps : n \notin Given(s)
      BY <2>3, <3>1 DEF IInv, Due
    <3>3. /\ due[s] \in Seq(1..MaxOps) /\ DOMAIN due[s] = 1..Len(due[s])
          /\ \A i \in DOMAIN due[s] : due[s][i] \in 1..MaxOps
      BY <2>1, DueSeq DEF IInv
    <3>4. DOMAIN due[s] = {}
      BY <3>2, <3>3 DEF Given
    <3>. QED  BY <3>3, <3>4
  <2>. QED  BY <2>2, <2>3
<1>. QED  BY <1>1, RestInductive, PTL

(* A listener is given the events in the order they were emitted, each     *)
(* once, and none from before it subscribed.                               *)
THEOREM InOrder == Spec => EventsInOrder
<1>1. IInv /\ [Next]_vars =>
        [Retaining /\ Top.kind = "event" /\ Top.run = 0 /\ Len(stack') > Len(stack)
           => LET s == stack'[Len(stack)].run IN
                due[s] # <<>> /\ Head(due[s]) = Top.ev]_vars
  <2>. SUFFICES ASSUME IInv, Next, Retaining, Top.kind = "event", Top.run = 0, Len(stack') > Len(stack)
                PROVE  LET s == stack'[Len(stack)].run IN
                         due[s] # <<>> /\ Head(due[s]) = Top.ev
    OBVIOUS
  <2>0. /\ Plain /\ Shaped /\ Filed /\ Serials /\ Due /\ Framed
        /\ Running /\ Top.at = "retain" /\ Top \in RetainCalls /\ Len(stack) \in Nat
    BY TopIsCall, TopRetains DEF IInv, Shaped, Retaining
  <2>1. Visit \/ Visited \/ EndRetain
    BY <2>0 DEF Next, Begin, BeginUpdateEntity, DropHandleOutside, SubscribeOutside, Finish, Return,
                Operation, UpdateEntity, Notify, Emit, Defer, Subscribe, DropSubscription, Detach,
                DropHandle, Flushing, Next1, TakeDropped, Release, Releasing, RunRelease, DropEntity,
                EndRelease, ApplyNotify, ApplyEmit, ApplyActivate, ApplyDefer, EndFlush
  <2>2. ~Visited
    <3>1. SUFFICES ASSUME Visited  PROVE FALSE
      OBVIOUS
    <3>. QED  BY <2>0, <3>1 DEF Visited, Retaining
  <2>3. ~EndRetain
    <3>1. SUFFICES ASSUME EndRetain  PROVE FALSE
      OBVIOUS
    <3>2. Len(stack') = Len(stack) - 1
      BY <2>0, <3>1, UnderIs DEF EndRetain, Pop
    <3>. QED  BY <2>0, <3>2
  <2>4. PICK s \in Middle.todo :
          s \in active /\ Listening(s) /\ Top = Middle /\ stack'[Len(stack)] = Middle' /\ Middle'.run = s
    BY <2>0, <2>1, <2>2, <2>3, VisitIs
  <2>5. due[s] # <<>> /\ Head(due[s]) = Middle.ev
    BY <2>0, <2>4, DeliveredIsFirst
  <2>. QED  BY <2>4, <2>5
<1>. QED  BY <1>1, Inductive, PTL DEF EventsInOrder, Spec

(* The release callbacks of an entity run after its last handle is gone    *)
(* and before its value is, none is forgotten, and no subscriber stays     *)
(* behind.                                                                 *)
THEOREM ReleasedWhole == Spec => []ReleaseIsComplete
<1>1. IInv => ReleaseIsComplete
  <2>. SUFFICES ASSUME IInv  PROVE ReleaseIsComplete
    OBVIOUS
  <2>1. \A e \in Entities : status[e] = "gone" => \A k \in Kinds : table[k].entry[e] = "absent"
    BY DEF IInv, Released
  <2>2. ASSUME NEW s \in DOMAIN subs, subs[s].kind = "release", status[subs[s].key] = "gone"
        PROVE  s \in ran \cup dropped \/ ~Live(subs[s].watcher)
    <3>1. subs[s].key \in Entities /\ "release" \in Kinds
      BY SubsAre DEF IInv, Subs, Kinds
    <3>2. table["release"].subs[subs[s].key] = {}
      BY <2>1, <2>2, <3>1 DEF IInv, Filed, Present
    <3>3. ~(Middle.at = "release" /\ s \in Middle.subs)
      <4>1. Middle.at = "release" /\ s \in Middle.subs => InRelease(subs[s].key)
        BY DEF IInv, Released, InRelease
      <4>. QED  BY <2>2, <3>1, <4>1 DEF IInv, Released
    <3>. QED  BY <2>2, <3>2, <3>3 DEF IInv, Released
  <2>. QED  BY <2>1, <2>2 DEF IInv, Released, ReleaseIsComplete
<1>. QED  BY <1>1, Inductive, PTL

=============================================================================
