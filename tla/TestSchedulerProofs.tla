------------------------- MODULE TestSchedulerProofs -------------------------
(***************************************************************************)
(* Theorems about TestScheduler for any sessions and futures, any numbers  *)
(* of runnables, timers and operations, and any nesting of blocks: the     *)
(* order of a session, what waits while it is blocked, when time passes,   *)
(* and that a parked thread is woken.                                      *)
(***************************************************************************)
EXTENDS TestScheduler, Integers, FiniteSetTheorems, SequenceTheorems, WellFoundedInduction, TLAPS

Pcs == {"poll", "looked", "step", "check", "park"}
BlockCalls ==
  [at : {"block"}, of : Owners, fut : Futures, limited : BOOLEAN, ticks : Int,
   pc : Pcs, stepped : {"none", "some", "nothing"}, waker : BOOLEAN, awoken : BOOLEAN]
TaskCalls == [at : {"task"}, of : Owners]
AdvanceCalls == [at : {"advance"}, to : Nat]
Calls == {Test, Run} \cup TaskCalls \cup AdvanceCalls \cup BlockCalls
Timers == [when : Nat, wakes : Futures \cup Owners]

(* What is not about the stack. *)
Plain ==
  /\ parking \in BOOLEAN /\ unparked \in BOOLEAN
  /\ session \in Seq(Owners) /\ runnables \in Seq(1..Len(session))
  /\ last \in [Owners -> 0..Len(session)]
  /\ timers \in Seq(Timers) /\ elapsed \in Seq(Futures \cup Owners)
  /\ clock \in Nat

(* A block with a call above it is in its poll or has just made a step; a  *)
(* move of the clock runs what there is to run.                            *)
Beneath(c, d) ==
  /\ c.at = "block" => c.pc \in {"poll", "looked"} \/ (c.pc = "step" /\ c.stepped = "some")
  /\ c.at = "advance" => d.at = "run"
Piled(st) ==
  /\ st \in Seq(Calls) /\ st # <<>> /\ st[1] = Test
  /\ \A i \in 1..Len(st) - 1 : Beneath(st[i], st[i + 1])

(* The blocked sessions are those of the blocks on the stack, in order, of *)
(* which none has a runnable above its block.                              *)
Named(c) == c.at = "block" /\ c.of # Background
MatchedAt(st, bl, pos) ==
  /\ pos \in [DOMAIN bl -> DOMAIN st]
  /\ \A k \in DOMAIN bl : Named(st[pos[k]]) /\ st[pos[k]].of = bl[k]
  /\ \A j, k \in DOMAIN bl : j < k => pos[j] < pos[k]
  /\ \A i \in DOMAIN st : Named(st[i]) => \E k \in DOMAIN bl : pos[k] = i
Matched(st, bl) == bl \in Seq(Sessions) /\ \E pos : MatchedAt(st, bl, pos)
Waits(st) ==
  \A i, j \in DOMAIN st : i < j /\ Named(st[i]) /\ st[j].at = "task" => st[j].of # st[i].of

(* The runnables of a session are queued in the order they were scheduled, *)
(* after the latest that has run.                                          *)
Sorted(ses, run, las) ==
  /\ \A i, j \in DOMAIN run :
       i < j /\ ses[run[i]] = ses[run[j]] /\ ses[run[i]] # Background => run[i] < run[j]
  /\ \A i \in DOMAIN run : ses[run[i]] # Background => las[ses[run[i]]] < run[i]

(* Without parking, a call that is about to move the clock, or to give up, *)
(* has found nothing to do.                                                *)
AtRest(c) == c.at = "advance" \/ (c.at = "block" /\ c.pc = "check" /\ c.stepped = "nothing")
Idle == ~parking /\ AtRest(Top) => elapsed = <<>> /\ NoStep(FALSE)
Parks == Top.at = "block" /\ Top.pc = "park" => parking
Steps == Top.at = "block" /\ Top.pc = "step" => Top.stepped # "nothing"

(* A block whose future is ready after it has looked, and left its waker,   *)
(* will poll again before it parks, or will not stay parked: it has         *)
(* stepped, has been woken, or the thread has been unparked or will be, but *)
(* for a wake that a nested block has taken.  Until the poll is over it has *)
(* been woken or somebody is about to.                                      *)
Heeds(c, may, r, u, w, g) ==
  c.at = "block" /\ c.pc # "poll" =>
    /\ c.waker
    /\ c.fut \in r =>
         /\ \/ u \/ <<c.fut, "unpark">> \in w \/ c.fut \in g
            \/ c.pc # "park" /\ c.awoken
            \/ c.pc \in {"step", "check"} /\ c.stepped = "some"
         /\ ~may => c.awoken
         /\ c.pc = "looked" => c.awoken \/ <<c.fut, "unpark">> \in w \/ <<c.fut, "awake">> \in w
HeededIn(st, may, r, u, w, g) == \A i \in DOMAIN st : Heeds(st[i], may, r, u, w, g)
Heeded == HeededIn(stack, parking, ready, unparked, waking, robbed)

Shaped(st, bl) == Piled(st) /\ Matched(st, bl) /\ Waits(st)

IInv ==
  /\ Plain /\ Shaped(stack, blocked)
  /\ Sorted(session, runnables, last)
  /\ Idle /\ Parks /\ Steps /\ Heeded

-----------------------------------------------------------------------------
(* Sequences *)

(* The greatest of a finite set of numbers: the one with the least to      *)
(* follow, by inclusion.                                                   *)
LEMMA MaxIsGreatest ==
  ASSUME NEW S \in SUBSET Nat, S # {}, IsFiniteSet(S)
  PROVE  Max(S) \in S /\ \A y \in S : y <= Max(S)
<1>. DEFINE Beyond(x) == {y \in S : x < y}
<1>2. IsWellFoundedOn(StrictSubsetOrdering(S), SUBSET S)
  BY FS_StrictSubsetOrderingWellFounded, FS_FiniteSubsetsOfFinite
<1>. DEFINE T == {Beyond(x) : x \in S}
<1>3. PICK B \in T : \A C \in T : ~ (<<C, B>> \in StrictSubsetOrdering(S))
  <2>1. T \subseteq SUBSET S /\ T # {}
    OBVIOUS
  <2>. HIDE DEF T
  <2>. QED  BY <1>2, <2>1, WFMin
<1>4. PICK x \in S : B = Beyond(x)
  BY <1>3
<1>5. \A y \in S : x >= y
  <2>2. SUFFICES ASSUME NEW y \in S, x < y  PROVE FALSE
    OBVIOUS
  <2>3. Beyond(y) \subseteq Beyond(x) /\ Beyond(y) # Beyond(x)
    <3>1. \A z \in S : y < z => x < z
      BY <2>2
    <3>2. y \in Beyond(x) /\ y \notin Beyond(y)
      BY <2>2
    <3>. QED  BY <3>1, <3>2
  <2>4. Beyond(y) \subseteq S /\ Beyond(x) \subseteq S /\ Beyond(y) \in T
    OBVIOUS
  <2>5. <<Beyond(y), B>> \in StrictSubsetOrdering(S)
    <3>. HIDE DEF Beyond
    <3>. QED  BY <1>4, <2>3, <2>4 DEF StrictSubsetOrdering
  <2>. QED  BY <1>3, <2>4, <2>5
<1>. QED  BY <1>5 DEF Max

LEMMA LeastExists ==
  ASSUME NEW S \in SUBSET Nat, S # {}, IsFiniteSet(S)
  PROVE  \E x \in S : \A y \in S : x <= y
<1>. DEFINE Before(x) == {y \in S : y < x}
<1>1. IsWellFoundedOn(StrictSubsetOrdering(S), SUBSET S)
  BY FS_StrictSubsetOrderingWellFounded, FS_FiniteSubsetsOfFinite
<1>. DEFINE T == {Before(x) : x \in S}
<1>2. PICK B \in T : \A C \in T : ~ (<<C, B>> \in StrictSubsetOrdering(S))
  <2>1. T \subseteq SUBSET S /\ T # {}
    OBVIOUS
  <2>. HIDE DEF T
  <2>. QED  BY <1>1, <2>1, WFMin
<1>3. PICK x \in S : B = Before(x)
  BY <1>2
<1>4. SUFFICES ASSUME NEW y \in S, y < x  PROVE FALSE
  OBVIOUS
<1>5. Before(y) \subseteq Before(x) /\ Before(y) # Before(x)
  <2>1. \A z \in S : z < y => z < x
    BY <1>4
  <2>2. y \in Before(x) /\ y \notin Before(y)
    BY <1>4
  <2>. QED  BY <2>1, <2>2
<1>6. Before(y) \subseteq S /\ Before(x) \subseteq S /\ Before(y) \in T
  OBVIOUS
<1>7. <<Before(y), B>> \in StrictSubsetOrdering(S)
  <2>. HIDE DEF Before
  <2>. QED  BY <1>3, <1>5, <1>6 DEF StrictSubsetOrdering
<1>. QED  BY <1>2, <1>6, <1>7

(* Positions are finite sets of numbers, zero added or not. *)
LEMMA PositionsAreFinite ==
  ASSUME NEW n \in Nat, NEW S \in SUBSET (0..n)
  PROVE  IsFiniteSet(S) /\ S \in SUBSET Nat
<1>1. IsFiniteSet(0..n)
  BY FS_Interval
<1>2. S \subseteq 0..n /\ S \subseteq Nat
  OBVIOUS
<1>. QED  BY <1>1, <1>2, FS_Subset

(* The parts of a sequence before and after a place. *)
LEMMA PartsAre ==
  ASSUME NEW T, NEW s \in Seq(T), NEW i \in 1..Len(s) + 1
  PROVE  /\ SubSeq(s, 1, i - 1) \in Seq(T) /\ Len(SubSeq(s, 1, i - 1)) = i - 1
         /\ \A j \in 1..i - 1 : SubSeq(s, 1, i - 1)[j] = s[j]
         /\ SubSeq(s, i, Len(s)) \in Seq(T) /\ Len(SubSeq(s, i, Len(s))) = Len(s) - i + 1
         /\ \A j \in 1..Len(s) - i + 1 : SubSeq(s, i, Len(s))[j] = s[i + j - 1]
<1>1. /\ 1 \in Int /\ i \in Int /\ i - 1 \in Int /\ Len(s) \in Int
      /\ \A j \in 1..i - 1 : s[j] \in T
      /\ \A j \in i..Len(s) : s[j] \in T
  OBVIOUS
<1>2. /\ SubSeq(s, 1, i - 1) \in Seq(T)
      /\ Len(SubSeq(s, 1, i - 1)) = IF 1 <= i - 1 THEN i - 1 - 1 + 1 ELSE 0
      /\ \A j \in 1..i - 1 - 1 + 1 : SubSeq(s, 1, i - 1)[j] = s[1 + j - 1]
  BY <1>1, SubSeqProperties
<1>3. /\ SubSeq(s, i, Len(s)) \in Seq(T)
      /\ Len(SubSeq(s, i, Len(s))) = IF i <= Len(s) THEN Len(s) - i + 1 ELSE 0
      /\ \A j \in 1..Len(s) - i + 1 : SubSeq(s, i, Len(s))[j] = s[i + j - 1]
  BY <1>1, SubSeqProperties
<1>4. /\ i - 1 - 1 + 1 = i - 1 /\ \A j \in 1..i - 1 : 1 + j - 1 = j
      /\ (IF 1 <= i - 1 THEN i - 1 - 1 + 1 ELSE 0) = i - 1
      /\ (IF i <= Len(s) THEN Len(s) - i + 1 ELSE 0) = Len(s) - i + 1
  BY <1>1
<1>. QED  BY <1>2, <1>3, <1>4

LEMMA Inserted ==
  ASSUME NEW T, NEW s \in Seq(T), NEW e \in T, NEW i \in 1..Len(s) + 1
  PROVE  /\ InsertAt(s, i, e) \in Seq(T) /\ Len(InsertAt(s, i, e)) = Len(s) + 1
         /\ \A j \in 1..i - 1 : InsertAt(s, i, e)[j] = s[j]
         /\ InsertAt(s, i, e)[i] = e
         /\ \A j \in i + 1..Len(s) + 1 : InsertAt(s, i, e)[j] = s[j - 1]
<1>. DEFINE a == SubSeq(s, 1, i - 1)
            b == SubSeq(s, i, Len(s))
            m == a \o <<e>>
<1>1. /\ a \in Seq(T) /\ Len(a) = i - 1 /\ \A j \in 1..i - 1 : a[j] = s[j]
      /\ b \in Seq(T) /\ Len(b) = Len(s) - i + 1
      /\ \A j \in 1..Len(s) - i + 1 : b[j] = s[i + j - 1]
  BY PartsAre
<1>2. InsertAt(s, i, e) = m \o b
  BY DEF InsertAt
<1>. HIDE DEF a, b
<1>3. <<e>> \in Seq(T) /\ Len(<<e>>) = 1 /\ <<e>>[1] = e
  OBVIOUS
<1>4. /\ m \in Seq(T) /\ Len(m) = i
      /\ \A j \in 1..i : m[j] = IF j <= i - 1 THEN a[j] ELSE <<e>>[j - (i - 1)]
  <2>1. /\ m \in Seq(T) /\ Len(m) = Len(a) + Len(<<e>>)
        /\ \A j \in 1..Len(a) + Len(<<e>>) : m[j] = IF j <= Len(a) THEN a[j] ELSE <<e>>[j - Len(a)]
    BY <1>1, <1>3, ConcatProperties
  <2>2. Len(a) + Len(<<e>>) = i
    BY <1>1, <1>3
  <2>. QED  BY <1>1, <2>1, <2>2
<1>5. (\A j \in 1..i - 1 : m[j] = s[j]) /\ m[i] = e
  <2>1. i - (i - 1) = 1 /\ ~ (i <= i - 1) /\ i \in 1..i /\ \A j \in 1..i - 1 : j \in 1..i /\ j <= i - 1
    OBVIOUS
  <2>. QED  BY <1>1, <1>3, <1>4, <2>1
<1>. HIDE DEF m
<1>6. /\ m \o b \in Seq(T) /\ Len(m \o b) = Len(m) + Len(b)
      /\ \A j \in 1..Len(m) + Len(b) : (m \o b)[j] = IF j <= Len(m) THEN m[j] ELSE b[j - Len(m)]
  <2>1. m \in Seq(T) /\ b \in Seq(T)
    BY <1>1, <1>4
  <2>. QED  BY <2>1, ConcatProperties
<1>7. Len(m) + Len(b) = Len(s) + 1 /\ Len(s) \in Nat
  BY <1>1, <1>4
<1>8. \A j \in i + 1..Len(s) + 1 : /\ j \in 1..Len(s) + 1 /\ ~ (j <= i)
                                   /\ j - i \in 1..Len(s) - i + 1 /\ i + (j - i) - 1 = j - 1
  BY <1>7
<1>9. \A j \in i + 1..Len(s) + 1 : (m \o b)[j] = s[j - 1]
  BY <1>1, <1>4, <1>6, <1>7, <1>8
<1>10. \A j \in 1..i : (m \o b)[j] = m[j]
  <2>1. \A j \in 1..i : j \in 1..Len(s) + 1 /\ j <= i
    BY <1>7
  <2>. QED  BY <1>4, <1>6, <1>7, <2>1
<1>11. i \in 1..i /\ \A j \in 1..i - 1 : j \in 1..i
  OBVIOUS
<1>. QED  BY <1>2, <1>5, <1>6, <1>7, <1>9, <1>10, <1>11

LEMMA Removed ==
  ASSUME NEW T, NEW s \in Seq(T), NEW i \in 1..Len(s)
  PROVE  /\ RemoveAt(s, i) \in Seq(T) /\ Len(RemoveAt(s, i)) = Len(s) - 1
         /\ \A j \in 1..i - 1 : RemoveAt(s, i)[j] = s[j]
         /\ \A j \in i..Len(s) - 1 : RemoveAt(s, i)[j] = s[j + 1]
<1>. DEFINE a == SubSeq(s, 1, i - 1)
            b == SubSeq(s, i + 1, Len(s))
<1>1. /\ a \in Seq(T) /\ Len(a) = i - 1 /\ \A j \in 1..i - 1 : a[j] = s[j]
  <2>1. i \in 1..Len(s) + 1
    OBVIOUS
  <2>. QED  BY <2>1, PartsAre
<1>2. /\ b \in Seq(T) /\ Len(b) = Len(s) - i
      /\ \A j \in 1..Len(s) - i : b[j] = s[i + j]
  <2>. DEFINE k == i + 1
  <2>1. k \in 1..Len(s) + 1 /\ Len(s) - k + 1 = Len(s) - i /\ \A j \in 1..Len(s) - i : k + j - 1 = i + j
    OBVIOUS
  <2>. HIDE DEF k
  <2>2. /\ SubSeq(s, k, Len(s)) \in Seq(T) /\ Len(SubSeq(s, k, Len(s))) = Len(s) - k + 1
        /\ \A j \in 1..Len(s) - k + 1 : SubSeq(s, k, Len(s))[j] = s[k + j - 1]
    BY <2>1, PartsAre
  <2>3. b = SubSeq(s, k, Len(s))
    BY DEF k
  <2>. QED  BY <2>1, <2>2, <2>3
<1>3. RemoveAt(s, i) = a \o b
  BY DEF RemoveAt
<1>. HIDE DEF a, b
<1>4. /\ a \o b \in Seq(T) /\ Len(a \o b) = Len(a) + Len(b)
      /\ \A j \in 1..Len(a) + Len(b) : (a \o b)[j] = IF j <= Len(a) THEN a[j] ELSE b[j - Len(a)]
  BY <1>1, <1>2, ConcatProperties
<1>5. Len(a) + Len(b) = Len(s) - 1 /\ Len(s) \in Nat
  BY <1>1, <1>2
<1>6. \A j \in i..Len(s) - 1 : /\ j \in 1..Len(s) - 1 /\ ~ (j <= i - 1)
                               /\ j - (i - 1) \in 1..Len(s) - i /\ i + (j - (i - 1)) = j + 1
  BY <1>5
<1>7. ASSUME NEW j \in i..Len(s) - 1  PROVE (a \o b)[j] = s[j + 1]
  <2>1. (a \o b)[j] = b[j - (i - 1)]
    BY <1>1, <1>4, <1>5, <1>6
  <2>2. b[j - (i - 1)] = s[i + (j - (i - 1))]
    BY <1>2, <1>6
  <2>. QED  BY <1>6, <2>1, <2>2
<1>8. \A j \in 1..i - 1 : j \in 1..Len(s) - 1 /\ j <= i - 1
  BY <1>5
<1>9. \A j \in 1..i - 1 : (a \o b)[j] = s[j]
  BY <1>1, <1>4, <1>5, <1>8
<1>. QED  BY <1>3, <1>4, <1>5, <1>7, <1>9

-----------------------------------------------------------------------------
(* The stack *)

LEMMA CallIs ==
  ASSUME NEW c \in Calls
  PROVE  /\ c.at \in {"test", "run", "task", "advance", "block"}
         /\ c.at = "test" => c = Test
         /\ c.at = "task" => c \in TaskCalls
         /\ c.at = "advance" => c \in AdvanceCalls
         /\ c.at = "block" => c \in BlockCalls
BY DEF Calls, Test, Run, TaskCalls, AdvanceCalls, BlockCalls

LEMMA CallsMade ==
  /\ Test \in Calls /\ Run \in Calls /\ Run.at = "run"
  /\ \A s \in Owners : Task(s) \in Calls /\ Task(s).at = "task" /\ Task(s).of = s
  /\ \A t \in Nat : AdvanceTo(t) \in Calls /\ AdvanceTo(t).at = "advance"
BY DEF Calls, Test, Run, Task, AdvanceTo, TaskCalls, AdvanceCalls

Cut(st) == SubSeq(st, 1, Len(st) - 1)
Turned(st, c) == Append(Cut(st), c)

LEMMA CutIs ==
  ASSUME NEW st \in Seq(Calls), st # <<>>
  PROVE  /\ Len(st) \in Nat \ {0} /\ DOMAIN st = 1..Len(st)
         /\ Cut(st) \in Seq(Calls) /\ Len(Cut(st)) = Len(st) - 1
         /\ DOMAIN Cut(st) = 1..Len(st) - 1
         /\ \A i \in 1..Len(st) - 1 : Cut(st)[i] = st[i]
<1>1. Len(st) \in Nat \ {0} /\ Len(st) \in 1..Len(st) + 1
  OBVIOUS
<1>2. /\ Cut(st) \in Seq(Calls) /\ Len(Cut(st)) = Len(st) - 1
      /\ \A i \in 1..Len(st) - 1 : Cut(st)[i] = st[i]
  <2>. DEFINE n == Len(st)
  <2>1. n \in 1..Len(st) + 1
    BY <1>1
  <2>. HIDE DEF n
  <2>2. /\ SubSeq(st, 1, n - 1) \in Seq(Calls) /\ Len(SubSeq(st, 1, n - 1)) = n - 1
        /\ \A i \in 1..n - 1 : SubSeq(st, 1, n - 1)[i] = st[i]
    BY <2>1, PartsAre
  <2>. QED  BY <2>2 DEF Cut, n
<1>. HIDE DEF Cut
<1>3. DOMAIN Cut(st) = 1..Len(Cut(st)) /\ DOMAIN st = 1..Len(st)
  BY <1>2
<1>. QED  BY <1>1, <1>2, <1>3

LEMMA TopIs ==
  ASSUME Piled(stack)
  PROVE  /\ Len(stack) \in Nat \ {0} /\ DOMAIN stack = 1..Len(stack)
         /\ Len(stack) \in DOMAIN stack
         /\ Top = stack[Len(stack)] /\ Top \in Calls
         /\ Under = Cut(stack)
<1>1. stack \in Seq(Calls) /\ stack # <<>>
  BY DEF Piled
<1>. QED  BY <1>1 DEF Top, Under, Cut

LEMMA PushedIs ==
  ASSUME NEW st \in Seq(Calls), NEW c \in Calls
  PROVE  /\ Append(st, c) \in Seq(Calls) /\ Len(Append(st, c)) = Len(st) + 1 /\ Len(st) \in Nat
         /\ DOMAIN Append(st, c) = 1..Len(st) + 1
         /\ \A i \in 1..Len(st) : Append(st, c)[i] = st[i]
         /\ Append(st, c)[Len(st) + 1] = c
OBVIOUS

LEMMA TurnedIs ==
  ASSUME NEW st \in Seq(Calls), st # <<>>, NEW c \in Calls
  PROVE  /\ Turned(st, c) \in Seq(Calls) /\ Len(Turned(st, c)) = Len(st)
         /\ DOMAIN Turned(st, c) = 1..Len(st)
         /\ \A i \in 1..Len(st) - 1 : Turned(st, c)[i] = st[i]
         /\ Turned(st, c)[Len(st)] = c
<1>1. /\ Len(st) \in Nat \ {0} /\ Cut(st) \in Seq(Calls) /\ Len(Cut(st)) = Len(st) - 1
      /\ \A i \in 1..Len(st) - 1 : Cut(st)[i] = st[i]
  BY CutIs
<1>. DEFINE s == Cut(st)
<1>2. /\ Append(s, c) \in Seq(Calls) /\ Len(Append(s, c)) = Len(s) + 1
      /\ DOMAIN Append(s, c) = 1..Len(s) + 1
      /\ \A i \in 1..Len(s) : Append(s, c)[i] = s[i]
      /\ Append(s, c)[Len(s) + 1] = c
  BY <1>1, PushedIs
<1>3. Len(s) + 1 = Len(st)
  BY <1>1
<1>. QED  BY <1>1, <1>2, <1>3 DEF Turned

(* The calls of a stack, as far as which sessions they block or run. *)
Alike(st, ts) ==
  /\ DOMAIN ts = DOMAIN st
  /\ \A i \in DOMAIN st : /\ ts[i].at = st[i].at
                          /\ st[i].at \in {"block", "task"} => ts[i].of = st[i].of

LEMMA AlikeKeeps ==
  ASSUME NEW st, NEW ts, NEW bl, Alike(st, ts), Matched(st, bl), Waits(st)
  PROVE  Matched(ts, bl) /\ Waits(ts)
<1>1. \A i \in DOMAIN st : Named(ts[i]) = Named(st[i])
  BY DEF Alike, Named
<1>2. PICK pos : MatchedAt(st, bl, pos)
  BY DEF Matched
<1>3. MatchedAt(ts, bl, pos)
  <2>1. \A k \in DOMAIN bl : pos[k] \in DOMAIN st /\ Named(st[pos[k]]) /\ st[pos[k]].of = bl[k]
    BY <1>2 DEF MatchedAt
  <2>2. \A k \in DOMAIN bl : Named(ts[pos[k]]) /\ ts[pos[k]].of = bl[k]
    BY <1>1, <2>1 DEF Alike, Named
  <2>. QED  BY <1>1, <1>2, <2>2 DEF MatchedAt, Alike
<1>4. Waits(ts)
  BY <1>1 DEF Waits, Alike, Named
<1>. QED  BY <1>3, <1>4 DEF Matched

(* A call begins. *)
LEMMA PushKeeps ==
  ASSUME NEW st, NEW bl, Shaped(st, bl), NEW c \in Calls, Beneath(st[Len(st)], c),
         c.at = "task" => c.of \notin ToSet(bl)
  PROVE  Shaped(Append(st, c), IF Named(c) THEN Append(bl, c.of) ELSE bl)
<1>. DEFINE n == Len(st)
            ts == Append(st, c)
            bs == IF Named(c) THEN Append(bl, c.of) ELSE bl
<1>1. st \in Seq(Calls) /\ st # <<>> /\ st[1] = Test
      /\ \A i \in 1..n - 1 : Beneath(st[i], st[i + 1])
  BY DEF Shaped, Piled
<1>2. n \in Nat \ {0} /\ DOMAIN st = 1..n
  BY <1>1
<1>3. /\ ts \in Seq(Calls) /\ DOMAIN ts = 1..n + 1 /\ Len(ts) = n + 1
      /\ \A i \in 1..n : ts[i] = st[i]
      /\ ts[n + 1] = c
  BY <1>1, PushedIs
<1>4. Piled(ts)
  <2>1. ts[1] = Test /\ ts # <<>>
    BY <1>1, <1>2, <1>3
  <2>2. ASSUME NEW i \in 1..n  PROVE Beneath(ts[i], ts[i + 1])
    <3>1. ts[i] = st[i]
      BY <1>3
    <3>2. CASE i = n
      BY <1>3, <3>1, <3>2
    <3>3. CASE i # n
      <4>1. i \in 1..n - 1 /\ i + 1 \in 1..n
        <5>1. \A m \in Nat : \A j \in 1..m : j # m => j \in 1..m - 1 /\ j + 1 \in 1..m
          OBVIOUS
        <5>. QED  BY <1>2, <3>3, <5>1
      <4>. QED  BY <1>1, <1>3, <3>1, <4>1
    <3>. QED  BY <3>2, <3>3
  <2>3. Len(ts) - 1 = n
    BY <1>2, <1>3
  <2>. QED  BY <1>3, <2>1, <2>2, <2>3 DEF Piled
<1>5. PICK pos : MatchedAt(st, bl, pos)
  BY DEF Shaped, Matched
<1>6. /\ bl \in Seq(Sessions) /\ DOMAIN bl = 1..Len(bl) /\ Len(bl) \in Nat
      /\ pos \in [DOMAIN bl -> 1..n]
  BY <1>2, <1>5 DEF Shaped, Matched, MatchedAt
<1>7. \A i \in 1..n : Named(st[i]) => st[i].of \in ToSet(bl)
  BY <1>2, <1>5 DEF MatchedAt, ToSet
<1>8. Waits(ts)
  <2>. SUFFICES ASSUME NEW i \in 1..n + 1, NEW j \in 1..n + 1, i < j, Named(ts[i]), ts[j].at = "task"
                PROVE  ts[j].of # ts[i].of
    BY <1>3 DEF Waits
  <2>1. i \in 1..n /\ ts[i] = st[i]
    BY <1>2, <1>3
  <2>2. CASE j = n + 1
    BY <1>3, <1>7, <2>1, <2>2
  <2>3. CASE j # n + 1
    <3>1. j \in 1..n /\ ts[j] = st[j]
      BY <1>2, <1>3, <2>3
    <3>. QED  BY <1>2, <2>1, <3>1 DEF Shaped, Waits
  <2>. QED  BY <2>2, <2>3
<1>9. CASE ~Named(c)
  <2>1. MatchedAt(ts, bl, pos)
    <3>1. pos \in [DOMAIN bl -> DOMAIN ts]
      BY <1>2, <1>3, <1>6
    <3>2. \A k \in DOMAIN bl : ts[pos[k]] = st[pos[k]]
      BY <1>3, <1>6
    <3>3. \A i \in DOMAIN ts : Named(ts[i]) => i \in 1..n /\ Named(st[i])
      BY <1>2, <1>3, <1>9
    <3>. QED  BY <1>2, <1>5, <3>1, <3>2, <3>3 DEF MatchedAt
  <2>. QED  BY <1>4, <1>6, <1>8, <1>9, <2>1 DEF Shaped, Matched
<1>10. CASE Named(c)
  <2>. DEFINE b == Append(bl, c.of)
              p == [k \in 1..Len(bl) + 1 |-> IF k = Len(bl) + 1 THEN n + 1 ELSE pos[k]]
  <2>1. c.of \in Sessions
    BY <1>10, CallIs DEF Named, BlockCalls, Owners
  <2>2. /\ b \in Seq(Sessions) /\ DOMAIN b = 1..Len(bl) + 1
        /\ \A k \in 1..Len(bl) : b[k] = bl[k]
        /\ b[Len(bl) + 1] = c.of
    BY <1>6, <2>1
  <2>3. /\ \A k \in 1..Len(bl) : p[k] = pos[k] /\ pos[k] \in 1..n
        /\ p[Len(bl) + 1] = n + 1 /\ DOMAIN p = 1..Len(bl) + 1
        /\ p = [k \in DOMAIN p |-> p[k]]
    BY <1>6
  <2>. HIDE DEF p, b
  <2>4. MatchedAt(ts, b, p)
    <3>1. p \in [DOMAIN b -> DOMAIN ts]
      <4>1. \A k \in 1..Len(bl) + 1 : p[k] \in 1..n + 1
        BY <1>2, <1>6, <2>3
      <4>. QED  BY <1>3, <2>2, <2>3, <4>1
    <3>2. \A k \in DOMAIN b : Named(ts[p[k]]) /\ ts[p[k]].of = b[k]
      <4>1. \A k \in 1..Len(bl) : Named(ts[p[k]]) /\ ts[p[k]].of = b[k]
        BY <1>3, <1>5, <1>6, <2>2, <2>3 DEF MatchedAt
      <4>2. \A k \in 1..Len(bl) + 1 : k = Len(bl) + 1 \/ k \in 1..Len(bl)
        BY <1>6
      <4>. QED  BY <1>3, <1>10, <2>2, <2>3, <4>1, <4>2
    <3>3. \A j, k \in DOMAIN b : j < k => p[j] < p[k]
      <4>. SUFFICES ASSUME NEW j \in 1..Len(bl) + 1, NEW k \in 1..Len(bl) + 1, j < k
                    PROVE  p[j] < p[k]
        BY <2>2
      <4>1. j \in 1..Len(bl) /\ p[j] = pos[j] /\ pos[j] \in 1..n
        BY <1>6, <2>3
      <4>2. CASE k = Len(bl) + 1
        BY <1>2, <2>3, <4>1, <4>2
      <4>3. CASE k \in 1..Len(bl)
        BY <1>5, <1>6, <2>3, <4>1, <4>3 DEF MatchedAt
      <4>. QED  BY <1>6, <4>2, <4>3
    <3>4. \A i \in DOMAIN ts : Named(ts[i]) => \E k \in DOMAIN b : p[k] = i
      <4>. SUFFICES ASSUME NEW i \in 1..n + 1, Named(ts[i])  PROVE \E k \in DOMAIN b : p[k] = i
        BY <1>3
      <4>1. CASE i = n + 1
        <5>1. Len(bl) + 1 \in DOMAIN b
          BY <1>6, <2>2
        <5>. QED  BY <2>3, <4>1, <5>1
      <4>2. CASE i # n + 1
        <5>1. i \in 1..n /\ Named(st[i])
          BY <1>2, <1>3, <4>2
        <5>2. PICK k \in 1..Len(bl) : pos[k] = i
          BY <1>2, <1>5, <1>6, <5>1 DEF MatchedAt
        <5>3. k \in DOMAIN b
          BY <1>6, <2>2
        <5>. QED  BY <2>3, <5>2, <5>3
      <4>. QED  BY <4>1, <4>2
    <3>. QED  BY <3>1, <3>2, <3>3, <3>4 DEF MatchedAt
  <2>5. bs = b
    BY <1>10 DEF b
  <2>. QED  BY <1>4, <1>8, <2>2, <2>4, <2>5 DEF Shaped, Matched
<1>. QED  BY <1>9, <1>10

(* The call on top goes on. *)
LEMMA TurnKeeps ==
  ASSUME NEW st, NEW bl, Shaped(st, bl), NEW c \in Calls,
         c.at = st[Len(st)].at, c.at \in {"block", "task"} => c.of = st[Len(st)].of
  PROVE  Shaped(Turned(st, c), bl)
<1>. DEFINE n == Len(st)
            ts == Turned(st, c)
<1>1. st \in Seq(Calls) /\ st # <<>> /\ st[1] = Test
      /\ \A i \in 1..n - 1 : Beneath(st[i], st[i + 1])
  BY DEF Shaped, Piled
<1>2. n \in Nat \ {0} /\ DOMAIN st = 1..n
  BY <1>1
<1>3. /\ ts \in Seq(Calls) /\ Len(ts) = n /\ DOMAIN ts = 1..n
      /\ \A i \in 1..n - 1 : ts[i] = st[i]
      /\ ts[n] = c
  BY <1>1, TurnedIs
<1>4. Alike(st, ts)
  BY <1>2, <1>3 DEF Alike
<1>5. Piled(ts)
  <2>1. ts # <<>> /\ ts[1] = Test
    <3>1. CASE n = 1
      BY <1>1, <1>2, <1>3, <3>1, CallIs DEF Test
    <3>2. CASE n # 1
      BY <1>1, <1>2, <1>3, <3>2
    <3>. QED  BY <3>1, <3>2
  <2>2. ASSUME NEW i \in 1..n - 1  PROVE Beneath(ts[i], ts[i + 1])
    <3>1. ts[i] = st[i] /\ Beneath(st[i], st[i + 1])
      BY <1>1, <1>3
    <3>2. ts[i + 1].at = st[i + 1].at
      BY <1>2, <1>4 DEF Alike
    <3>. QED  BY <3>1, <3>2 DEF Beneath
  <2>. QED  BY <1>3, <2>1, <2>2 DEF Piled
<1>. QED  BY <1>4, <1>5, AlikeKeeps DEF Shaped

(* The call on top returns; a session it blocks is the last that is.       *)
LEMMA CutKeeps ==
  ASSUME NEW st, NEW bl, Shaped(st, bl), st[Len(st)].at # "test"
  PROVE  /\ Shaped(Cut(st), IF Named(st[Len(st)]) THEN Front(bl) ELSE bl)
         /\ Len(st) - 1 \in 1..Len(st) /\ Len(Cut(st)) = Len(st) - 1
         /\ Cut(st)[Len(st) - 1] = st[Len(st) - 1]
         /\ Beneath(st[Len(st) - 1], st[Len(st)])
<1>. DEFINE n == Len(st)
            ts == Cut(st)
<1>1. st \in Seq(Calls) /\ st # <<>> /\ st[1] = Test
      /\ \A i \in 1..n - 1 : Beneath(st[i], st[i + 1])
  BY DEF Shaped, Piled
<1>2. n \in Nat \ {0} /\ DOMAIN st = 1..n
  BY <1>1
<1>3. /\ ts \in Seq(Calls) /\ Len(ts) = n - 1 /\ DOMAIN ts = 1..n - 1
      /\ \A i \in 1..n - 1 : ts[i] = st[i]
  BY <1>1, CutIs
<1>4. n > 1 /\ n - 1 + 1 = n
  BY <1>1, <1>2 DEF Test
<1>5. Piled(ts)
  <2>1. ts[1] = Test /\ ts # <<>>
    BY <1>1, <1>2, <1>3, <1>4
  <2>2. \A i \in 1..n - 1 - 1 : i \in 1..n - 1 /\ i + 1 \in 1..n - 1
    BY <1>2
  <2>. QED  BY <1>1, <1>3, <2>1, <2>2 DEF Piled
<1>6. Waits(ts)
  <2>1. \A i \in DOMAIN ts : i \in DOMAIN st /\ ts[i] = st[i]
    BY <1>2, <1>3
  <2>. QED  BY <2>1 DEF Shaped, Waits
<1>7. PICK pos : MatchedAt(st, bl, pos)
  BY DEF Shaped, Matched
<1>8. /\ bl \in Seq(Sessions) /\ DOMAIN bl = 1..Len(bl) /\ Len(bl) \in Nat
      /\ pos \in [DOMAIN bl -> 1..n]
  BY <1>2, <1>7 DEF Shaped, Matched, MatchedAt
<1>9. CASE ~Named(st[n])
  <2>1. \A k \in DOMAIN bl : pos[k] \in 1..n - 1
    <3>1. \A k \in DOMAIN bl : pos[k] # n /\ pos[k] \in 1..n
      BY <1>7, <1>8, <1>9 DEF MatchedAt
    <3>. QED  BY <1>2, <3>1
  <2>2. MatchedAt(ts, bl, pos)
    <3>1. pos \in [DOMAIN bl -> DOMAIN ts] /\ \A k \in DOMAIN bl : ts[pos[k]] = st[pos[k]]
      BY <1>3, <1>8, <2>1
    <3>2. \A i \in DOMAIN ts : i \in DOMAIN st /\ ts[i] = st[i]
      BY <1>2, <1>3
    <3>. QED  BY <1>7, <3>1, <3>2 DEF MatchedAt
  <2>. QED  BY <1>1, <1>2, <1>3, <1>4, <1>5, <1>6, <1>8, <1>9, <2>2 DEF Shaped, Matched
<1>10. CASE Named(st[n])
  <2>. DEFINE m == Len(bl) - 1
              b == Front(bl)
              p == [k \in 1..m |-> pos[k]]
  <2>1. PICK k \in 1..Len(bl) : pos[k] = n
    <3>1. n \in DOMAIN st
      BY <1>2
    <3>. QED  BY <1>7, <1>8, <1>10, <3>1 DEF MatchedAt
  <2>2. k = Len(bl)
    <3>1. SUFFICES ASSUME k < Len(bl)  PROVE FALSE
      <4>1. k \in 1..Len(bl) /\ Len(bl) \in Nat
        BY <1>8
      <4>. QED  BY <4>1
    <3>2. Len(bl) \in 1..Len(bl)
      BY <1>8
    <3>3. pos[k] < pos[Len(bl)]
      BY <1>7, <1>8, <3>1, <3>2 DEF MatchedAt
    <3>. QED  BY <1>2, <1>8, <2>1, <3>2, <3>3
  <2>3. m \in Nat /\ \A j \in 1..m : j \in 1..Len(bl) /\ j < k
    BY <1>8, <2>2
  <2>4. b \in Seq(Sessions) /\ DOMAIN b = 1..m /\ \A j \in 1..m : b[j] = bl[j]
    <3>1. Len(bl) \in 1..Len(bl) + 1
      BY <1>8, <2>1
    <3>. QED  BY <1>8, <3>1, PartsAre DEF Front
  <2>5. \A j \in 1..m : pos[j] \in 1..n - 1
    <3>1. ASSUME NEW j \in 1..m  PROVE pos[j] < n /\ pos[j] \in 1..n
      <4>1. j \in DOMAIN bl /\ k \in DOMAIN bl /\ j < k
        BY <1>8, <2>1, <2>3
      <4>. QED  BY <1>7, <1>8, <2>1, <4>1 DEF MatchedAt
    <3>. QED  BY <1>2, <3>1
  <2>6. MatchedAt(ts, b, p)
    <3>1. p \in [DOMAIN b -> DOMAIN ts]
      BY <1>3, <2>4, <2>5
    <3>2. \A j \in DOMAIN b : Named(ts[p[j]]) /\ ts[p[j]].of = b[j]
      BY <1>3, <1>7, <1>8, <2>3, <2>4, <2>5 DEF MatchedAt
    <3>3. \A i, j \in DOMAIN b : i < j => p[i] < p[j]
      BY <1>7, <1>8, <2>3, <2>4 DEF MatchedAt
    <3>4. ASSUME NEW i \in DOMAIN ts, Named(ts[i])  PROVE \E j \in DOMAIN b : p[j] = i
      <4>1. i \in DOMAIN st /\ Named(st[i]) /\ i # n
        BY <1>2, <1>3, <3>4
      <4>2. PICK j \in 1..Len(bl) : pos[j] = i
        BY <1>7, <1>8, <4>1 DEF MatchedAt
      <4>3. j # k
        BY <2>1, <4>1, <4>2
      <4>4. j \in 1..m
        <5>1. j \in 1..Len(bl) /\ j # Len(bl) /\ Len(bl) \in Nat
          BY <1>8, <2>2, <4>3
        <5>. QED  BY <5>1
      <4>. QED  BY <2>4, <4>2, <4>4
    <3>. QED  BY <3>1, <3>2, <3>3, <3>4 DEF MatchedAt
  <2>7. Matched(ts, b)
    <3>. HIDE DEF b, p
    <3>. QED  BY <2>4, <2>6 DEF Matched
  <2>. QED  BY <1>1, <1>2, <1>3, <1>4, <1>5, <1>6, <1>10, <2>7 DEF Shaped
<1>. QED  BY <1>9, <1>10

-----------------------------------------------------------------------------
(* The order of the runnables *)

(* A new runnable, behind those of its session. *)
LEMMA InsertKeepsOrder ==
  ASSUME NEW ses \in Seq(Owners), NEW run \in Seq(1..Len(ses)), NEW las \in [Owners -> 0..Len(ses)],
         Sorted(ses, run, las), NEW s \in Owners, NEW i \in 1..Len(run) + 1,
         s # Background => \A j \in DOMAIN run : ses[run[j]] = s => j < i
  PROVE  /\ Append(ses, s) \in Seq(Owners) /\ Len(Append(ses, s)) = Len(ses) + 1
         /\ InsertAt(run, i, Len(ses) + 1) \in Seq(1..Len(ses) + 1)
         /\ las \in [Owners -> 0..Len(ses) + 1]
         /\ Sorted(Append(ses, s), InsertAt(run, i, Len(ses) + 1), las)
<1>. DEFINE N == Len(ses)
            n == Len(run)
            new == Append(ses, s)
            ins == InsertAt(run, i, N + 1)
            was(j) == IF j < i THEN j ELSE j - 1
<1>1. /\ N \in Nat /\ n \in Nat /\ DOMAIN run = 1..n
      /\ \A j \in 1..n : run[j] \in 1..N
  <2>1. N \in Nat /\ n \in Nat /\ DOMAIN run = 1..n
    OBVIOUS
  <2>2. \A j \in 1..n : run[j] \in 1..N
    OBVIOUS
  <2>. QED  BY <2>1, <2>2
<1>2. /\ new \in Seq(Owners) /\ Len(new) = N + 1 /\ new[N + 1] = s
      /\ \A x \in 1..N : new[x] = ses[x]
  OBVIOUS
<1>3. run \in Seq(1..N + 1) /\ N + 1 \in 1..N + 1
  <2>1. 1..N \subseteq 1..N + 1
    BY <1>1
  <2>. QED  BY <1>1, <2>1, SeqMonotonic
<1>4. /\ ins \in Seq(1..N + 1) /\ Len(ins) = n + 1
      /\ \A j \in 1..i - 1 : ins[j] = run[j]
      /\ ins[i] = N + 1
      /\ \A j \in i + 1..n + 1 : ins[j] = run[j - 1]
  <2>. DEFINE U == 1..N + 1
              e == N + 1
  <2>1. run \in Seq(U) /\ e \in U /\ i \in 1..Len(run) + 1
    BY <1>3
  <2>. HIDE DEF U, e
  <2>2. /\ InsertAt(run, i, e) \in Seq(U) /\ Len(InsertAt(run, i, e)) = Len(run) + 1
        /\ \A j \in 1..i - 1 : InsertAt(run, i, e)[j] = run[j]
        /\ InsertAt(run, i, e)[i] = e
        /\ \A j \in i + 1..Len(run) + 1 : InsertAt(run, i, e)[j] = run[j - 1]
    BY <2>1, Inserted
  <2>. QED  BY <2>2 DEF U, e
<1>5. DOMAIN ins = 1..n + 1
  BY <1>4
<1>. HIDE DEF N, n, new, ins
<1>6. i \in 1..n + 1
  BY DEF n
<1>7. ASSUME NEW j \in 1..n + 1, j # i
      PROVE  was(j) \in 1..n /\ ins[j] = run[was(j)] /\ (j < i => was(j) < i) /\ (i < j => i <= was(j))
  <2>1. CASE j < i
    <3>1. j \in 1..i - 1 /\ j \in 1..n /\ was(j) = j
      BY <1>1, <1>6, <2>1
    <3>. QED  BY <1>4, <1>6, <2>1, <3>1
  <2>2. CASE i < j
    <3>1. j \in i + 1..n + 1 /\ was(j) = j - 1 /\ j - 1 \in 1..n /\ i <= j - 1
      BY <1>1, <1>6, <2>2
    <3>. QED  BY <1>4, <2>2, <3>1
  <2>. QED  BY <1>1, <1>6, <1>7, <2>1, <2>2
<1>8. ASSUME NEW j \in 1..n + 1, j # i
      PROVE  new[ins[j]] = ses[run[was(j)]] /\ ins[j] \in 1..N
  BY <1>1, <1>2, <1>7, <1>8
<1>9. new[ins[i]] = s /\ las \in [Owners -> 0..N + 1]
  <2>1. 0..N \subseteq 0..N + 1 /\ las \in [Owners -> 0..N]
    BY <1>1 DEF N
  <2>. QED  BY <1>2, <1>4, <2>1
<1>10. Sorted(new, ins, las)
  <2>1. ASSUME NEW j \in 1..n + 1, NEW k \in 1..n + 1,
               j < k, new[ins[j]] = new[ins[k]], new[ins[j]] # Background
        PROVE  ins[j] < ins[k]
    <3>1. CASE j # i /\ k # i
      <4>1. was(j) \in 1..n /\ was(k) \in 1..n /\ was(j) < was(k)
        <5>1. was(j) < was(k)
          <6>1. j \in Int /\ k \in Int /\ i \in Int /\ j < k /\ j # i /\ k # i
            BY <1>6, <2>1, <3>1
          <6>. QED  BY <6>1
        <5>. HIDE DEF was
        <5>. QED  BY <1>7, <3>1, <5>1
      <4>. HIDE DEF was
      <4>2. /\ ses[run[was(j)]] = new[ins[j]] /\ ses[run[was(k)]] = new[ins[k]]
            /\ ins[j] = run[was(j)] /\ ins[k] = run[was(k)]
        BY <1>7, <1>8, <3>1
      <4>3. was(j) \in DOMAIN run /\ was(k) \in DOMAIN run
        BY <1>1, <4>1
      <4>. QED  BY <2>1, <4>1, <4>2, <4>3 DEF Sorted
    <3>2. CASE k = i
      <4>1. j # i /\ ins[j] \in 1..N /\ ins[k] = N + 1
        BY <1>4, <1>6, <1>8, <2>1, <3>2
      <4>. QED  BY <1>1, <4>1
    <3>3. CASE j = i
      <4>1. k # i /\ i < k
        BY <1>6, <2>1, <3>3
      <4>2. was(k) \in 1..n /\ ses[run[was(k)]] = s /\ i <= was(k)
        BY <1>7, <1>8, <1>9, <2>1, <3>3, <4>1
      <4>3. s # Background
        BY <1>9, <2>1, <3>3
      <4>4. was(k) < i
        <5>. HIDE DEF was
        <5>. QED  BY <1>1, <4>2, <4>3
      <4>. HIDE DEF was
      <4>. QED  BY <1>1, <1>6, <4>2, <4>4
    <3>. QED  BY <3>1, <3>2, <3>3
  <2>2. ASSUME NEW j \in 1..n + 1, new[ins[j]] # Background
        PROVE  las[new[ins[j]]] < ins[j]
    <3>1. CASE j = i
      <4>1. las[s] \in 0..N
        BY DEF N
      <4>. QED  BY <1>1, <1>4, <1>9, <3>1, <4>1
    <3>2. CASE j # i
      <4>. HIDE DEF was
      <4>. QED  BY <1>1, <1>7, <1>8, <2>2, <3>2 DEF Sorted
    <3>. QED  BY <3>1, <3>2
  <2>. QED  BY <1>5, <2>1, <2>2 DEF Sorted
<1>. QED  BY <1>2, <1>4, <1>9, <1>10 DEF N, new, ins

(* The first runnable of a session, or one of the background, runs.        *)
LEMMA RemoveKeepsOrder ==
  ASSUME NEW ses \in Seq(Owners), NEW run \in Seq(1..Len(ses)), NEW las \in [Owners -> 0..Len(ses)],
         Sorted(ses, run, las), NEW i \in DOMAIN run, NEW s, s = ses[run[i]],
         s # Background => \A j \in 1..i - 1 : ses[run[j]] # s
  PROVE  /\ RemoveAt(run, i) \in Seq(1..Len(ses))
         /\ [las EXCEPT ![s] = run[i]] \in [Owners -> 0..Len(ses)]
         /\ Sorted(ses, RemoveAt(run, i), [las EXCEPT ![s] = run[i]])
<1>. DEFINE N == Len(ses)
            n == Len(run)
            rem == RemoveAt(run, i)
            lat == [las EXCEPT ![s] = run[i]]
            was(j) == IF j < i THEN j ELSE j + 1
<1>1. /\ N \in Nat /\ n \in Nat /\ DOMAIN run = 1..n /\ i \in 1..n
      /\ \A j \in 1..n : run[j] \in 1..N /\ ses[run[j]] \in Owners
  <2>1. N \in Nat /\ n \in Nat /\ DOMAIN run = 1..n /\ i \in 1..n
    OBVIOUS
  <2>2. \A j \in 1..n : run[j] \in 1..N
    BY ElementOfSeq
  <2>3. \A x \in 1..N : ses[x] \in Owners
    OBVIOUS
  <2>. QED  BY <2>1, <2>2, <2>3
<1>2. /\ rem \in Seq(1..N) /\ Len(rem) = n - 1
      /\ \A j \in 1..i - 1 : rem[j] = run[j]
      /\ \A j \in i..n - 1 : rem[j] = run[j + 1]
  BY <1>1, Removed
<1>3. DOMAIN rem = 1..n - 1
  BY <1>1, <1>2
<1>4. /\ lat \in [Owners -> 0..N] /\ lat[s] = run[i]
      /\ \A t \in Owners : t # s => lat[t] = las[t]
  <2>1. run[i] \in 0..N /\ s \in Owners
    BY <1>1
  <2>. QED  BY <2>1
<1>. HIDE DEF N, n, rem, lat
<1>5. ASSUME NEW j \in 1..n - 1
      PROVE  was(j) \in 1..n /\ was(j) # i /\ rem[j] = run[was(j)] /\ (j < i => was(j) < i)
  <2>1. CASE j < i
    <3>1. j \in 1..i - 1 /\ j \in 1..n /\ was(j) = j /\ j # i
      <4>1. i \in 1..n /\ n \in Nat
        BY <1>1
      <4>. QED  BY <2>1, <4>1
    <3>. QED  BY <1>2, <2>1, <3>1
  <2>2. CASE ~ (j < i)
    <3>1. j \in i..n - 1 /\ was(j) = j + 1 /\ j + 1 \in 1..n /\ j + 1 # i
      <4>1. i \in 1..n /\ n \in Nat
        BY <1>1
      <4>. QED  BY <2>2, <4>1
    <3>. QED  BY <1>2, <2>2, <3>1
  <2>. QED  BY <2>1, <2>2
<1>6. Sorted(ses, rem, lat)
  <2>1. ASSUME NEW j \in 1..n - 1, NEW k \in 1..n - 1,
               j < k, ses[rem[j]] = ses[rem[k]], ses[rem[j]] # Background
        PROVE  rem[j] < rem[k]
    <3>1. was(j) < was(k)
      <4>1. j \in Int /\ k \in Int /\ i \in Int /\ j < k
        BY <1>1, <2>1
      <4>. QED  BY <4>1
    <3>. HIDE DEF was
    <3>2. /\ was(j) \in DOMAIN run /\ was(k) \in DOMAIN run
          /\ rem[j] = run[was(j)] /\ rem[k] = run[was(k)]
      BY <1>1, <1>5
    <3>. QED  BY <2>1, <3>1, <3>2 DEF Sorted
  <2>2. ASSUME NEW j \in 1..n - 1, ses[rem[j]] # Background
        PROVE  lat[ses[rem[j]]] < rem[j]
    <3>1. was(j) \in 1..n /\ was(j) # i /\ rem[j] = run[was(j)]
      BY <1>5
    <3>2. CASE ses[rem[j]] # s
      <4>. HIDE DEF was
      <4>1. was(j) \in DOMAIN run /\ ses[run[was(j)]] \in Owners /\ ses[run[was(j)]] # Background
        BY <1>1, <2>2, <3>1
      <4>2. las[ses[run[was(j)]]] < run[was(j)]
        BY <4>1 DEF Sorted
      <4>. QED  BY <1>4, <3>1, <3>2, <4>1, <4>2
    <3>3. CASE ses[rem[j]] = s
      <4>1. i < was(j)
        <5>1. ~ (was(j) \in 1..i - 1)
          <6>. HIDE DEF was
          <6>. QED  BY <2>2, <3>1, <3>3
        <5>. HIDE DEF was
        <5>. QED  BY <1>1, <3>1, <5>1
      <4>. HIDE DEF was
      <4>2. i \in DOMAIN run /\ was(j) \in DOMAIN run /\ ses[run[i]] = ses[run[was(j)]]
            /\ ses[run[i]] # Background
        BY <1>1, <2>2, <3>1, <3>3
      <4>3. run[i] < run[was(j)]
        BY <4>1, <4>2 DEF Sorted
      <4>. QED  BY <1>4, <3>1, <3>3, <4>3
    <3>. QED  BY <3>2, <3>3
  <2>. QED  BY <1>3, <2>1, <2>2 DEF Sorted
<1>. QED  BY <1>2, <1>4, <1>6 DEF N, rem, lat

(* A runnable is put at a place of the queue behind those of its session. *)
LEMMA ScheduledAt ==
  ASSUME Plain, NEW s \in Owners, Schedule(s)
  PROVE  \E i \in 1..Len(runnables) + 1 :
           /\ runnables' = InsertAt(runnables, i, Len(session) + 1)
           /\ s # Background => \A j \in DOMAIN runnables : session[runnables[j]] = s => j < i
<1>. DEFINE own == {j \in DOMAIN runnables : session[runnables[j]] = s}
            first == IF s = Background THEN 1 ELSE 1 + Max({0} \cup own)
<1>1. /\ session \in Seq(Owners) /\ runnables \in Seq(1..Len(session))
      /\ last \in [Owners -> 0..Len(session)]
  BY DEF Plain
<1>2. Len(runnables) \in Nat /\ DOMAIN runnables = 1..Len(runnables)
  BY <1>1
<1>3. Max({0} \cup own) \in {0} \cup own /\ \A y \in {0} \cup own : y <= Max({0} \cup own)
  <2>1. {0} \cup own \in SUBSET (0..Len(runnables))
    BY <1>2
  <2>. HIDE DEF own
  <2>2. IsFiniteSet({0} \cup own) /\ {0} \cup own \in SUBSET Nat
    BY <1>2, <2>1, PositionsAreFinite
  <2>. QED  BY <2>2, MaxIsGreatest
<1>4. first \in 1..Len(runnables) + 1
      /\ (s # Background => \A j \in DOMAIN runnables : session[runnables[j]] = s => j < first)
  <2>. DEFINE m == Max({0} \cup own)
  <2>1. m \in 0..Len(runnables)
    BY <1>2, <1>3
  <2>2. \A j \in DOMAIN runnables : session[runnables[j]] = s => j <= m
    BY <1>3
  <2>. HIDE DEF m
  <2>3. first = IF s = Background THEN 1 ELSE 1 + m
    BY DEF m
  <2>. HIDE DEF first
  <2>4. first \in 1..Len(runnables) + 1
    BY <1>2, <2>1, <2>3
  <2>5. ASSUME s # Background, NEW j \in DOMAIN runnables, session[runnables[j]] = s  PROVE j < first
    <3>1. j \in Int /\ j <= m /\ m \in Int /\ first = 1 + m
      BY <1>2, <2>1, <2>2, <2>3, <2>5
    <3>. QED  BY <3>1
  <2>. QED  BY <2>4, <2>5
<1>5. PICK i \in first..Len(runnables) + 1 : runnables' = InsertAt(runnables, i, Len(session) + 1)
  BY DEF Schedule
<1>6. i \in 1..Len(runnables) + 1
      /\ (s # Background => \A j \in DOMAIN runnables : session[runnables[j]] = s => j < i)
  <2>. HIDE DEF first
  <2>. QED  BY <1>2, <1>4
<1>. QED  BY <1>5, <1>6

LEMMA ScheduleKeeps ==
  ASSUME Plain, Sorted(session, runnables, last), NEW s \in Owners, Schedule(s), UNCHANGED last
  PROVE  /\ session' \in Seq(Owners) /\ runnables' \in Seq(1..Len(session'))
         /\ last' \in [Owners -> 0..Len(session')]
         /\ Sorted(session', runnables', last')
         /\ unparked' = TRUE
<1>1. /\ session \in Seq(Owners) /\ runnables \in Seq(1..Len(session))
      /\ last \in [Owners -> 0..Len(session)]
  BY DEF Plain
<1>2. PICK i \in 1..Len(runnables) + 1 :
        /\ runnables' = InsertAt(runnables, i, Len(session) + 1)
        /\ s # Background => \A j \in DOMAIN runnables : session[runnables[j]] = s => j < i
  BY ScheduledAt
<1>3. session' = Append(session, s) /\ unparked' = TRUE /\ last' = last
  BY DEF Schedule
<1>4. /\ Append(session, s) \in Seq(Owners) /\ Len(Append(session, s)) = Len(session) + 1
      /\ InsertAt(runnables, i, Len(session) + 1) \in Seq(1..Len(session) + 1)
      /\ last \in [Owners -> 0..Len(session) + 1]
      /\ Sorted(Append(session, s), InsertAt(runnables, i, Len(session) + 1), last)
  BY <1>1, <1>2, InsertKeepsOrder
<1>. QED  BY <1>2, <1>3, <1>4

-----------------------------------------------------------------------------
(* What a step does to the call on top and to the blocks *)

(* A call that does not wait for anything. *)
Calm(c) ==
  ~AtRest(c) /\ (c.at = "block" => c.pc # "park" /\ (c.pc = "step" => c.stepped # "nothing"))

LEMMA CalmTop ==
  ASSUME Calm(Top)'
  PROVE  Idle' /\ Parks' /\ Steps'
BY DEF Calm, Idle, Parks, Steps

LEMMA BeneathIsCalm ==
  ASSUME NEW c, NEW d, Beneath(c, d), d.at # "run"
  PROVE  Calm(c)
BY DEF Beneath, Calm, AtRest

LEMMA UserIsCalm ==
  ASSUME Operation
  PROVE  Calm(Top) /\ Free /\ ~ (Top.at = "advance") /\ (Top.at = "block" => Top.pc \in {"poll", "looked"})
         /\ Top.at \in {"test", "task", "block"}
BY DEF Operation, Polling, Calm, AtRest, AtBlock, At

LEMMA TopStays ==
  ASSUME UNCHANGED stack
  PROVE  Top' = Top
BY DEF Top

LEMMA TopAfterPush ==
  ASSUME Piled(stack), NEW c \in Calls, stack' = Append(stack, c)
  PROVE  Top' = c
<1>1. stack \in Seq(Calls)
  BY DEF Piled
<1>2. Len(stack') = Len(stack) + 1 /\ stack'[Len(stack) + 1] = c
  BY <1>1, PushedIs
<1>. QED  BY <1>2 DEF Top

LEMMA TopAfterTurn ==
  ASSUME Piled(stack), NEW c \in Calls, stack' = Turned(stack, c)
  PROVE  Top' = c
<1>1. stack \in Seq(Calls) /\ stack # <<>>
  BY DEF Piled
<1>2. Len(stack') = Len(stack) /\ stack'[Len(stack)] = c
  BY <1>1, TurnedIs
<1>. QED  BY <1>2 DEF Top

LEMMA BecomeIs ==
  ASSUME NEW c
  PROVE  Become(c) = (stack' = Turned(stack, c))
BY DEF Become, Turned, Under, Cut

LEMMA PopIs == Pop = (stack' = Cut(stack))
BY DEF Pop, Under, Cut

LEMMA HeededAfterPush ==
  ASSUME NEW st, Piled(st), NEW c \in Calls, NEW may, NEW r, NEW u, NEW w, NEW g,
         HeededIn(st, may, r, u, w, g), Heeds(c, may, r, u, w, g)
  PROVE  HeededIn(Append(st, c), may, r, u, w, g)
<1>1. st \in Seq(Calls)
  BY DEF Piled
<1>2. /\ Len(st) \in Nat /\ DOMAIN Append(st, c) = 1..Len(st) + 1
      /\ \A i \in 1..Len(st) : Append(st, c)[i] = st[i]
      /\ Append(st, c)[Len(st) + 1] = c
  BY <1>1, PushedIs
<1>3. DOMAIN st = 1..Len(st)
  BY <1>1
<1>4. \A i \in 1..Len(st) + 1 : i = Len(st) + 1 \/ i \in 1..Len(st)
  BY <1>2
<1>. QED  BY <1>2, <1>3, <1>4 DEF HeededIn

LEMMA HeededAfterTurn ==
  ASSUME NEW st, Piled(st), NEW c \in Calls, NEW may, NEW r, NEW u, NEW w, NEW g,
         \A i \in 1..Len(st) - 1 : Heeds(st[i], may, r, u, w, g), Heeds(c, may, r, u, w, g)
  PROVE  HeededIn(Turned(st, c), may, r, u, w, g)
<1>1. st \in Seq(Calls) /\ st # <<>>
  BY DEF Piled
<1>2. /\ DOMAIN Turned(st, c) = 1..Len(st)
      /\ \A i \in 1..Len(st) - 1 : Turned(st, c)[i] = st[i]
      /\ Turned(st, c)[Len(st)] = c
  BY <1>1, TurnedIs
<1>3. \A i \in 1..Len(st) : i = Len(st) \/ i \in 1..Len(st) - 1
  BY <1>1
<1>. QED  BY <1>2, <1>3 DEF HeededIn

LEMMA HeededUnder ==
  ASSUME NEW st, Piled(st), NEW may, NEW r, NEW u, NEW w, NEW g, HeededIn(st, may, r, u, w, g)
  PROVE  HeededIn(Cut(st), may, r, u, w, g) /\ \A i \in 1..Len(st) - 1 : Heeds(st[i], may, r, u, w, g)
<1>1. st \in Seq(Calls) /\ st # <<>>
  BY DEF Piled
<1>2. /\ DOMAIN Cut(st) = 1..Len(st) - 1 /\ DOMAIN st = 1..Len(st) /\ Len(st) \in Nat
      /\ \A i \in 1..Len(st) - 1 : Cut(st)[i] = st[i]
  BY <1>1, CutIs
<1>3. \A i \in 1..Len(st) - 1 : i \in 1..Len(st)
  BY <1>2
<1>. QED  BY <1>2, <1>3 DEF HeededIn

(* A step that only pushes a call. *)
LEMMA PushStep ==
  ASSUME IInv, Plain', Sorted(session, runnables, last)', NEW c \in Calls,
         stack' = Append(stack, c), Beneath(Top, c),
         c.at = "task" => c.of \notin ToSet(blocked),
         blocked' = IF Named(c) THEN Append(blocked, c.of) ELSE blocked,
         Calm(c), c.at = "block" => c.pc = "poll",
         UNCHANGED <<parking, ready, unparked, waking, robbed>>
  PROVE  IInv'
<1>1. Shaped(stack, blocked) /\ Piled(stack) /\ Top = stack[Len(stack)]
  BY TopIs DEF IInv, Shaped
<1>2. Shaped(stack', blocked')
  BY <1>1, PushKeeps
<1>3. Heeded'
  <2>1. Heeds(c, parking, ready, unparked, waking, robbed)
    BY DEF Heeds
  <2>. QED  BY <1>1, <2>1, HeededAfterPush DEF IInv, Heeded
<1>4. Idle' /\ Parks' /\ Steps'
  BY <1>1, TopAfterPush, CalmTop
<1>. QED  BY <1>2, <1>3, <1>4 DEF IInv

(* A step that only pops the call on top. *)
LEMMA PopStep ==
  ASSUME IInv, Plain', stack' = Cut(stack), Top.at # "test",
         blocked' = IF Named(Top) THEN Front(blocked) ELSE blocked,
         Top.at = "run" => elapsed' = <<>> /\ NoStep(FALSE)',
         UNCHANGED <<parking, session, runnables, last, ready, unparked, waking, robbed>>
  PROVE  IInv'
<1>1. Shaped(stack, blocked) /\ Piled(stack) /\ Top = stack[Len(stack)]
  BY TopIs DEF IInv, Shaped
<1>2. /\ Shaped(stack', blocked') /\ Len(stack') = Len(stack) - 1
      /\ stack'[Len(stack) - 1] = stack[Len(stack) - 1]
      /\ Beneath(stack[Len(stack) - 1], Top)
  BY <1>1, CutKeeps
<1>3. Heeded'
  BY <1>1, HeededUnder DEF IInv, Heeded
<1>4. Top' = stack[Len(stack) - 1] /\ Beneath(Top', Top)
  BY <1>2 DEF Top
<1>5. Idle' /\ Parks' /\ Steps'
  BY <1>4 DEF Beneath, Idle, Parks, Steps, AtRest
<1>6. Sorted(session, runnables, last)'
  BY DEF IInv
<1>. QED  BY <1>2, <1>3, <1>5, <1>6 DEF IInv

(* A step in which the call on top goes on. *)
LEMMA TurnStep ==
  ASSUME IInv, Plain', NEW c \in Calls, stack' = Turned(stack, c),
         c.at = Top.at, c.at \in {"block", "task"} => c.of = Top.of,
         Heeds(c, parking, ready, unparked', waking, robbed'),
         \A i \in 1..Len(stack) - 1 : Heeds(stack[i], parking, ready, unparked', waking, robbed'),
         Idle', Parks', Steps',
         UNCHANGED <<parking, session, runnables, last, blocked, ready, waking>>
  PROVE  IInv'
<1>1. Shaped(stack, blocked) /\ Piled(stack) /\ Top = stack[Len(stack)]
  BY TopIs DEF IInv, Shaped
<1>2. Shaped(stack', blocked')
  BY <1>1, TurnKeeps
<1>3. Heeded'
  BY <1>1, HeededAfterTurn DEF Heeded
<1>4. Sorted(session, runnables, last)'
  BY DEF IInv
<1>. QED  BY <1>2, <1>3, <1>4 DEF IInv

(* A step that leaves the stack alone; wakes go on in the order of a wake. *)
Begun(f, w) == <<f, "unpark">> \in w \/ <<f, "awake">> \in w

LEMMA StillStep ==
  ASSUME IInv, Plain', Sorted(session, runnables, last)', Idle',
         UNCHANGED <<parking, stack, blocked, ready, robbed>>,
         unparked => unparked',
         waking' = waking \/ (unparked' /\ \A f : Begun(f, waking) => Begun(f, waking'))
  PROVE  IInv'
<1>1. Shaped(stack', blocked')
  BY DEF IInv
<1>2. Heeded'
  <2>. SUFFICES ASSUME NEW i \in DOMAIN stack
                PROVE  Heeds(stack[i], parking, ready, unparked', waking', robbed)
    BY DEF Heeded, HeededIn
  <2>1. Heeds(stack[i], parking, ready, unparked, waking, robbed)
    BY DEF IInv, Heeded, HeededIn
  <2>. QED  BY <2>1 DEF Heeds, Begun
<1>3. Parks' /\ Steps'
  BY TopStays DEF IInv, Parks, Steps
<1>. QED  BY <1>1, <1>2, <1>3 DEF IInv

(* Blocks are woken. *)
LEMMA AwokenIs ==
  ASSUME NEW st, NEW bl, Shaped(st, bl), NEW f
  PROVE  /\ Shaped(Awoken(f, st), bl) /\ Len(Awoken(f, st)) = Len(st)
         /\ DOMAIN Awoken(f, st) = DOMAIN st
         /\ \A i \in DOMAIN st :
              Awoken(f, st)[i] = IF st[i].at = "block" /\ st[i].fut = f /\ st[i].waker
                                 THEN [st[i] EXCEPT !.awoken = TRUE] ELSE st[i]
<1>. DEFINE ts == Awoken(f, st)
            woken(c) == IF c.at = "block" /\ c.fut = f /\ c.waker THEN [c EXCEPT !.awoken = TRUE] ELSE c
<1>1. st \in Seq(Calls) /\ st # <<>> /\ st[1] = Test
      /\ \A i \in 1..Len(st) - 1 : Beneath(st[i], st[i + 1])
  BY DEF Shaped, Piled
<1>2. Len(st) \in Nat \ {0} /\ DOMAIN st = 1..Len(st) /\ \A i \in 1..Len(st) : st[i] \in Calls
  BY <1>1
<1>3. DOMAIN ts = DOMAIN st /\ \A i \in DOMAIN st : ts[i] = woken(st[i])
  BY DEF Awoken
<1>4. ASSUME NEW c \in Calls
      PROVE  /\ woken(c) \in Calls /\ woken(c).at = c.at
             /\ c.at \in {"task", "block"} => woken(c).of = c.of
             /\ c.at = "block" => woken(c).pc = c.pc /\ woken(c).stepped = c.stepped
             /\ c.at # "block" => woken(c) = c
  <2>1. CASE c.at = "block"
    BY <2>1, CallIs DEF Calls, BlockCalls
  <2>2. CASE c.at # "block"
    BY <2>2
  <2>. QED  BY <2>1, <2>2
<1>. HIDE DEF woken
<1>5. ts \in Seq(Calls) /\ Len(ts) = Len(st)
  <2>1. ts = [i \in 1..Len(st) |-> ts[i]]
    BY <1>2 DEF Awoken
  <2>2. \A i \in 1..Len(st) : ts[i] \in Calls
    BY <1>2, <1>3, <1>4
  <2>3. ts \in [1..Len(st) -> Calls]
    BY <2>1, <2>2
  <2>4. ts \in Seq(Calls)
    BY <1>2, <2>3, SeqDef
  <2>5. DOMAIN ts = 1..Len(ts) /\ Len(ts) \in Nat
    BY <2>4
  <2>. QED  BY <1>2, <1>3, <2>4, <2>5
<1>6. Alike(st, ts)
  BY <1>2, <1>3, <1>4 DEF Alike
<1>7. Piled(ts)
  <2>1. ts # <<>> /\ ts[1] = Test
    BY <1>1, <1>2, <1>3, <1>4, <1>5 DEF Test
  <2>2. ASSUME NEW i \in 1..Len(st) - 1  PROVE Beneath(ts[i], ts[i + 1])
    <3>1. i \in DOMAIN st /\ i + 1 \in DOMAIN st
      BY <1>2
    <3>2. /\ st[i] \in Calls /\ st[i + 1] \in Calls /\ Beneath(st[i], st[i + 1])
          /\ ts[i] = woken(st[i]) /\ ts[i + 1] = woken(st[i + 1])
      BY <1>1, <1>2, <1>3, <3>1
    <3>. QED  BY <1>4, <3>2 DEF Beneath
  <2>. QED  BY <1>5, <2>1, <2>2 DEF Piled
<1>8. Shaped(ts, bl)
  BY <1>6, <1>7, AlikeKeeps DEF Shaped
<1>. QED  BY <1>3, <1>5, <1>8 DEF woken

LEMMA AwokenTop ==
  ASSUME Shaped(stack, blocked), NEW f, stack' = Awoken(f, stack)
  PROVE  /\ Top'.at = Top.at
         /\ Top.at = "block" => /\ Top'.pc = Top.pc /\ Top'.stepped = Top.stepped
                                /\ Top'.of = Top.of /\ Top'.fut = Top.fut
<1>1. /\ Len(stack) \in DOMAIN stack /\ Top = stack[Len(stack)] /\ Top \in Calls
  BY TopIs DEF Shaped
<1>2. /\ Len(stack') = Len(stack)
      /\ stack'[Len(stack)] = IF Top.at = "block" /\ Top.fut = f /\ Top.waker
                              THEN [Top EXCEPT !.awoken = TRUE] ELSE Top
  BY <1>1, AwokenIs
<1>3. Top' = IF Top.at = "block" /\ Top.fut = f /\ Top.waker THEN [Top EXCEPT !.awoken = TRUE] ELSE Top
  BY <1>2 DEF Top
<1>4. Top.at = "block" => Top \in BlockCalls
  BY <1>1, CallIs
<1>5. CASE Top.at = "block"
  BY <1>3, <1>4, <1>5 DEF BlockCalls
<1>6. CASE Top.at # "block"
  BY <1>3, <1>6
<1>. QED  BY <1>5, <1>6

LEMMA AwokenStep ==
  ASSUME IInv, Plain', Sorted(session, runnables, last)', Idle', NEW f, stack' = Awoken(f, stack),
         UNCHANGED <<parking, blocked, robbed>>,
         \/ ready' = ready \cup {f} /\ unparked' = (unparked \/ Waiting(f)) /\ waking' = waking
         \/ ready' = ready /\ unparked' = unparked /\ waking' = waking \ {<<f, "awake">>}
  PROVE  IInv'
<1>1. Shaped(stack, blocked) /\ Piled(stack)
  BY DEF IInv, Shaped
<1>2. /\ Shaped(stack', blocked') /\ DOMAIN stack' = DOMAIN stack
      /\ \A i \in DOMAIN stack :
           stack'[i] = IF stack[i].at = "block" /\ stack[i].fut = f /\ stack[i].waker
                       THEN [stack[i] EXCEPT !.awoken = TRUE] ELSE stack[i]
  BY <1>1, AwokenIs
<1>3. Parks' /\ Steps'
  BY <1>1, AwokenTop DEF IInv, Parks, Steps
<1>4. Heeded'
  <2>. SUFFICES ASSUME NEW i \in DOMAIN stack
                PROVE  Heeds(stack'[i], parking, ready', unparked', waking', robbed')
    BY <1>2 DEF Heeded, HeededIn
  <2>1. Heeds(stack[i], parking, ready, unparked, waking, robbed)
    BY DEF IInv, Heeded, HeededIn
  <2>2. stack[i] \in Calls
    BY <1>1 DEF Piled
  <2>3. CASE stack[i].at = "block" /\ stack[i].fut = f /\ stack[i].waker
    <3>1. stack'[i] = [stack[i] EXCEPT !.awoken = TRUE] /\ stack[i] \in BlockCalls
      BY <1>2, <2>2, <2>3, CallIs
    <3>2. /\ stack'[i].awoken = TRUE /\ stack'[i].at = "block" /\ stack'[i].fut = f
          /\ stack'[i].pc = stack[i].pc /\ stack'[i].stepped = stack[i].stepped /\ stack'[i].waker
      BY <2>3, <3>1 DEF BlockCalls
    <3>3. Waiting(f)
      BY <2>3 DEF Waiting, Blocks
    <3>4. CASE ready' = ready \cup {f} /\ unparked' = (unparked \/ Waiting(f))
      BY <3>2, <3>3, <3>4 DEF Heeds
    <3>5. CASE ready' = ready /\ unparked' = unparked /\ waking' = waking \ {<<f, "awake">>}
      BY <2>1, <2>3, <3>2, <3>5 DEF Heeds
    <3>. QED  BY <3>4, <3>5
  <2>4. CASE stack[i].at = "block" /\ stack[i].fut = f /\ ~stack[i].waker
    <3>1. stack'[i] = stack[i] /\ stack[i].pc = "poll"
      BY <1>2, <2>1, <2>4 DEF Heeds
    <3>. QED  BY <3>1 DEF Heeds
  <2>5. CASE ~ (stack[i].at = "block" /\ stack[i].fut = f)
    <3>1. stack'[i] = stack[i]
      BY <1>2, <2>5
    <3>2. /\ unparked => unparked'
          /\ <<stack[i].fut, "unpark">> \in waking => <<stack[i].fut, "unpark">> \in waking'
          /\ stack[i].at = "block" /\ <<stack[i].fut, "awake">> \in waking
               => <<stack[i].fut, "awake">> \in waking'
          /\ stack[i].at = "block" /\ stack[i].fut \in ready' => stack[i].fut \in ready
      <4>1. unparked \in BOOLEAN
        BY DEF IInv, Plain
      <4>2. /\ <<stack[i].fut, "unpark">> # <<f, "awake">>
            /\ stack[i].at = "block" => <<stack[i].fut, "awake">> # <<f, "awake">>
        BY <2>5
      <4>. QED  BY <2>5, <4>1, <4>2
    <3>. QED  BY <2>1, <3>1, <3>2 DEF Heeds
  <2>. QED  BY <2>3, <2>4, <2>5
<1>. QED  BY <1>2, <1>3, <1>4 DEF IInv

-----------------------------------------------------------------------------
(* A step of the scheduler *)

LEMMA TimersDrained ==
  ASSUME Plain, NEW call, StepTimers(call)
  PROVE  elapsed' \in Seq(Futures \cup Owners) /\ timers' \in Seq(Timers)
<1>1. timers \in Seq(Timers) /\ Len(timers) \in Nat /\ DOMAIN timers = 1..Len(timers)
  BY DEF Plain
<1>. DEFINE m == Max(Expired)
<1>2. m \in 1..Len(timers)
  <2>1. Expired \in SUBSET (0..Len(timers)) /\ Expired # {} /\ Expired \subseteq 1..Len(timers)
    BY <1>1 DEF Expired, StepTimers
  <2>2. IsFiniteSet(Expired) /\ Expired \in SUBSET Nat
    BY <1>1, <2>1, PositionsAreFinite
  <2>3. m \in Expired
    BY <2>1, <2>2, MaxIsGreatest
  <2>. QED  BY <2>1, <2>3
<1>3. elapsed' = [i \in 1..m |-> timers[i].wakes] /\ timers' = SubSeq(timers, m + 1, Len(timers))
  BY DEF StepTimers
<1>. HIDE DEF m
<1>4. elapsed' \in Seq(Futures \cup Owners)
  <2>1. \A i \in 1..m : timers[i].wakes \in Futures \cup Owners
    <3>1. \A i \in 1..m : timers[i] \in Timers
      BY <1>1, <1>2
    <3>. QED  BY <3>1 DEF Timers
  <2>2. elapsed' \in [1..m -> Futures \cup Owners]
    BY <1>3, <2>1
  <2>3. m \in Nat
    BY <1>2
  <2>. QED  BY <2>2, <2>3, SeqDef
<1>5. timers' \in Seq(Timers)
  <2>. DEFINE k == m + 1
  <2>1. k \in 1..Len(timers) + 1
    BY <1>1, <1>2
  <2>2. timers' = SubSeq(timers, k, Len(timers))
    BY <1>3
  <2>. HIDE DEF k
  <2>. QED  BY <1>1, <2>1, <2>2, PartsAre
<1>. QED  BY <1>4, <1>5

LEMMA StepStep ==
  ASSUME IInv, NEW call \in Calls, call.at = Top.at, call.at \in {"test", "run", "block"},
         call.at = "block" => /\ call.of = Top.of
                              /\ call.pc \in {"poll", "looked"} \/ (call.pc = "step" /\ call.stepped = "some"),
         Heeds(call, parking, ready, unparked, waking, robbed),
         NEW bo, Step(call, bo),
         UNCHANGED stepUnchanged
  PROVE  IInv'
<1>1. Shaped(stack, blocked) /\ Piled(stack) /\ Top = stack[Len(stack)]
  BY TopIs DEF IInv, Shaped
<1>2. Calm(call) /\ \A d : Beneath(call, d)
  BY DEF Calm, AtRest, Beneath
<1>3. UNCHANGED <<parking, session, unparked, blocked, clock, ready, waking, robbed, panicked>>
  BY DEF stepUnchanged
<1>. DEFINE ts == Turned(stack, call)
<1>4. Shaped(ts, blocked)
  BY <1>1, TurnKeeps
<1>5. HeededIn(ts, parking, ready, unparked, waking, robbed)
  <2>1. \A i \in 1..Len(stack) - 1 : Heeds(stack[i], parking, ready, unparked, waking, robbed)
    BY <1>1, HeededUnder DEF IInv, Heeded
  <2>. QED  BY <1>1, <2>1, HeededAfterTurn
<1>6. CASE StepTimers(call)
  <2>1. stack' = ts /\ UNCHANGED <<runnables, last>>
    BY <1>6, BecomeIs DEF StepTimers
  <2>2. Idle' /\ Parks' /\ Steps'
    BY <1>1, <1>2, <2>1, TopAfterTurn, CalmTop
  <2>3. Plain'
    BY <1>3, <1>6, <2>1, TimersDrained DEF IInv, Plain
  <2>4. Shaped(stack', blocked') /\ Heeded' /\ Sorted(session, runnables, last)'
    BY <1>3, <1>4, <1>5, <2>1 DEF IInv, Heeded
  <2>. QED  BY <2>2, <2>3, <2>4 DEF IInv
<1>7. CASE StepRun(call, bo)
  <2>1. PICK i \in Candidates(bo) :
          LET s == session[runnables[i]] IN
            /\ runnables' = RemoveAt(runnables, i)
            /\ last' = [last EXCEPT ![s] = runnables[i]]
            /\ stack' = Append(Append(Under, call), Task(s))
    BY <1>7 DEF StepRun
  <2>. DEFINE s == session[runnables[i]]
  <2>2. /\ i \in DOMAIN runnables
        /\ s # Background => s \notin ToSet(blocked) /\ \A j \in 1..i - 1 : session[runnables[j]] # s
    BY <2>1 DEF Candidates
  <2>3. /\ session \in Seq(Owners) /\ runnables \in Seq(1..Len(session))
        /\ last \in [Owners -> 0..Len(session)] /\ Sorted(session, runnables, last)
    BY DEF IInv, Plain
  <2>4. s \in Owners
    BY <2>2, <2>3
  <2>. HIDE DEF s
  <2>5. stack' = Append(ts, Task(s)) /\ runnables' = RemoveAt(runnables, i)
        /\ last' = [last EXCEPT ![s] = runnables[i]]
    BY <2>1 DEF s, Turned, Under, Cut
  <2>6. /\ runnables' \in Seq(1..Len(session)) /\ last' \in [Owners -> 0..Len(session)]
        /\ Sorted(session, runnables', last')
    BY <2>2, <2>3, <2>5, RemoveKeepsOrder DEF s
  <2>7. s \notin ToSet(blocked)
    <3>1. blocked \in Seq(Sessions)
      BY <1>1 DEF Shaped, Matched
    <3>2. \A x \in ToSet(blocked) : x \in Sessions
      BY <3>1 DEF ToSet
    <3>. QED  BY <2>2, <3>2, SessionsAssumption
  <2>8. Task(s) \in Calls /\ Task(s).at = "task" /\ Task(s).of = s
    BY <2>4, CallsMade
  <2>9. Piled(ts) /\ Len(ts) = Len(stack) /\ ts[Len(stack)] = call
    BY <1>1, <1>4, TurnedIs DEF Piled, Shaped
  <2>10. Shaped(stack', blocked')
    <3>1. ~Named(Task(s)) /\ Beneath(ts[Len(ts)], Task(s))
      BY <1>2, <2>8, <2>9 DEF Named
    <3>. HIDE DEF ts
    <3>2. Shaped(Append(ts, Task(s)), IF Named(Task(s)) THEN Append(blocked, Task(s).of) ELSE blocked)
      BY <1>4, <2>7, <2>8, <3>1, PushKeeps
    <3>. QED  BY <1>3, <2>5, <3>1, <3>2
  <2>11. Heeded'
    <3>1. Heeds(Task(s), parking, ready, unparked, waking, robbed)
      BY <2>8 DEF Heeds
    <3>. HIDE DEF ts
    <3>. QED  BY <1>3, <1>5, <2>5, <2>8, <2>9, <3>1, HeededAfterPush DEF Heeded
  <2>12. Idle' /\ Parks' /\ Steps'
    <3>1. Calm(Task(s))
      BY <2>8 DEF Calm, AtRest
    <3>2. Top' = Task(s)
      <4>1. ts \in Seq(Calls)
        BY <2>9 DEF Piled
      <4>. HIDE DEF ts
      <4>2. Len(stack') = Len(ts) + 1 /\ stack'[Len(ts) + 1] = Task(s)
        BY <2>5, <2>8, <4>1, PushedIs
      <4>. QED  BY <4>2 DEF Top
    <3>. QED  BY <3>1, <3>2, CalmTop
  <2>13. Plain'
    BY <1>3, <1>7, <2>6 DEF IInv, Plain, StepRun
  <2>. QED  BY <1>3, <2>6, <2>10, <2>11, <2>12, <2>13 DEF IInv
<1>. QED  BY <1>6, <1>7 DEF Step

-----------------------------------------------------------------------------
(* User code *)

LEMMA SpawnKeeps ==
  ASSUME IInv, NEW s \in Owners, Spawn(s)
  PROVE  IInv'
<1>1. Calm(Top)
  BY UserIsCalm DEF Spawn
<1>2. UNCHANGED <<parking, timers, elapsed, blocked, clock, ready, stack, waking, robbed, panicked, last>>
      /\ Schedule(s)
  BY DEF Spawn
<1>3. /\ session' \in Seq(Owners) /\ runnables' \in Seq(1..Len(session'))
      /\ last' \in [Owners -> 0..Len(session')]
      /\ Sorted(session', runnables', last') /\ unparked' = TRUE
  BY <1>2, ScheduleKeeps DEF IInv
<1>4. Plain'
  BY <1>2, <1>3 DEF IInv, Plain
<1>5. Idle'
  BY <1>1, <1>2, TopStays, CalmTop
<1>. QED  BY <1>2, <1>3, <1>4, <1>5, StillStep

LEMMA CompleteKeeps ==
  ASSUME IInv, NEW f \in Futures, Complete(f)
  PROVE  IInv'
<1>1. Calm(Top)
  BY UserIsCalm DEF Complete
<1>2. /\ UNCHANGED <<parking, session, runnables, timers, elapsed, blocked, clock, waking, robbed, panicked, last>>
      /\ ready' = ready \cup {f} /\ stack' = Awoken(f, stack) /\ unparked' = (unparked \/ Waiting(f))
  BY DEF Complete, Wake
<1>3. Plain' /\ Sorted(session, runnables, last)'
  BY <1>2 DEF IInv, Plain
<1>4. Idle'
  <2>1. /\ Top'.at = Top.at
        /\ Top.at = "block" => Top'.pc = Top.pc /\ Top'.stepped = Top.stepped
    BY <1>2, AwokenTop DEF IInv
  <2>. QED  BY <1>1, <2>1 DEF Calm, AtRest, Idle
<1>. QED  BY <1>2, <1>3, <1>4, AwokenStep

LEMMA StartTimerKeeps ==
  ASSUME IInv, NEW d \in 1..MaxClock, NEW x \in Futures \cup Owners, StartTimer(d, x)
  PROVE  IInv'
<1>1. Calm(Top)
  BY UserIsCalm DEF StartTimer
<1>2. UNCHANGED <<parking, session, runnables, unparked, elapsed, blocked, clock, ready, stack,
                  waking, robbed, panicked, last>>
  BY DEF StartTimer, Queue
<1>. DEFINE before == {j \in DOMAIN timers : timers[j].when <= clock + d}
            i == 1 + Cardinality(before)
            t == [when |-> clock + d, wakes |-> x]
<1>3. timers \in Seq(Timers) /\ Len(timers) \in Nat /\ DOMAIN timers = 1..Len(timers) /\ clock \in Nat
  BY DEF IInv, Plain
<1>4. i \in 1..Len(timers) + 1
  <2>1. before \subseteq 1..Len(timers)
    BY <1>3
  <2>2. IsFiniteSet(1..Len(timers)) /\ Cardinality(1..Len(timers)) = Len(timers)
    <3>1. \A a, b \in Int : /\ IsFiniteSet(a..b)
                           /\ Cardinality(a..b) = IF a > b THEN 0 ELSE b - a + 1
      BY FS_Interval
    <3>2. 1 \in Int /\ Len(timers) \in Int
      BY <1>3
    <3>3. /\ IsFiniteSet(1..Len(timers))
          /\ Cardinality(1..Len(timers)) = IF 1 > Len(timers) THEN 0 ELSE Len(timers) - 1 + 1
      BY <3>1, <3>2
    <3>. QED  BY <1>3, <3>3
  <2>. HIDE DEF before
  <2>3. Cardinality(before) \in Nat /\ Cardinality(before) <= Len(timers)
    BY <2>1, <2>2, FS_Subset, FS_CardinalityType
  <2>. QED  BY <1>3, <2>3
<1>5. t \in Timers
  <2>1. clock + d \in Nat
    BY <1>3
  <2>. QED  BY <2>1 DEF Timers
<1>6. timers' = InsertAt(timers, i, t)
  BY DEF StartTimer
<1>. HIDE DEF i, t
<1>7. timers' \in Seq(Timers)
  BY <1>3, <1>4, <1>5, <1>6, Inserted
<1>8. Plain' /\ Sorted(session, runnables, last)'
  BY <1>2, <1>7 DEF IInv, Plain
<1>9. Idle'
  BY <1>1, <1>2, TopStays, CalmTop
<1>. QED  BY <1>2, <1>8, <1>9, StillStep

LEMMA BlockOnKeeps ==
  ASSUME IInv, NEW s \in Owners, NEW f \in Futures, NEW limited \in BOOLEAN, NEW n \in 0..MaxTicks,
         BlockOn(s, f, limited, n)
  PROVE  IInv'
<1>. DEFINE c == Block(s, f, limited, n)
<1>1. /\ c \in Calls /\ c.at = "block" /\ c.of = s /\ c.pc = "poll"
  BY DEF Block, Calls, BlockCalls, Pcs
<1>2. /\ UNCHANGED <<parking, session, runnables, unparked, timers, elapsed, clock, ready, waking, robbed,
                     panicked, last>>
      /\ stack' = Append(stack, c)
      /\ blocked' = IF s = Background THEN blocked ELSE Append(blocked, s)
  BY DEF BlockOn, Queue, Push
<1>. HIDE DEF c
<1>3. Beneath(Top, c)
  BY UserIsCalm DEF BlockOn, Beneath
<1>4. Calm(c)
  BY <1>1 DEF Calm, AtRest
<1>5. blocked' = IF Named(c) THEN Append(blocked, c.of) ELSE blocked
  BY <1>1, <1>2 DEF Named
<1>6. Plain' /\ Sorted(session, runnables, last)'
  BY <1>2 DEF IInv, Plain
<1>. QED  BY <1>1, <1>2, <1>3, <1>4, <1>5, <1>6, PushStep

LEMMA RunUntilParkedKeeps ==
  ASSUME IInv, RunUntilParked
  PROVE  IInv'
<1>1. /\ UNCHANGED <<parking, session, runnables, unparked, timers, elapsed, blocked, clock, ready,
                     waking, robbed, panicked, last>>
      /\ stack' = Append(stack, Run)
  BY DEF RunUntilParked, Queue, Push
<1>2. Beneath(Top, Run) /\ Run \in Calls /\ Run.at = "run"
  BY UserIsCalm, CallsMade DEF RunUntilParked, Beneath
<1>3. Calm(Run) /\ ~Named(Run)
  BY DEF Calm, AtRest, Run, Named
<1>4. Plain' /\ Sorted(session, runnables, last)'
  BY <1>1 DEF IInv, Plain
<1>. QED  BY <1>1, <1>2, <1>3, <1>4, PushStep

(* The move of the clock is pushed with the run that it begins with. *)
LEMMA AdvanceClockKeeps ==
  ASSUME IInv, NEW d \in 1..MaxClock, AdvanceClock(d)
  PROVE  IInv'
<1>. DEFINE a == AdvanceTo(clock + d)
            ts == Append(stack, a)
<1>1. UNCHANGED <<parking, session, runnables, unparked, timers, elapsed, blocked, clock, ready,
                  waking, robbed, panicked, last>>
  BY DEF AdvanceClock, Queue
<1>2. a \in Calls /\ a.at = "advance" /\ Run \in Calls /\ Run.at = "run"
  <2>1. clock + d \in Nat
    BY DEF IInv, Plain
  <2>. QED  BY <2>1, CallsMade
<1>3. stack' = Append(ts, Run)
  <2>1. stack \in Seq(Calls)
    BY DEF IInv, Shaped, Piled
  <2>2. stack' = stack \o <<a, Run>>
    BY DEF AdvanceClock
  <2>. HIDE DEF a
  <2>. QED  BY <1>2, <2>1, <2>2
<1>. HIDE DEF a
<1>4. Beneath(Top, a)
  BY UserIsCalm DEF AdvanceClock, Beneath
<1>5. Shaped(stack, blocked) /\ Piled(stack) /\ Top = stack[Len(stack)]
  BY TopIs DEF IInv, Shaped
<1>6. ~Named(a) /\ a.at # "task" /\ ~Named(Run) /\ Run.at # "task"
  BY <1>2 DEF Named
<1>7. Shaped(ts, blocked)
  BY <1>2, <1>4, <1>5, <1>6, PushKeeps
<1>8. HeededIn(ts, parking, ready, unparked, waking, robbed)
  <2>1. Heeds(a, parking, ready, unparked, waking, robbed)
    BY <1>2 DEF Heeds
  <2>. QED  BY <1>2, <1>5, <2>1, HeededAfterPush DEF IInv, Heeded
<1>9. Beneath(ts[Len(ts)], Run) /\ Piled(ts)
  <2>1. ts[Len(ts)] = a
    BY <1>2, <1>5, PushedIs DEF Piled
  <2>. QED  BY <1>2, <1>7, <2>1 DEF Beneath, Shaped
<1>. HIDE DEF ts
<1>10. Shaped(stack', blocked')
  BY <1>1, <1>2, <1>3, <1>6, <1>7, <1>9, PushKeeps
<1>11. Heeded'
  <2>1. Heeds(Run, parking, ready, unparked, waking, robbed)
    BY <1>2 DEF Heeds
  <2>. QED  BY <1>1, <1>2, <1>3, <1>8, <1>9, <2>1, HeededAfterPush DEF Heeded
<1>12. Idle' /\ Parks' /\ Steps'
  <2>1. Top' = Run
    <3>1. Len(stack') = Len(ts) + 1 /\ stack'[Len(ts) + 1] = Run
      BY <1>2, <1>3, <1>9, PushedIs DEF Piled
    <3>. QED  BY <3>1 DEF Top
  <2>2. Calm(Run)
    BY DEF Calm, AtRest, Run
  <2>. QED  BY <2>1, <2>2, CalmTop
<1>13. Plain' /\ Sorted(session, runnables, last)'
  BY <1>1 DEF IInv, Plain
<1>. QED  BY <1>10, <1>11, <1>12, <1>13 DEF IInv

LEMMA TickKeeps ==
  ASSUME IInv, NEW bo, Tick(bo)
  PROVE  IInv'
<1>1. Step(Top, bo) /\ UNCHANGED stepUnchanged
      /\ Top.at \in {"test", "block"} /\ (Top.at = "block" => Top.pc \in {"poll", "looked"})
  BY UserIsCalm DEF Tick, InTest
<1>2. Top \in Calls /\ Top = stack[Len(stack)] /\ Len(stack) \in DOMAIN stack
  BY TopIs DEF IInv, Shaped
<1>3. Heeds(Top, parking, ready, unparked, waking, robbed)
  BY <1>2 DEF IInv, Heeded, HeededIn
<1>. QED  BY <1>1, <1>2, <1>3, StepStep

-----------------------------------------------------------------------------
(* The machinery *)

LEMMA WakeElapsedKeeps ==
  ASSUME IInv, WakeElapsed
  PROVE  IInv'
<1>. DEFINE x == Head(elapsed)
<1>1. UNCHANGED <<parking, timers, blocked, clock, waking, robbed, fuel, panicked, last>>
      /\ elapsed # <<>> /\ elapsed' = Tail(elapsed)
  BY DEF WakeElapsed
<1>2. x \in Futures \cup Owners /\ elapsed' \in Seq(Futures \cup Owners)
  BY <1>1 DEF IInv, Plain
<1>3. parking \/ ~AtRest(Top)
  BY <1>1 DEF IInv, Idle
<1>. HIDE DEF x
<1>4. CASE x \in Futures
  <2>1. /\ UNCHANGED <<session, runnables>>
        /\ ready' = ready \cup {x} /\ stack' = Awoken(x, stack) /\ unparked' = (unparked \/ Waiting(x))
    BY <1>4 DEF WakeElapsed, Wake, x
  <2>2. Plain' /\ Sorted(session, runnables, last)'
    BY <1>1, <1>2, <2>1 DEF IInv, Plain
  <2>3. Idle'
    <3>1. /\ Top'.at = Top.at
          /\ Top.at = "block" => Top'.pc = Top.pc /\ Top'.stepped = Top.stepped
      BY <2>1, AwokenTop DEF IInv
    <3>. QED  BY <1>1, <1>3, <3>1 DEF AtRest, Idle
  <2>. QED  BY <1>1, <2>1, <2>2, <2>3, AwokenStep
<1>5. CASE x \notin Futures
  <2>1. x \in Owners /\ UNCHANGED <<ready, stack>>
        /\ (Schedule(x) \/ UNCHANGED Queue)
    BY <1>2, <1>5 DEF WakeElapsed, x
  <2>2. /\ session' \in Seq(Owners) /\ runnables' \in Seq(1..Len(session'))
        /\ last' \in [Owners -> 0..Len(session')]
        /\ Sorted(session', runnables', last') /\ unparked' \in BOOLEAN /\ (unparked => unparked')
    <3>1. CASE Schedule(x)
      BY <1>1, <2>1, <3>1, ScheduleKeeps DEF IInv
    <3>2. CASE UNCHANGED Queue
      BY <1>1, <3>2 DEF IInv, Plain, Queue
    <3>. QED  BY <2>1, <3>1, <3>2
  <2>3. Plain'
    BY <1>1, <1>2, <2>2 DEF IInv, Plain
  <2>4. Idle'
    BY <1>1, <1>3, <2>1, TopStays DEF Idle
  <2>. QED  BY <1>1, <2>1, <2>2, <2>3, <2>4, StillStep
<1>. QED  BY <1>4, <1>5

LEMMA ReturnKeeps ==
  ASSUME IInv, Return
  PROVE  IInv'
<1>1. /\ UNCHANGED <<parking, session, runnables, unparked, timers, elapsed, blocked, clock, ready,
                     waking, robbed, fuel, panicked, last>>
      /\ stack' = Cut(stack) /\ Top.at = "task"
  BY PopIs DEF Return, Queue, At
<1>2. ~Named(Top)
  BY <1>1 DEF Named
<1>3. Plain'
  BY <1>1 DEF IInv, Plain
<1>. QED  BY <1>1, <1>2, <1>3, PopStep

LEMMA RunStepKeeps ==
  ASSUME IInv, RunStep
  PROVE  IInv'
<1>1. Step(Top, FALSE) /\ UNCHANGED stepUnchanged /\ Top.at = "run"
  BY DEF RunStep, At
<1>2. Top \in Calls
  BY TopIs DEF IInv, Shaped
<1>3. Heeds(Top, parking, ready, unparked, waking, robbed)
  BY <1>1 DEF Heeds
<1>. QED  BY <1>1, <1>2, <1>3, StepStep

LEMMA EndRunKeeps ==
  ASSUME IInv, EndRun
  PROVE  IInv'
<1>1. /\ UNCHANGED <<parking, session, runnables, unparked, timers, elapsed, blocked, clock, ready,
                     waking, robbed, fuel, panicked, last>>
      /\ stack' = Cut(stack) /\ Top.at = "run" /\ NoStep(FALSE) /\ elapsed = <<>>
  BY PopIs DEF EndRun, Queue, At, Free
<1>2. ~Named(Top)
  BY <1>1 DEF Named
<1>3. Plain'
  BY <1>1 DEF IInv, Plain
<1>4. NoStep(FALSE)'
  BY <1>1 DEF NoStep, Expired, Candidates
<1>. QED  BY <1>1, <1>2, <1>3, <1>4, PopStep

LEMMA LaterIsTime ==
  ASSUME Plain, NEW t \in Nat
  PROVE  Later(t) \in Nat
<1>1. {clock, t} \in SUBSET Nat /\ {clock, t} # {} /\ IsFiniteSet({clock, t})
  <2>1. clock \in Nat
    BY DEF Plain
  <2>2. IsFiniteSet({clock, t})
    <3>1. IsFiniteSet({clock})
      BY FS_Singleton
    <3>2. IsFiniteSet({clock} \cup {t}) /\ {clock, t} = {clock} \cup {t}
      BY <3>1, FS_AddElement
    <3>. QED  BY <3>2
  <2>. QED  BY <2>1, <2>2
<1>. QED  BY <1>1, MaxIsGreatest DEF Later

LEMMA NextTimerIsTime ==
  ASSUME Plain, timers # <<>>
  PROVE  timers[1].when \in Nat
<1>1. timers[1] \in Timers
  BY DEF Plain
<1>. QED  BY <1>1 DEF Timers

LEMMA AdvanceKeeps ==
  ASSUME IInv, Advance
  PROVE  IInv'
<1>1. /\ UNCHANGED <<parking, session, runnables, unparked, timers, elapsed, blocked, ready,
                     waking, robbed, fuel, panicked, last>>
      /\ Top.at = "advance"
  BY DEF Advance, Queue, At
<1>2. Top \in AdvanceCalls /\ Top.to \in Nat
  <2>1. Top \in Calls
    BY TopIs DEF IInv, Shaped
  <2>2. Top \in AdvanceCalls
    BY <1>1, <2>1, CallIs
  <2>. QED  BY <2>2 DEF AdvanceCalls
<1>3. ~Named(Top) /\ ~Named(Run) /\ Run \in Calls /\ Run.at = "run" /\ Beneath(Top, Run) /\ Calm(Run)
  BY <1>1, CallsMade DEF Named, Beneath, Calm, AtRest, Run
<1>4. CASE timers # <<>> /\ clock' = Later(timers[1].when) /\ Push(Run)
  <2>1. clock' \in Nat
    BY <1>4, NextTimerIsTime, LaterIsTime DEF IInv
  <2>2. Plain' /\ Sorted(session, runnables, last)'
    BY <1>1, <2>1 DEF IInv, Plain
  <2>3. stack' = Append(stack, Run)
    BY <1>4 DEF Push
  <2>. QED  BY <1>1, <1>3, <2>2, <2>3, PushStep
<1>5. CASE clock' = Later(Top.to) /\ Pop
  <2>1. clock' \in Nat
    BY <1>2, <1>5, LaterIsTime DEF IInv
  <2>2. Plain'
    BY <1>1, <2>1 DEF IInv, Plain
  <2>3. stack' = Cut(stack)
    BY <1>5, PopIs
  <2>. QED  BY <1>1, <1>3, <2>2, <2>3, PopStep
<1>. QED  BY <1>4, <1>5 DEF Advance

-----------------------------------------------------------------------------
(* Blocks *)

LEMMA BlockTop ==
  ASSUME IInv, NEW pc, AtBlock(pc)
  PROVE  /\ Top \in BlockCalls /\ Top.at = "block" /\ Top.pc = pc /\ Free
         /\ Heeds(Top, parking, ready, unparked, waking, robbed)
<1>1. Top \in Calls /\ Top = stack[Len(stack)] /\ Len(stack) \in DOMAIN stack
  BY TopIs DEF IInv, Shaped
<1>2. Top.at = "block" /\ Top.pc = pc /\ Free
  BY DEF AtBlock, At
<1>3. Top \in BlockCalls
  BY <1>1, <1>2, CallIs
<1>4. Heeds(Top, parking, ready, unparked, waking, robbed)
  BY <1>1 DEF IInv, Heeded, HeededIn
<1>. QED  BY <1>2, <1>3, <1>4

LEMMA LeaveStep ==
  ASSUME IInv, Top.at = "block", Leave,
         UNCHANGED <<parking, session, runnables, unparked, timers, elapsed, clock, ready, waking, robbed, last>>
  PROVE  IInv'
<1>1. stack' = Cut(stack) /\ blocked' = IF Named(Top) THEN Front(blocked) ELSE blocked
  BY PopIs DEF Leave, Named
<1>2. Plain'
  BY DEF IInv, Plain
<1>. QED  BY <1>1, <1>2, PopStep

(* The block on top goes on, to the next part of its loop. *)
LEMMA BlockTurns ==
  ASSUME IInv, Top \in BlockCalls, NEW c, c \in BlockCalls, c.of = Top.of, Become(c),
         Heeds(c, parking, ready, unparked, waking, robbed), Plain',
         c.pc = "park" => parking, c.pc = "step" => c.stepped # "nothing",
         ~parking /\ AtRest(c) => elapsed' = <<>> /\ NoStep(FALSE)',
         UNCHANGED <<parking, session, runnables, last, blocked, ready, waking, robbed, unparked>>
  PROVE  IInv'
<1>1. c \in Calls /\ c.at = "block" /\ Top.at = "block"
  BY DEF Calls, BlockCalls
<1>2. stack' = Turned(stack, c)
  BY BecomeIs
<1>3. Top' = c
  BY <1>1, <1>2, TopAfterTurn DEF IInv, Shaped
<1>4. Idle' /\ Parks' /\ Steps'
  BY <1>1, <1>3 DEF Idle, Parks, Steps
<1>5. \A i \in 1..Len(stack) - 1 : Heeds(stack[i], parking, ready, unparked, waking, robbed)
  BY HeededUnder DEF IInv, Shaped, Heeded
<1>. QED  BY <1>1, <1>2, <1>4, <1>5, TurnStep

LEMMA PollKeeps ==
  ASSUME IInv, Poll
  PROVE  IInv'
<1>1. /\ UNCHANGED <<parking, session, runnables, unparked, timers, elapsed, clock, ready,
                     waking, robbed, fuel, panicked, last>>
      /\ AtBlock("poll")
  BY DEF Poll, Queue
<1>2. Top \in BlockCalls /\ Top.at = "block" /\ Top.pc = "poll"
  BY <1>1, BlockTop
<1>3. CASE Leave
  BY <1>1, <1>2, <1>3, LeaveStep
<1>4. CASE ~Leave
  <2>. DEFINE c == [Top EXCEPT !.pc = "looked", !.waker = TRUE]
  <2>1. Top.fut \notin ready /\ Become(c) /\ UNCHANGED blocked
    BY <1>4 DEF Poll
  <2>2. c \in BlockCalls /\ c.of = Top.of /\ c.fut = Top.fut /\ c.pc = "looked" /\ c.waker /\ c.at = "block"
    BY <1>2 DEF BlockCalls, Pcs
  <2>. HIDE DEF c
  <2>3. Heeds(c, parking, ready, unparked, waking, robbed) /\ ~AtRest(c)
    BY <2>1, <2>2 DEF Heeds, AtRest
  <2>4. Plain'
    BY <1>1 DEF IInv, Plain
  <2>. QED  BY <1>1, <1>2, <2>1, <2>2, <2>3, <2>4, BlockTurns
<1>. QED  BY <1>3, <1>4

LEMMA PendingKeeps ==
  ASSUME IInv, Pending
  PROVE  IInv'
<1>. DEFINE c == [Top EXCEPT !.pc = "step", !.stepped = "none"]
<1>1. /\ UNCHANGED <<parking, session, runnables, unparked, timers, elapsed, blocked, clock, ready,
                     waking, robbed, fuel, panicked, last>>
      /\ AtBlock("looked") /\ Become(c)
  BY DEF Pending, Queue
<1>2. /\ Top \in BlockCalls /\ Top.at = "block" /\ Top.pc = "looked"
      /\ Heeds(Top, parking, ready, unparked, waking, robbed)
  BY <1>1, BlockTop
<1>3. /\ c \in BlockCalls /\ c.of = Top.of /\ c.fut = Top.fut /\ c.pc = "step" /\ c.stepped = "none"
      /\ c.waker = Top.waker /\ c.awoken = Top.awoken /\ c.at = "block"
  BY <1>2 DEF BlockCalls, Pcs
<1>. HIDE DEF c
<1>4. Heeds(c, parking, ready, unparked, waking, robbed) /\ ~AtRest(c)
  BY <1>2, <1>3 DEF Heeds, AtRest
<1>5. Plain'
  BY <1>1 DEF IInv, Plain
<1>. QED  BY <1>1, <1>2, <1>3, <1>4, <1>5, BlockTurns

LEMMA BlockStepKeeps ==
  ASSUME IInv, BlockStep
  PROVE  IInv'
<1>. DEFINE c == [Top EXCEPT !.stepped = "some"]
<1>1. AtBlock("step") /\ Step(c, FALSE) /\ UNCHANGED stepUnchanged
  BY DEF BlockStep
<1>2. /\ Top \in BlockCalls /\ Top.at = "block" /\ Top.pc = "step"
      /\ Heeds(Top, parking, ready, unparked, waking, robbed)
  BY <1>1, BlockTop
<1>3. /\ c \in BlockCalls /\ c.of = Top.of /\ c.fut = Top.fut /\ c.pc = "step" /\ c.stepped = "some"
      /\ c.at = "block" /\ c.awoken = Top.awoken /\ c.waker = Top.waker
  BY <1>2 DEF BlockCalls
<1>. HIDE DEF c
<1>4. Heeds(c, parking, ready, unparked, waking, robbed) /\ c \in Calls
  BY <1>2, <1>3 DEF Heeds, Calls
<1>. QED  BY <1>1, <1>2, <1>3, <1>4, StepStep

LEMMA EndStepsKeeps ==
  ASSUME IInv, EndSteps
  PROVE  IInv'
<1>1. /\ UNCHANGED <<parking, session, runnables, unparked, timers, elapsed, blocked, clock, ready,
                     waking, robbed, fuel, panicked, last>>
      /\ AtBlock("step")
  BY DEF EndSteps, Queue
<1>2. /\ Top \in BlockCalls /\ Top.at = "block" /\ Top.pc = "step" /\ elapsed = <<>>
      /\ Heeds(Top, parking, ready, unparked, waking, robbed) /\ Top.stepped # "nothing"
  BY <1>1, BlockTop DEF IInv, Steps, Free
<1>3. ASSUME NEW c, Become(c), c \in BlockCalls, c.of = Top.of, c.fut = Top.fut, c.awoken = Top.awoken,
             c.waker = Top.waker, c.pc = "check", Top.stepped = "some" => c.stepped = "some",
             c.stepped = "nothing" => NoStep(FALSE)
      PROVE  IInv'
  <2>1. Heeds(c, parking, ready, unparked, waking, robbed)
    BY <1>2, <1>3 DEF Heeds
  <2>2. ~parking /\ AtRest(c) => elapsed' = <<>> /\ NoStep(FALSE)'
    <3>1. NoStep(FALSE) => NoStep(FALSE)'
      BY <1>1 DEF NoStep, Expired, Candidates
    <3>2. c.at = "block"
      BY <1>3 DEF BlockCalls
    <3>. QED  BY <1>1, <1>2, <1>3, <3>1, <3>2 DEF AtRest
  <2>3. Plain'
    BY <1>1 DEF IInv, Plain
  <2>. QED  BY <1>1, <1>2, <1>3, <2>1, <2>2, <2>3, BlockTurns
<1>4. CASE Become([Top EXCEPT !.pc = "check"])
  <2>. DEFINE c == [Top EXCEPT !.pc = "check"]
  <2>1. /\ c \in BlockCalls /\ c.of = Top.of /\ c.fut = Top.fut /\ c.pc = "check"
        /\ c.stepped = Top.stepped /\ c.awoken = Top.awoken /\ c.waker = Top.waker
    BY <1>2 DEF BlockCalls, Pcs
  <2>. HIDE DEF c
  <2>2. Become(c)
    BY <1>4 DEF c
  <2>. QED  BY <1>2, <1>3, <2>1, <2>2
<1>5. CASE NoStep(FALSE) /\ Become([Top EXCEPT !.pc = "check",
                                   !.stepped = IF @ = "none" THEN "nothing" ELSE @])
  <2>. DEFINE c == [Top EXCEPT !.pc = "check", !.stepped = IF @ = "none" THEN "nothing" ELSE @]
  <2>1. /\ c \in BlockCalls /\ c.of = Top.of /\ c.fut = Top.fut /\ c.pc = "check"
        /\ c.stepped = (IF Top.stepped = "none" THEN "nothing" ELSE Top.stepped)
        /\ c.awoken = Top.awoken /\ c.waker = Top.waker
    BY <1>2 DEF BlockCalls, Pcs
  <2>2. Become(c)
    BY <1>5
  <2>. HIDE DEF c
  <2>. QED  BY <1>3, <1>5, <2>1, <2>2
<1>. QED  BY <1>4, <1>5 DEF EndSteps

LEMMA NextTickIs ==
  ASSUME Top \in BlockCalls
  PROVE  /\ NextTick \in BlockCalls /\ NextTick.of = Top.of /\ NextTick.fut = Top.fut
         /\ NextTick.pc = "poll" /\ NextTick.stepped = Top.stepped
         /\ [NextTick EXCEPT !.pc = "park"] \in BlockCalls
         /\ [NextTick EXCEPT !.pc = "park"].of = Top.of
         /\ [NextTick EXCEPT !.pc = "park"].fut = Top.fut
         /\ [NextTick EXCEPT !.pc = "park"].pc = "park"
         /\ [NextTick EXCEPT !.pc = "park"].waker = Top.waker
<1>1. Top.ticks \in Int /\ Top.ticks - 1 \in Int
  BY DEF BlockCalls
<1>. DEFINE n == IF Top.limited THEN Top.ticks - 1 ELSE Top.ticks
<1>2. n \in Int
  BY <1>1
<1>3. NextTick = [Top EXCEPT !.pc = "poll", !.awoken = FALSE, !.ticks = n]
  BY DEF NextTick
<1>. HIDE DEF n
<1>. QED  BY <1>2, <1>3 DEF BlockCalls, Pcs

LEMMA CheckKeeps ==
  ASSUME IInv, Check
  PROVE  IInv'
<1>1. /\ UNCHANGED <<parking, session, runnables, unparked, timers, elapsed, ready, waking, robbed, fuel, last>>
      /\ AtBlock("check")
  BY DEF Check, Queue
<1>2. /\ Top \in BlockCalls /\ Top.at = "block" /\ Top.pc = "check"
      /\ Heeds(Top, parking, ready, unparked, waking, robbed)
  BY <1>1, BlockTop
<1>3. CASE Become(NextTick) /\ UNCHANGED blocked
           /\ (clock' = clock \/ (timers # <<>> /\ clock' = Later(timers[1].when)))
  <2>1. clock' \in Nat
    <3>1. Plain /\ clock \in Nat
      BY DEF IInv, Plain
    <3>. QED  BY <1>3, <3>1, NextTimerIsTime, LaterIsTime
  <2>2. Plain'
    BY <1>1, <2>1 DEF IInv, Plain
  <2>3. Heeds(NextTick, parking, ready, unparked, waking, robbed) /\ ~AtRest(NextTick)
    <3>1. NextTick.at = "block"
      BY <1>2, NextTickIs DEF BlockCalls
    <3>. QED  BY <1>2, <3>1, NextTickIs DEF Heeds, AtRest
  <2>. QED  BY <1>1, <1>2, <1>3, <2>2, <2>3, NextTickIs, BlockTurns
<1>4. CASE /\ Top.stepped = "nothing" /\ ~Top.awoken /\ parking
           /\ Become([NextTick EXCEPT !.pc = "park"]) /\ UNCHANGED <<clock, blocked>>
  <2>. DEFINE c == [NextTick EXCEPT !.pc = "park"]
  <2>1. c \in BlockCalls /\ c.of = Top.of /\ c.fut = Top.fut /\ c.pc = "park" /\ c.waker = Top.waker /\ Become(c)
    BY <1>2, <1>4, NextTickIs
  <2>. HIDE DEF c
  <2>2. Heeds(c, parking, ready, unparked, waking, robbed) /\ ~AtRest(c)
    <3>1. c.at = "block"
      BY <2>1 DEF BlockCalls
    <3>. QED  BY <1>2, <1>4, <2>1, <3>1 DEF Heeds, AtRest
  <2>3. Plain'
    BY <1>1, <1>4 DEF IInv, Plain
  <2>. QED  BY <1>1, <1>2, <1>4, <2>1, <2>2, <2>3, BlockTurns
<1>5. CASE Leave /\ UNCHANGED clock
  BY <1>1, <1>2, <1>5, LeaveStep
<1>6. CASE UNCHANGED <<clock, blocked, stack>>
  <2>1. Plain' /\ Sorted(session, runnables, last)'
    BY <1>1, <1>6 DEF IInv, Plain
  <2>2. Idle'
    <3>1. NoStep(FALSE) => NoStep(FALSE)'
      BY <1>1, <1>6 DEF NoStep, Expired, Candidates
    <3>. QED  BY <1>1, <1>6, <3>1, TopStays DEF IInv, Idle
  <2>. QED  BY <1>1, <1>6, <2>1, <2>2, StillStep
<1>. QED  BY <1>2, <1>3, <1>4, <1>5, <1>6 DEF Check, Busy, BlockCalls

LEMMA UnparkKeeps ==
  ASSUME IInv, Unpark
  PROVE  IInv'
<1>1. /\ UNCHANGED <<parking, session, runnables, timers, elapsed, blocked, clock, ready, waking,
                     fuel, panicked, last>>
      /\ AtBlock("park") /\ Become([Top EXCEPT !.pc = "poll"])
      /\ unparked' = (unparked /\ Expired # {})
      /\ robbed' = IF Expired # {} THEN robbed ELSE robbed \cup HalfWoken
  BY DEF Unpark
<1>2. Top \in BlockCalls /\ Top.at = "block" /\ Top.pc = "park" /\ parking
  BY <1>1, BlockTop DEF IInv, Parks
<1>. DEFINE c == [Top EXCEPT !.pc = "poll"]
<1>3. c \in BlockCalls /\ c.of = Top.of /\ c.pc = "poll" /\ c.at = "block"
  BY <1>2 DEF BlockCalls, Pcs
<1>4. stack' = Turned(stack, c)
  BY <1>1, BecomeIs
<1>. HIDE DEF c
<1>5. c \in Calls /\ Calm(c) /\ Heeds(c, parking, ready, unparked', waking, robbed')
  BY <1>3 DEF Calls, Calm, AtRest, Heeds
<1>6. Idle' /\ Parks' /\ Steps'
  BY <1>4, <1>5, TopAfterTurn, CalmTop DEF IInv, Shaped
<1>7. Plain'
  BY <1>1 DEF IInv, Plain
<1>8. ASSUME NEW i \in 1..Len(stack) - 1
      PROVE  Heeds(stack[i], parking, ready, unparked', waking, robbed')
  <2>1. /\ Heeds(stack[i], parking, ready, unparked, waking, robbed)
        /\ Beneath(stack[i], stack[i + 1]) /\ stack[i] \in Calls /\ i \in DOMAIN stack
    <3>1. Piled(stack) /\ Len(stack) \in Nat
      BY TopIs DEF IInv, Shaped
    <3>2. i \in DOMAIN stack /\ DOMAIN stack = 1..Len(stack)
      BY <3>1 DEF Piled
    <3>. QED  BY <3>1, <3>2 DEF IInv, Heeded, HeededIn, Piled
  <2>2. CASE Expired # {}
    <3>1. unparked' = unparked /\ robbed' = robbed
      BY <1>1, <2>2 DEF IInv, Plain
    <3>. QED  BY <2>1, <3>1
  <2>3. CASE Expired = {} /\ stack[i].at = "block" /\ stack[i].pc = "looked"
    <3>1. stack[i].fut \in Futures /\ i \in Blocks
      BY <2>1, <2>3, CallIs DEF BlockCalls, Blocks
    <3>2. <<stack[i].fut, "awake">> \in waking => stack[i].fut \in HalfWoken
      BY <2>3, <3>1 DEF HalfWoken
    <3>3. robbed' = robbed \cup HalfWoken
      BY <1>1, <2>3
    <3>. QED  BY <1>2, <2>1, <2>3, <3>2, <3>3 DEF Heeds
  <2>4. CASE stack[i].at = "block" /\ stack[i].pc = "step" /\ stack[i].stepped = "some"
    BY <1>2, <2>1, <2>4 DEF Heeds
  <2>. QED  BY <2>1, <2>2, <2>3, <2>4 DEF Beneath, Heeds
<1>. QED  BY <1>1, <1>2, <1>3, <1>4, <1>5, <1>6, <1>7, <1>8, TurnStep

LEMMA ParkTimeKeeps ==
  ASSUME IInv, ParkTime
  PROVE  IInv'
<1>1. /\ UNCHANGED <<parking, session, runnables, unparked, timers, elapsed, blocked, ready, stack,
                     waking, robbed, fuel, panicked, last>>
      /\ AtBlock("park") /\ clock' = clock + 1
  BY DEF ParkTime, Queue
<1>2. parking
  BY <1>1, BlockTop DEF IInv, Parks
<1>3. Idle'
  BY <1>1, <1>2 DEF Idle
<1>4. Plain' /\ Sorted(session, runnables, last)'
  BY <1>1 DEF IInv, Plain
<1>. QED  BY <1>1, <1>3, <1>4, StillStep

LEMMA ParkDeadlineKeeps ==
  ASSUME IInv, ParkDeadline
  PROVE  IInv'
<1>1. /\ UNCHANGED <<parking, session, runnables, unparked, timers, elapsed, clock, ready, waking, robbed,
                     fuel, panicked, last>>
      /\ AtBlock("park") /\ Leave
  BY DEF ParkDeadline, Queue
<1>2. Top.at = "block"
  BY <1>1, BlockTop
<1>. QED  BY <1>1, <1>2, LeaveStep

-----------------------------------------------------------------------------
(* Other threads *)

LEMMA SpawnElsewhereKeeps ==
  ASSUME IInv, NEW s \in Owners, SpawnElsewhere(s)
  PROVE  IInv'
<1>1. UNCHANGED <<parking, timers, elapsed, blocked, clock, ready, stack, waking, robbed, panicked, last>>
      /\ Schedule(s) /\ parking
  BY DEF SpawnElsewhere, Elsewhere
<1>2. /\ session' \in Seq(Owners) /\ runnables' \in Seq(1..Len(session'))
      /\ last' \in [Owners -> 0..Len(session')]
      /\ Sorted(session', runnables', last') /\ unparked' = TRUE
  BY <1>1, ScheduleKeeps DEF IInv
<1>3. Plain'
  BY <1>1, <1>2 DEF IInv, Plain
<1>4. Idle'
  BY <1>1 DEF Idle
<1>. QED  BY <1>1, <1>2, <1>3, <1>4, StillStep

LEMMA CompleteElsewhereKeeps ==
  ASSUME IInv, NEW f \in Futures, CompleteElsewhere(f)
  PROVE  IInv'
<1>1. /\ UNCHANGED <<parking, session, runnables, unparked, timers, elapsed, blocked, clock, stack,
                     robbed, panicked, last>>
      /\ parking /\ ready' = ready \cup {f}
      /\ waking' = IF Waiting(f) THEN waking \cup {<<f, "unpark">>} ELSE waking
  BY DEF CompleteElsewhere, Elsewhere, Queue
<1>2. Heeded'
  <2>. SUFFICES ASSUME NEW i \in DOMAIN stack
                PROVE  Heeds(stack[i], parking, ready', unparked, waking', robbed')
    BY <1>1 DEF Heeded, HeededIn
  <2>1. Heeds(stack[i], parking, ready, unparked, waking, robbed)
    BY DEF IInv, Heeded, HeededIn
  <2>2. CASE stack[i].at = "block" /\ stack[i].fut = f
    <3>1. stack[i].waker => Waiting(f)
      BY <2>2 DEF Waiting, Blocks
    <3>. QED  BY <1>1, <2>1, <2>2, <3>1 DEF Heeds
  <2>3. CASE ~ (stack[i].at = "block" /\ stack[i].fut = f)
    BY <1>1, <2>1, <2>3 DEF Heeds
  <2>. QED  BY <2>2, <2>3
<1>3. Idle'
  BY <1>1 DEF Idle
<1>4. Plain' /\ Shaped(stack', blocked') /\ Sorted(session, runnables, last)'
  BY <1>1 DEF IInv, Plain
<1>5. Parks' /\ Steps'
  BY <1>1, TopStays DEF IInv, Parks, Steps
<1>. QED  BY <1>2, <1>3, <1>4, <1>5 DEF IInv

LEMMA SetUnparkedKeeps ==
  ASSUME IInv, NEW f \in Futures, SetUnparked(f)
  PROVE  IInv'
<1>1. /\ UNCHANGED <<parking, session, runnables, timers, elapsed, blocked, clock, ready, stack,
                     robbed, fuel, panicked, last>>
      /\ unparked' = TRUE /\ waking' = (waking \ {<<f, "unpark">>}) \cup {<<f, "awake">>}
  BY DEF SetUnparked
<1>2. Plain' /\ Sorted(session, runnables, last)'
  BY <1>1 DEF IInv, Plain
<1>3. Idle'
  <2>1. NoStep(FALSE) => NoStep(FALSE)'
    BY <1>1 DEF NoStep, Expired, Candidates
  <2>. QED  BY <1>1, <2>1, TopStays DEF IInv, Idle
<1>4. \A g : Begun(g, waking) => Begun(g, waking')
  BY <1>1 DEF Begun
<1>. QED  BY <1>1, <1>2, <1>3, <1>4, StillStep

LEMMA SetAwokenKeeps ==
  ASSUME IInv, NEW f \in Futures, SetAwoken(f)
  PROVE  IInv'
<1>1. /\ UNCHANGED <<parking, session, runnables, unparked, timers, elapsed, blocked, clock, ready,
                     robbed, fuel, panicked, last>>
      /\ stack' = Awoken(f, stack) /\ waking' = waking \ {<<f, "awake">>}
  BY DEF SetAwoken, Queue
<1>2. Plain' /\ Sorted(session, runnables, last)'
  BY <1>1 DEF IInv, Plain
<1>3. Idle'
  <2>1. NoStep(FALSE) => NoStep(FALSE)'
    BY <1>1 DEF NoStep, Expired, Candidates
  <2>2. /\ Top'.at = Top.at
        /\ Top.at = "block" => Top'.pc = Top.pc /\ Top'.stepped = Top.stepped
    BY <1>1, AwokenTop DEF IInv
  <2>. QED  BY <1>1, <2>1, <2>2 DEF IInv, Idle, AtRest
<1>. QED  BY <1>1, <1>2, <1>3, AwokenStep

-----------------------------------------------------------------------------
LEMMA InitIInv == Init => IInv
<1>. SUFFICES ASSUME Init  PROVE IInv
  OBVIOUS
<1>1. /\ stack = <<Test>> /\ Test \in Calls /\ blocked = <<>> /\ session = <<>> /\ runnables = <<>>
      /\ timers = <<>> /\ elapsed = <<>> /\ last = [s \in Owners |-> 0] /\ clock = 0
      /\ parking \in BOOLEAN /\ unparked = FALSE
  BY CallsMade DEF Init
<1>2. Plain
  <2>1. session \in Seq(Owners) /\ runnables \in Seq(1..Len(session)) /\ timers \in Seq(Timers)
        /\ elapsed \in Seq(Futures \cup Owners) /\ Len(session) = 0
    BY <1>1, EmptySeq
  <2>2. last \in [Owners -> 0..Len(session)]
    <3>1. 0 \in 0..0
      OBVIOUS
    <3>. QED  BY <1>1, <2>1, <3>1
  <2>. QED  BY <1>1, <2>1, <2>2 DEF Plain
<1>3. stack \in Seq(Calls) /\ Len(stack) = 1 /\ stack[1] = Test /\ DOMAIN stack = 1..1 /\ Test.at = "test"
  BY <1>1 DEF Test
<1>4. Piled(stack) /\ Waits(stack)
  <2>1. \A i \in 1..Len(stack) - 1 : FALSE
    BY <1>3
  <2>2. stack # <<>>
    BY <1>1
  <2>3. \A i \in DOMAIN stack : ~Named(stack[i])
    BY <1>3 DEF Named
  <2>. QED  BY <1>3, <2>1, <2>2, <2>3 DEF Piled, Waits
<1>5. Matched(stack, blocked)
  <2>. DEFINE pos == [k \in DOMAIN blocked |-> 1]
  <2>1. DOMAIN blocked = {} /\ blocked \in Seq(Sessions)
    BY <1>1
  <2>2. \A i \in DOMAIN stack : ~Named(stack[i])
    BY <1>3 DEF Named
  <2>3. MatchedAt(stack, blocked, pos)
    BY <2>1, <2>2 DEF MatchedAt
  <2>. QED  BY <2>1, <2>3 DEF Matched
<1>6. Sorted(session, runnables, last)
  BY <1>1 DEF Sorted
<1>7. Idle /\ Parks /\ Steps
  BY <1>1, <1>3 DEF Idle, Parks, Steps, AtRest, Top
<1>8. Heeded
  BY <1>3 DEF Heeded, HeededIn, Heeds
<1>. QED  BY <1>2, <1>4, <1>5, <1>6, <1>7, <1>8 DEF IInv, Shaped

LEMMA StutterKeeps ==
  ASSUME IInv, UNCHANGED vars
  PROVE  IInv'
<1>1. UNCHANGED <<parking, session, runnables, unparked, timers, elapsed, blocked, clock, ready, stack,
                  waking, robbed, last>>
  BY DEF vars
<1>2. Plain' /\ Sorted(session, runnables, last)'
  BY <1>1 DEF IInv, Plain
<1>3. Idle'
  <2>1. NoStep(FALSE) => NoStep(FALSE)'
    BY <1>1 DEF NoStep, Expired, Candidates
  <2>. QED  BY <1>1, <2>1, TopStays DEF IInv, Idle
<1>. QED  BY <1>1, <1>2, <1>3, StillStep

LEMMA NextIInv == IInv /\ [Next]_vars => IInv'
<1>. SUFFICES ASSUME IInv, [Next]_vars  PROVE IInv'
  OBVIOUS
<1>1. ASSUME UserCode  PROVE IInv'
  BY <1>1, SpawnKeeps, CompleteKeeps, StartTimerKeeps, BlockOnKeeps, RunUntilParkedKeeps,
     AdvanceClockKeeps, TickKeeps DEF UserCode
<1>2. ASSUME Machinery  PROVE IInv'
  BY <1>2, WakeElapsedKeeps, ReturnKeeps, RunStepKeeps, EndRunKeeps, AdvanceKeeps, PollKeeps,
     PendingKeeps, BlockStepKeeps, EndStepsKeeps, CheckKeeps, UnparkKeeps DEF Machinery
<1>3. ASSUME Others  PROVE IInv'
  BY <1>3, SpawnElsewhereKeeps, CompleteElsewhereKeeps, SetUnparkedKeeps, SetAwokenKeeps DEF Others
<1>. QED  BY <1>1, <1>2, <1>3, ParkTimeKeeps, ParkDeadlineKeeps, StutterKeeps DEF Next

LEMMA Inductive == Spec => []IInv
<1>. QED  BY InitIInv, NextIInv, PTL DEF Spec

-----------------------------------------------------------------------------
(* The types: no runnable is queued twice, the timers are in order, and    *)
(* the clock goes nowhere beyond its bound.                                *)

Punctual(tm) ==
  \A i \in DOMAIN tm : /\ tm[i].when \in 0..MaxClock
                       /\ \A j \in DOMAIN tm : i < j => tm[i].when <= tm[j].when
Bounded(st) == \A i \in DOMAIN st : st[i].at = "advance" => st[i].to \in 0..MaxClock

Typed ==
  /\ Len(session) <= MaxTasks /\ IsInjective(runnables)
  /\ Punctual(timers) /\ clock \in 0..MaxClock /\ Bounded(stack)
  /\ ready \subseteq Futures /\ fuel \in 0..MaxOps /\ panicked \in BOOLEAN
  /\ waking \subseteq Futures \X {"unpark", "awake"} /\ robbed \subseteq Futures

(* The queue: a new number is inserted, or a runnable taken out. *)
LEMMA InsertedOnce ==
  ASSUME NEW n \in Nat, NEW s \in Seq(1..n), IsInjective(s), NEW i \in 1..Len(s) + 1
  PROVE  IsInjective(InsertAt(s, i, n + 1))
<1>. DEFINE N == n + 1
            t == InsertAt(s, i, N)
<1>1. s \in Seq(1..N) /\ N \in 1..N /\ Len(s) \in Nat /\ DOMAIN s = 1..Len(s)
  <2>1. 1..n \subseteq 1..N
    OBVIOUS
  <2>. QED  BY <2>1, SeqMonotonic
<1>2. /\ t \in Seq(1..N) /\ Len(t) = Len(s) + 1
      /\ \A j \in 1..i - 1 : t[j] = s[j]
      /\ t[i] = N
      /\ \A j \in i + 1..Len(s) + 1 : t[j] = s[j - 1]
  <2>. DEFINE T == 1..N
  <2>1. s \in Seq(T) /\ N \in T
    BY <1>1
  <2>. HIDE DEF N, T
  <2>2. t \in Seq(T) /\ Len(t) = Len(s) + 1
    BY <2>1, Inserted
  <2>3. /\ \A j \in 1..i - 1 : t[j] = s[j]
        /\ t[i] = N
        /\ \A j \in i + 1..Len(s) + 1 : t[j] = s[j - 1]
    BY <2>1, Inserted
  <2>. QED  BY <2>2, <2>3 DEF T
<1>3. DOMAIN t = 1..Len(s) + 1
  <2>. HIDE DEF t
  <2>. QED  BY <1>1, <1>2
<1>. HIDE DEF t
<1>. DEFINE was(j) == IF j < i THEN j ELSE j - 1
<1>4. ASSUME NEW j \in 1..Len(s) + 1, j # i
      PROVE  was(j) \in DOMAIN s /\ t[j] = s[was(j)] /\ t[j] # N
  <2>1. \/ j \in 1..i - 1 /\ was(j) = j /\ j \in 1..Len(s)
        \/ j \in i + 1..Len(s) + 1 /\ was(j) = j - 1 /\ j - 1 \in 1..Len(s)
    BY <1>1, <1>4
  <2>2. was(j) \in DOMAIN s /\ t[j] = s[was(j)]
    BY <1>1, <1>2, <2>1
  <2>3. s[was(j)] \in 1..n
    <3>. HIDE DEF was
    <3>. QED  BY <1>1, <2>2, ElementOfSeq
  <2>. QED  BY <2>2, <2>3
<1>5. ASSUME NEW a \in 1..Len(s) + 1, NEW b \in 1..Len(s) + 1, t[a] = t[b]  PROVE a = b
  <2>1. CASE a # i /\ b # i
    <3>1. was(a) = was(b)
      <4>. HIDE DEF was
      <4>. QED  BY <1>4, <1>5, <2>1 DEF IsInjective
    <3>. QED  BY <2>1, <3>1
  <2>2. CASE a = i \/ b = i
    <3>. HIDE DEF was
    <3>. QED  BY <1>2, <1>4, <1>5, <2>2
  <2>. QED  BY <2>1, <2>2
<1>. QED  BY <1>3, <1>5 DEF IsInjective, t

LEMMA RemovedOnce ==
  ASSUME NEW T, NEW s \in Seq(T), IsInjective(s), NEW i \in 1..Len(s)
  PROVE  IsInjective(RemoveAt(s, i))
<1>. DEFINE t == RemoveAt(s, i)
            was(j) == IF j < i THEN j ELSE j + 1
<1>1. /\ t \in Seq(T) /\ Len(t) = Len(s) - 1 /\ Len(s) \in Nat
      /\ \A j \in 1..i - 1 : t[j] = s[j]
      /\ \A j \in i..Len(s) - 1 : t[j] = s[j + 1]
  <2>1. /\ RemoveAt(s, i) \in Seq(T) /\ Len(RemoveAt(s, i)) = Len(s) - 1
        /\ \A j \in 1..i - 1 : RemoveAt(s, i)[j] = s[j]
        /\ \A j \in i..Len(s) - 1 : RemoveAt(s, i)[j] = s[j + 1]
    BY Removed, Zenon
  <2>2. Len(s) \in Nat
    BY LenProperties
  <2>3. t = RemoveAt(s, i)
    OBVIOUS
  <2>. HIDE DEF t
  <2>. QED  BY <2>1, <2>2, <2>3
<1>. HIDE DEF t
<1>2. DOMAIN t = 1..Len(s) - 1 /\ DOMAIN s = 1..Len(s)
  BY <1>1
<1>3. \A j \in 1..Len(s) - 1 : was(j) \in 1..Len(s) /\ t[j] = s[was(j)]
  BY <1>1
<1>4. ASSUME NEW a \in DOMAIN t, NEW b \in DOMAIN t, t[a] = t[b]  PROVE a = b
  <2>1. was(a) = was(b)
    <3>. HIDE DEF was
    <3>. QED  BY <1>2, <1>3, <1>4 DEF IsInjective
  <2>. QED  BY <1>2, <2>1
<1>. QED  BY <1>4 DEF IsInjective, t

LEMMA ScheduleTyped ==
  ASSUME Plain, Typed, NEW s \in Owners, Schedule(s)
  PROVE  Len(session') <= MaxTasks /\ IsInjective(runnables')
<1>1. session \in Seq(Owners) /\ runnables \in Seq(1..Len(session)) /\ Len(session) \in Nat
  BY DEF Plain
<1>2. PICK i \in 1..Len(runnables) + 1 : runnables' = InsertAt(runnables, i, Len(session) + 1)
  BY ScheduledAt
<1>3. IsInjective(runnables')
  BY <1>1, <1>2, InsertedOnce DEF Typed
<1>4. Len(session') = Len(session) + 1 /\ Len(session) < MaxTasks
  BY <1>1 DEF Schedule
<1>. QED  BY <1>1, <1>3, <1>4, BoundsAssumption

LEMMA QueueTyped ==
  ASSUME IInv, Typed, [Next]_vars
  PROVE  Len(session') <= MaxTasks /\ IsInjective(runnables')
<1>1. CASE UNCHANGED <<session, runnables>>
  BY <1>1 DEF Typed
<1>2. CASE \E s \in Owners : Schedule(s)
  BY <1>2, ScheduleTyped DEF IInv
<1>3. ASSUME NEW call, NEW bo, StepRun(call, bo), UNCHANGED session
      PROVE  Len(session') <= MaxTasks /\ IsInjective(runnables')
  <2>1. PICK i \in DOMAIN runnables : runnables' = RemoveAt(runnables, i)
    BY <1>3 DEF StepRun, Candidates
  <2>2. runnables \in Seq(1..Len(session)) /\ i \in 1..Len(runnables)
    BY DEF IInv, Plain
  <2>3. IsInjective(runnables')
    BY <2>1, <2>2, RemovedOnce DEF Typed
  <2>. QED  BY <1>3, <2>3 DEF Typed
<1>4. ASSUME NEW call, NEW bo, Step(call, bo), UNCHANGED stepUnchanged
      PROVE  Len(session') <= MaxTasks /\ IsInjective(runnables')
  BY <1>1, <1>3, <1>4 DEF Step, StepTimers, stepUnchanged
<1>5. CASE WakeElapsed
  <2>1. Head(elapsed) \in Futures \cup Owners
    <3>1. elapsed \in Seq(Futures \cup Owners) /\ elapsed # <<>>
      BY <1>5 DEF WakeElapsed, IInv, Plain
    <3>. QED  BY <3>1
  <2>. QED  BY <1>1, <1>2, <1>5, <2>1 DEF WakeElapsed, Queue
<1>6. CASE RunStep \/ BlockStep
  BY <1>4, <1>6 DEF RunStep, BlockStep
<1>7. ASSUME NEW bo \in BOOLEAN, Tick(bo)  PROVE Len(session') <= MaxTasks /\ IsInjective(runnables')
  BY <1>4, <1>7 DEF Tick
<1>8. CASE \E s \in Owners : Spawn(s) \/ SpawnElsewhere(s)
  BY <1>2, <1>8 DEF Spawn, SpawnElsewhere
<1>9. CASE \/ \E f \in Futures : Complete(f) \/ CompleteElsewhere(f) \/ SetUnparked(f) \/ SetAwoken(f)
           \/ \E d \in 1..MaxClock, x \in Futures \cup Owners : StartTimer(d, x)
           \/ \E s \in Owners, f \in Futures, limited \in BOOLEAN, n \in 0..MaxTicks : BlockOn(s, f, limited, n)
           \/ RunUntilParked \/ \E d \in 1..MaxClock : AdvanceClock(d)
  BY <1>1, <1>9 DEF Complete, Wake, CompleteElsewhere, SetUnparked, SetAwoken, StartTimer, BlockOn, RunUntilParked,
     AdvanceClock, Queue
<1>10. CASE Return \/ EndRun \/ Advance \/ Poll \/ Pending \/ EndSteps \/ Check \/ Unpark \/ ParkTime \/ ParkDeadline
            \/ UNCHANGED vars
  BY <1>1, <1>10 DEF Return, EndRun, Advance, Poll, Pending, EndSteps, Check, Unpark, ParkTime, ParkDeadline, Queue, vars
<1>. QED  BY <1>5, <1>6, <1>7, <1>8, <1>9, <1>10 DEF Next, UserCode, Machinery, Others

(* The timers up to a time are the first ones: *)
LEMMA EarlierAreFirst ==
  ASSUME Plain, Punctual(timers), NEW t \in Nat
  PROVE  LET before == {j \in DOMAIN timers : timers[j].when <= t} IN
           Cardinality(before) \in 0..Len(timers) /\ before = 1..Cardinality(before)
<1>. DEFINE before == {j \in DOMAIN timers : timers[j].when <= t}
            n == Len(timers)
            m == Max({0} \cup before)
<1>1. n \in Nat /\ DOMAIN timers = 1..n
  BY DEF Plain
<1>2. m \in {0} \cup before /\ \A y \in {0} \cup before : y <= m
  <2>1. {0} \cup before \in SUBSET (0..n)
    BY <1>1
  <2>. HIDE DEF before, n
  <2>2. IsFiniteSet({0} \cup before) /\ {0} \cup before \in SUBSET Nat
    BY <1>1, <2>1, PositionsAreFinite
  <2>. QED  BY <2>2, MaxIsGreatest
<1>. HIDE DEF m
<1>3. m \in 0..n
  BY <1>1, <1>2
<1>4. ASSUME NEW j \in 1..m  PROVE j \in before
  <2>1. m \in before /\ m \in DOMAIN timers /\ j \in DOMAIN timers
    BY <1>1, <1>2, <1>3
  <2>2. timers[j].when \in Nat /\ timers[m].when \in Nat /\ timers[m].when <= t
    BY <2>1 DEF Punctual
  <2>3. j = m \/ timers[j].when <= timers[m].when
    <3>1. j = m \/ j < m
      BY <1>3
    <3>. QED  BY <2>1, <3>1 DEF Punctual
  <2>. QED  BY <2>1, <2>2, <2>3
<1>5. before = 1..m
  <2>1. \A j \in before : j \in 1..m
    BY <1>1, <1>2, <1>3
  <2>. HIDE DEF before
  <2>. QED  BY <1>4, <2>1
<1>6. Cardinality(1..m) = m
  <2>1. \A a, b \in Int : Cardinality(a..b) = IF a > b THEN 0 ELSE b - a + 1
    BY FS_Interval
  <2>2. Cardinality(1..m) = IF 1 > m THEN 0 ELSE m - 1 + 1
    BY <1>3, <2>1
  <2>. QED  BY <1>3, <2>2
<1>. HIDE DEF before
<1>7. Cardinality(before) \in 0..n /\ before = 1..Cardinality(before)
  BY <1>3, <1>5, <1>6
<1>. QED  BY <1>7 DEF before, n

(* so that a new one is put in order. *)
LEMMA StartTimerTyped ==
  ASSUME Plain, Typed, NEW d \in 1..MaxClock, NEW x \in Futures \cup Owners, StartTimer(d, x)
  PROVE  Punctual(timers')
<1>. DEFINE t == clock + d
            before == {j \in DOMAIN timers : timers[j].when <= t}
            c == Cardinality(before)
            i == 1 + c
            e == [when |-> t, wakes |-> x]
            n == Len(timers)
<1>1. timers \in Seq(Timers) /\ n \in Nat /\ DOMAIN timers = 1..n /\ clock \in Nat
  BY DEF Plain
<1>2. t \in 0..MaxClock /\ t \in Nat
  BY <1>1, BoundsAssumption DEF StartTimer
<1>3. timers' = InsertAt(timers, i, e) /\ e \in Timers /\ e.when = t
  BY <1>2 DEF StartTimer, Timers
<1>. HIDE DEF t
<1>4. c \in 0..n /\ before = 1..c
  BY <1>2, EarlierAreFirst DEF Typed
<1>5. \A j \in 1..n : /\ timers[j].when \in 0..MaxClock
                      /\ j <= c => timers[j].when <= t
                      /\ j > c => t <= timers[j].when
                      /\ \A k \in 1..n : j < k => timers[j].when <= timers[k].when
  <2>1. \A j \in 1..n : timers[j].when \in 0..MaxClock /\ (j \in 1..c <=> timers[j].when <= t)
    <3>. HIDE DEF c
    <3>. QED  BY <1>1, <1>4 DEF Typed, Punctual
  <2>. HIDE DEF c, before
  <2>2. \A j \in 1..n : j <= c <=> j \in 1..c
    BY <1>4
  <2>3. \A j \in 1..n : timers[j].when \in Nat
    BY <2>1, BoundsAssumption
  <2>4. \A j, k \in 1..n : j < k => timers[j].when <= timers[k].when
    BY <1>1 DEF Typed, Punctual
  <2>5. \A j \in 1..n : j > c => ~ (j <= c)
    BY <1>1, <1>4
  <2>6. \A j \in 1..n : ~ (timers[j].when <= t) => t <= timers[j].when
    BY <1>2, <2>3
  <2>. HIDE DEF n
  <2>. QED  BY <2>1, <2>2, <2>4, <2>5, <2>6
<1>. HIDE DEF c, before, e, n
<1>6. i \in 1..n + 1
  BY <1>1, <1>4
<1>7. /\ timers' \in Seq(Timers) /\ Len(timers') = n + 1
      /\ \A j \in 1..i - 1 : timers'[j] = timers[j]
      /\ timers'[i] = e
      /\ \A j \in i + 1..n + 1 : timers'[j] = timers[j - 1]
  <2>. DEFINE tm == InsertAt(timers, i, e)
  <2>. HIDE DEF i
  <2>1. timers \in Seq(Timers) /\ e \in Timers /\ i \in 1..Len(timers) + 1
    BY <1>1, <1>3, <1>6 DEF n
  <2>2. tm \in Seq(Timers) /\ Len(tm) = n + 1
    BY <2>1, Inserted DEF n
  <2>3. /\ \A j \in 1..i - 1 : tm[j] = timers[j]
        /\ tm[i] = e
        /\ \A j \in i + 1..n + 1 : tm[j] = timers[j - 1]
    BY <2>1, Inserted DEF n
  <2>. HIDE DEF tm
  <2>4. timers' = tm
    BY <1>3 DEF tm
  <2>. QED  BY <2>2, <2>3, <2>4
<1>8. DOMAIN timers' = 1..n + 1
  BY <1>1, <1>7
<1>. DEFINE was(j) == IF j < i THEN j ELSE j - 1
<1>9. ASSUME NEW j \in 1..n + 1
      PROVE  IF j = i THEN timers'[j].when = t
             ELSE /\ was(j) \in 1..n /\ timers'[j].when = timers[was(j)].when
                  /\ j < i => was(j) <= c
                  /\ j > i => was(j) > c
  <2>1. CASE j = i
    BY <1>3, <1>7, <2>1
  <2>2. CASE j # i
    <3>1. \/ j \in 1..i - 1 /\ was(j) = j /\ j \in 1..n /\ j < i /\ j <= c
          \/ j \in i + 1..n + 1 /\ was(j) = j - 1 /\ j - 1 \in 1..n /\ ~ (j < i) /\ j - 1 > c
      BY <1>1, <1>4, <1>6, <2>2
    <3>. HIDE DEF i
    <3>2. was(j) \in 1..n /\ timers'[j] = timers[was(j)]
      BY <1>7, <3>1
    <3>3. (j < i => was(j) <= c) /\ (j > i => was(j) > c)
      BY <1>6, <3>1
    <3>. HIDE DEF was
    <3>. QED  BY <2>2, <3>2, <3>3
  <2>. QED  BY <2>1, <2>2
<1>10. ASSUME NEW j \in 1..n + 1  PROVE timers'[j].when \in 0..MaxClock
  <2>. HIDE DEF was
  <2>. QED  BY <1>2, <1>5, <1>9, <1>10
<1>11. ASSUME NEW j \in 1..n + 1, NEW k \in 1..n + 1, j < k
       PROVE  timers'[j].when <= timers'[k].when
  <2>1. i \in Int /\ j \in Int /\ k \in Int
    BY <1>6
  <2>2. CASE j = i
    <3>1. k # i /\ k > i
      BY <1>11, <2>1, <2>2
    <3>. HIDE DEF was, i
    <3>. QED  BY <1>5, <1>9, <2>2, <3>1
  <2>3. CASE k = i
    <3>1. j # i /\ j < i
      BY <1>11, <2>1, <2>3
    <3>. HIDE DEF was, i
    <3>. QED  BY <1>5, <1>9, <2>3, <3>1
  <2>4. CASE j # i /\ k # i
    <3>1. was(j) < was(k)
      BY <1>11, <2>1, <2>4
    <3>. HIDE DEF was, i
    <3>. QED  BY <1>5, <1>9, <2>4, <3>1
  <2>. QED  BY <2>2, <2>3, <2>4
<1>. QED  BY <1>8, <1>10, <1>11 DEF Punctual

(* What is left after the expired timers is in order. *)
LEMMA DrainedTyped ==
  ASSUME Plain, Typed, NEW call, StepTimers(call)
  PROVE  Punctual(timers')
<1>. DEFINE m == Max(Expired)
            n == Len(timers)
            k == m + 1
<1>1. timers \in Seq(Timers) /\ n \in Nat /\ DOMAIN timers = 1..n
  BY DEF Plain
<1>2. m \in 1..n
  <2>1. Expired \in SUBSET (0..n) /\ Expired # {} /\ Expired \subseteq 1..n
    BY <1>1 DEF Expired, StepTimers
  <2>. HIDE DEF n
  <2>2. IsFiniteSet(Expired) /\ Expired \in SUBSET Nat
    BY <1>1, <2>1, PositionsAreFinite
  <2>3. m \in Expired
    BY <2>1, <2>2, MaxIsGreatest
  <2>. QED  BY <2>1, <2>3
<1>3. timers' = SubSeq(timers, k, n)
  BY DEF StepTimers
<1>. HIDE DEF m
<1>4. k \in 1..n + 1
  BY <1>1, <1>2
<1>5. /\ timers' \in Seq(Timers) /\ Len(timers') = n - k + 1
      /\ \A j \in 1..n - k + 1 : timers'[j] = timers[k + j - 1]
  <2>. HIDE DEF k
  <2>. QED  BY <1>1, <1>3, <1>4, PartsAre
<1>. HIDE DEF n
<1>6. DOMAIN timers' = 1..n - k + 1
  BY <1>5
<1>7. \A j \in 1..n - k + 1 : k + j - 1 \in 1..n /\ \A l \in 1..n - k + 1 : j < l => k + j - 1 < k + l - 1
  BY <1>1, <1>4
<1>. HIDE DEF k
<1>. QED  BY <1>1, <1>5, <1>6, <1>7 DEF Typed, Punctual

LEMMA TimersTyped ==
  ASSUME IInv, Typed, [Next]_vars
  PROVE  Punctual(timers')
<1>1. CASE UNCHANGED timers
  BY <1>1 DEF Typed
<1>2. ASSUME NEW call, NEW bo, Step(call, bo)  PROVE Punctual(timers')
  BY <1>1, <1>2, DrainedTyped DEF Step, StepRun, IInv
<1>3. CASE \E bo \in BOOLEAN : Tick(bo)
  BY <1>2, <1>3 DEF Tick
<1>4. CASE RunStep \/ BlockStep
  BY <1>2, <1>4 DEF RunStep, BlockStep
<1>5. CASE \E d \in 1..MaxClock, x \in Futures \cup Owners : StartTimer(d, x)
  BY <1>5, StartTimerTyped DEF IInv
<1>6. CASE \/ \E s \in Owners : Spawn(s) \/ SpawnElsewhere(s)
           \/ \E f \in Futures : Complete(f) \/ CompleteElsewhere(f) \/ SetUnparked(f) \/ SetAwoken(f)
           \/ \E s \in Owners, f \in Futures, limited \in BOOLEAN, n \in 0..MaxTicks : BlockOn(s, f, limited, n)
           \/ RunUntilParked \/ \E d \in 1..MaxClock : AdvanceClock(d)
  BY <1>1, <1>6 DEF Spawn, SpawnElsewhere, Complete, CompleteElsewhere, SetUnparked, SetAwoken, BlockOn,
     RunUntilParked, AdvanceClock
<1>7. CASE WakeElapsed \/ Return \/ EndRun \/ Advance \/ Poll \/ Pending \/ EndSteps \/ Check \/ Unpark \/ ParkTime
           \/ ParkDeadline \/ UNCHANGED vars
  BY <1>1, <1>7 DEF WakeElapsed, Return, EndRun, Advance, Poll, Pending, EndSteps, Check, Unpark, ParkTime, ParkDeadline, vars
<1>. QED  BY <1>3, <1>4, <1>5, <1>6, <1>7 DEF Next, UserCode, Machinery, Others

(* The clock, and the calls that move it. *)
LEMMA LaterIsBounded ==
  ASSUME clock \in 0..MaxClock, NEW t \in 0..MaxClock
  PROVE  Later(t) \in 0..MaxClock
<1>1. {clock, t} \in SUBSET Nat /\ {clock, t} # {} /\ IsFiniteSet({clock, t})
  <2>1. IsFiniteSet({clock}) /\ {clock, t} = {clock} \cup {t}
    BY FS_Singleton
  <2>2. IsFiniteSet({clock} \cup {t})
    BY <2>1, FS_AddElement
  <2>. QED  BY <2>1, <2>2, BoundsAssumption
<1>2. Later(t) \in {clock, t}
  BY <1>1, MaxIsGreatest DEF Later
<1>. QED  BY <1>2

LEMMA ClockTyped ==
  ASSUME IInv, Typed, [Next]_vars
  PROVE  clock' \in 0..MaxClock
<1>1. CASE UNCHANGED clock
  BY <1>1 DEF Typed
<1>2. ASSUME timers # <<>>, clock' = Later(timers[1].when)  PROVE clock' \in 0..MaxClock
  <2>1. 1 \in DOMAIN timers
    BY <1>2 DEF IInv, Plain
  <2>2. timers[1].when \in 0..MaxClock
    BY <2>1 DEF Typed, Punctual
  <2>. QED  BY <1>2, <2>2, LaterIsBounded DEF Typed
<1>3. CASE Advance
  <2>1. Top.to \in 0..MaxClock
    BY <1>3, TopIs DEF Advance, At, Typed, Bounded, IInv, Shaped
  <2>. QED  BY <1>2, <1>3, <2>1, LaterIsBounded DEF Advance, Typed
<1>4. CASE Check
  BY <1>1, <1>2, <1>4 DEF Check
<1>5. CASE ParkTime
  BY <1>5, BoundsAssumption DEF ParkTime, Typed
<1>6. CASE UserCode \/ Others
  BY <1>1, <1>6 DEF UserCode, Others, Spawn, SpawnElsewhere, Complete, CompleteElsewhere, SetUnparked, SetAwoken,
     BlockOn, StartTimer, RunUntilParked, AdvanceClock, Tick, stepUnchanged
<1>7. CASE WakeElapsed \/ Return \/ RunStep \/ EndRun \/ Poll \/ Pending \/ BlockStep \/ EndSteps \/ Unpark
           \/ ParkDeadline \/ UNCHANGED vars
  BY <1>1, <1>7 DEF WakeElapsed, Return, RunStep, EndRun, Poll, Pending, BlockStep, EndSteps, Unpark, ParkDeadline,
     stepUnchanged, vars
<1>. QED  BY <1>3, <1>4, <1>5, <1>6, <1>7 DEF Next, Machinery

LEMMA PushBounded ==
  ASSUME NEW st \in Seq(Calls), Bounded(st), NEW c \in Calls, c.at = "advance" => c.to \in 0..MaxClock
  PROVE  Bounded(Append(st, c))
<1>1. /\ Len(st) \in Nat /\ DOMAIN Append(st, c) = 1..Len(st) + 1 /\ DOMAIN st = 1..Len(st)
      /\ \A i \in 1..Len(st) : Append(st, c)[i] = st[i]
      /\ Append(st, c)[Len(st) + 1] = c
  BY PushedIs
<1>2. \A i \in 1..Len(st) + 1 : i = Len(st) + 1 \/ i \in 1..Len(st)
  BY <1>1
<1>. QED  BY <1>1, <1>2 DEF Bounded

LEMMA CutBounded ==
  ASSUME NEW st \in Seq(Calls), st # <<>>, Bounded(st)
  PROVE  Bounded(Cut(st)) /\ Cut(st) \in Seq(Calls)
<1>1. /\ Len(st) \in Nat /\ DOMAIN Cut(st) = 1..Len(st) - 1 /\ DOMAIN st = 1..Len(st)
      /\ \A i \in 1..Len(st) - 1 : Cut(st)[i] = st[i]
      /\ Cut(st) \in Seq(Calls)
  BY CutIs
<1>2. \A i \in 1..Len(st) - 1 : i \in 1..Len(st)
  BY <1>1
<1>. QED  BY <1>1, <1>2 DEF Bounded

LEMMA TurnBounded ==
  ASSUME NEW st \in Seq(Calls), st # <<>>, Bounded(st), NEW c \in Calls, c.at # "advance"
  PROVE  Bounded(Turned(st, c)) /\ Turned(st, c) \in Seq(Calls)
<1>. DEFINE s == Cut(st)
<1>1. s \in Seq(Calls) /\ Bounded(s)
  BY CutBounded
<1>. HIDE DEF s
<1>2. Bounded(Append(s, c))
  BY <1>1, PushBounded
<1>. QED  BY <1>1, <1>2, PushedIs DEF s, Turned

LEMMA AwokenBounded ==
  ASSUME IInv, Typed, NEW f, stack' = Awoken(f, stack)
  PROVE  Bounded(stack')
<1>1. /\ DOMAIN stack' = DOMAIN stack
      /\ \A i \in DOMAIN stack :
           stack'[i] = IF stack[i].at = "block" /\ stack[i].fut = f /\ stack[i].waker
                       THEN [stack[i] EXCEPT !.awoken = TRUE] ELSE stack[i]
  BY AwokenIs DEF IInv
<1>2. \A i \in DOMAIN stack : stack[i] \in Calls
  BY DEF IInv, Shaped, Piled
<1>3. \A i \in DOMAIN stack : stack[i].at = "block" => [stack[i] EXCEPT !.awoken = TRUE].at = "block"
  BY <1>2, CallIs DEF BlockCalls
<1>. QED  BY <1>1, <1>3 DEF Typed, Bounded

LEMMA StackTyped ==
  ASSUME IInv, Typed, [Next]_vars
  PROVE  Bounded(stack')
<1>1. stack \in Seq(Calls) /\ stack # <<>> /\ Top \in Calls /\ Bounded(stack)
  BY TopIs DEF IInv, Shaped, Piled, Typed
<1>2. CASE UNCHANGED stack
  BY <1>1, <1>2
<1>3. CASE \E f \in Futures : stack' = Awoken(f, stack)
  BY <1>3, AwokenBounded
<1>4. ASSUME NEW c \in Calls, stack' = Append(stack, c), c.at = "advance" => c.to \in 0..MaxClock
      PROVE  Bounded(stack')
  BY <1>1, <1>4, PushBounded
<1>5. CASE Pop
  BY <1>1, <1>5, PopIs, CutBounded
<1>6. ASSUME NEW c \in Calls, c.at # "advance", Become(c)  PROVE Bounded(stack')
  BY <1>1, <1>6, BecomeIs, TurnBounded
<1>7. ASSUME NEW c \in Calls, c.at # "advance", NEW bo, Step(c, bo)  PROVE Bounded(stack')
  <2>1. CASE StepTimers(c)
    BY <1>6, <1>7, <2>1 DEF StepTimers
  <2>2. CASE StepRun(c, bo)
    <3>1. PICK i \in DOMAIN runnables : stack' = Append(Turned(stack, c), Task(session[runnables[i]]))
      BY <2>2 DEF StepRun, Candidates, Turned, Under, Cut
    <3>. DEFINE s == session[runnables[i]]
                ts == Turned(stack, c)
    <3>2. s \in Owners
      BY DEF IInv, Plain
    <3>. HIDE DEF s
    <3>3. Task(s) \in Calls /\ Task(s).at = "task"
      BY <3>2, CallsMade
    <3>4. ts \in Seq(Calls) /\ Bounded(ts)
      BY <1>1, <1>7, TurnBounded
    <3>. HIDE DEF ts
    <3>5. Bounded(Append(ts, Task(s)))
      BY <3>3, <3>4, PushBounded
    <3>. QED  BY <3>1, <3>5 DEF s, ts
  <2>. QED  BY <1>7, <2>1, <2>2 DEF Step
<1>8. ASSUME NEW c, c \in BlockCalls  PROVE c \in Calls /\ c.at # "advance"
  BY <1>8 DEF Calls, BlockCalls
<1>9. CASE \E s \in Owners, f \in Futures, limited \in BOOLEAN, n \in 0..MaxTicks : BlockOn(s, f, limited, n)
  <2>1. PICK s \in Owners, f \in Futures, limited \in BOOLEAN, n \in 0..MaxTicks : BlockOn(s, f, limited, n)
    BY <1>9
  <2>2. Block(s, f, limited, n) \in BlockCalls
    BY DEF Block, BlockCalls, Pcs
  <2>. QED  BY <1>4, <1>8, <2>1, <2>2 DEF BlockOn, Push
<1>10. CASE RunUntilParked
  BY <1>4, <1>10, CallsMade DEF RunUntilParked, Push
<1>11. CASE \E d \in 1..MaxClock : AdvanceClock(d)
  <2>1. PICK d \in 1..MaxClock : clock + d <= MaxClock /\ stack' = stack \o <<AdvanceTo(clock + d), Run>>
    BY <1>11 DEF AdvanceClock
  <2>. DEFINE t == clock + d
              c == AdvanceTo(t)
              st == Append(stack, c)
  <2>2. t \in 0..MaxClock /\ t \in Nat
    BY <2>1, BoundsAssumption DEF IInv, Plain
  <2>. HIDE DEF t
  <2>3. c \in Calls /\ c.to = t /\ Run \in Calls /\ Run.at = "run"
    BY <2>2, CallsMade DEF AdvanceTo
  <2>. HIDE DEF c
  <2>4. st \in Seq(Calls) /\ Bounded(st)
    BY <1>1, <2>2, <2>3, PushBounded, PushedIs
  <2>5. stack' = Append(st, Run)
    BY <1>1, <2>1, <2>3 DEF c, t
  <2>. HIDE DEF st
  <2>. QED  BY <2>3, <2>4, <2>5, PushBounded
<1>12. CASE \E bo \in BOOLEAN : Tick(bo)
  BY <1>1, <1>7, <1>12, UserIsCalm DEF Tick
<1>13. CASE RunStep
  BY <1>1, <1>7, <1>13 DEF RunStep, At
<1>14. CASE WakeElapsed
  BY <1>2, <1>3, <1>14 DEF WakeElapsed, Wake
<1>15. CASE Advance
  BY <1>4, <1>5, <1>15, CallsMade DEF Advance, Push
<1>16. CASE Return \/ EndRun \/ ParkDeadline
  BY <1>5, <1>16 DEF Return, EndRun, ParkDeadline, Leave
<1>17. ASSUME NEW pc, AtBlock(pc)
       PROVE  /\ Top \in BlockCalls
              /\ \A p \in Pcs, x \in {"none", "some", "nothing"} :
                   /\ [Top EXCEPT !.pc = p, !.stepped = x] \in BlockCalls
                   /\ [Top EXCEPT !.pc = p] \in BlockCalls /\ [Top EXCEPT !.stepped = x] \in BlockCalls
              /\ NextTick \in BlockCalls /\ [NextTick EXCEPT !.pc = "park"] \in BlockCalls
              /\ [Top EXCEPT !.pc = "looked", !.waker = TRUE] \in BlockCalls
  <2>1. Top \in BlockCalls
    BY <1>17, BlockTop
  <2>2. /\ \A p \in Pcs, x \in {"none", "some", "nothing"} :
             /\ [Top EXCEPT !.pc = p, !.stepped = x] \in BlockCalls
             /\ [Top EXCEPT !.pc = p] \in BlockCalls /\ [Top EXCEPT !.stepped = x] \in BlockCalls
    BY <2>1 DEF BlockCalls
  <2>3. [Top EXCEPT !.pc = "looked", !.waker = TRUE] \in BlockCalls
    BY <2>1 DEF BlockCalls, Pcs
  <2>. QED  BY <2>1, <2>2, <2>3, NextTickIs
<1>18. CASE Poll \/ Pending
  <2>. DEFINE c == [Top EXCEPT !.pc = "looked", !.waker = TRUE]
              d == [Top EXCEPT !.pc = "step", !.stepped = "none"]
  <2>1. Leave \/ Become(c) \/ Become(d)
    BY <1>18 DEF Poll, Pending
  <2>2. c \in BlockCalls /\ d \in BlockCalls
    BY <1>17, <1>18 DEF Poll, Pending, Pcs
  <2>. HIDE DEF c, d
  <2>. QED  BY <1>5, <1>6, <1>8, <2>1, <2>2 DEF Leave
<1>19. CASE BlockStep
  <2>. DEFINE c == [Top EXCEPT !.stepped = "some"]
  <2>1. Step(c, FALSE)
    BY <1>19 DEF BlockStep
  <2>2. Top \in BlockCalls
    BY <1>17, <1>19 DEF BlockStep
  <2>3. c \in BlockCalls
    BY <2>2 DEF BlockCalls
  <2>. HIDE DEF c
  <2>. QED  BY <1>7, <1>8, <2>1, <2>3
<1>20. CASE EndSteps
  <2>. DEFINE x == IF Top.stepped = "none" THEN "nothing" ELSE Top.stepped
              c == [Top EXCEPT !.pc = "check", !.stepped = x]
              d == [Top EXCEPT !.pc = "check"]
  <2>1. x \in {"none", "some", "nothing"}
    BY <1>17, <1>20 DEF EndSteps, BlockCalls
  <2>2. Become(c) \/ Become(d)
    BY <1>20 DEF EndSteps
  <2>. HIDE DEF x
  <2>3. c \in BlockCalls /\ d \in BlockCalls
    BY <1>17, <1>20, <2>1 DEF EndSteps, Pcs
  <2>. HIDE DEF c, d
  <2>. QED  BY <1>6, <1>8, <2>2, <2>3
<1>21. CASE Check
  BY <1>2, <1>5, <1>6, <1>8, <1>17, <1>21 DEF Check, Leave
<1>22. CASE Unpark
  BY <1>6, <1>8, <1>17, <1>22 DEF Unpark, Pcs
<1>23. CASE Others
  BY <1>2, <1>3, <1>23 DEF Others, SpawnElsewhere, CompleteElsewhere, SetUnparked, SetAwoken
<1>24. CASE \/ \E s \in Owners : Spawn(s)
            \/ \E d \in 1..MaxClock, x \in Futures \cup Owners : StartTimer(d, x)
            \/ \E f \in Futures : Complete(f)
            \/ ParkTime \/ UNCHANGED vars
  BY <1>2, <1>3, <1>24 DEF Spawn, StartTimer, Complete, Wake, ParkTime, vars
<1>. QED
  BY <1>9, <1>10, <1>11, <1>12, <1>13, <1>14, <1>15, <1>16, <1>18, <1>19, <1>20, <1>21, <1>22, <1>23, <1>24
     DEF Next, UserCode, Machinery

LEMMA TypedAtFirst == Init => Typed
<1>. SUFFICES ASSUME Init  PROVE Typed
  OBVIOUS
<1>1. /\ session = <<>> /\ runnables = <<>> /\ timers = <<>> /\ clock = 0 /\ ready = {} /\ waking = {} /\ robbed = {}
      /\ stack = <<Test>> /\ fuel = MaxOps /\ panicked = FALSE
  BY DEF Init
<1>2. IsInjective(runnables) /\ Punctual(timers) /\ Len(session) <= MaxTasks
  BY <1>1, BoundsAssumption DEF IsInjective, Punctual
<1>3. Bounded(stack)
  BY <1>1 DEF Bounded, Test
<1>4. fuel \in 0..MaxOps /\ clock \in 0..MaxClock
  BY <1>1, BoundsAssumption
<1>. QED  BY <1>1, <1>2, <1>3, <1>4 DEF Typed

LEMMA TypedKeeps ==
  ASSUME IInv, Typed, [Next]_vars
  PROVE  Typed'
<1>1. ready' \subseteq Futures
  <2>1. ready' = ready \/ \E f \in Futures : ready' = ready \cup {f}
    BY DEF Next, UserCode, Machinery, Others, vars, stepUnchanged, Spawn, SpawnElsewhere, Complete, CompleteElsewhere,
       SetUnparked, SetAwoken, BlockOn, StartTimer, RunUntilParked, AdvanceClock, Tick, WakeElapsed, Wake, Return, RunStep,
       EndRun, Advance, Poll, Pending, BlockStep, EndSteps, Check, Unpark, ParkTime, ParkDeadline
  <2>. QED  BY <2>1 DEF Typed
<1>2. fuel' \in 0..MaxOps
  <2>1. fuel' = fuel \/ (fuel > 0 /\ fuel' = fuel - 1)
    BY DEF Next, UserCode, Machinery, Others, vars, Operation, Elsewhere, Spawn, SpawnElsewhere, Complete,
       CompleteElsewhere, SetUnparked, SetAwoken, BlockOn, StartTimer, RunUntilParked, AdvanceClock, Tick, WakeElapsed, Return,
       RunStep, EndRun, Advance, Poll, Pending, BlockStep, EndSteps, Check, Unpark, ParkTime, ParkDeadline
  <2>. QED  BY <2>1, BoundsAssumption DEF Typed
<1>3. panicked' \in BOOLEAN
  <2>1. panicked' = panicked \/ panicked' = TRUE
    BY DEF Next, UserCode, Machinery, Others, vars, stepUnchanged, Spawn, SpawnElsewhere, Complete, CompleteElsewhere,
       SetUnparked, SetAwoken, BlockOn, StartTimer, RunUntilParked, AdvanceClock, Tick, WakeElapsed, Return, RunStep,
       EndRun, Advance, Poll, Pending, BlockStep, EndSteps, Check, Unpark, ParkTime, ParkDeadline
  <2>. QED  BY <2>1 DEF Typed
<1>4. waking' \subseteq Futures \X {"unpark", "awake"}
  <2>1. \/ waking' \subseteq waking
        \/ \E f \in Futures, x \in {"unpark", "awake"} : waking' \subseteq waking \cup {<<f, x>>}
    BY DEF Next, UserCode, Machinery, Others, vars, stepUnchanged, Spawn, SpawnElsewhere, Complete, CompleteElsewhere,
       SetUnparked, SetAwoken, BlockOn, StartTimer, RunUntilParked, AdvanceClock, Tick, WakeElapsed, Return, RunStep,
       EndRun, Advance, Poll, Pending, BlockStep, EndSteps, Check, Unpark, ParkTime, ParkDeadline
  <2>. QED  BY <2>1 DEF Typed
<1>5. robbed' \subseteq Futures
  <2>1. robbed' \subseteq robbed \cup HalfWoken
    BY DEF Next, UserCode, Machinery, Others, vars, stepUnchanged, Spawn, SpawnElsewhere, Complete, CompleteElsewhere,
       SetUnparked, SetAwoken, BlockOn, StartTimer, RunUntilParked, AdvanceClock, Tick, WakeElapsed, Return, RunStep,
       EndRun, Advance, Poll, Pending, BlockStep, EndSteps, Check, Unpark, ParkTime, ParkDeadline
  <2>. QED  BY <2>1 DEF Typed, HalfWoken
<1>. QED  BY <1>1, <1>2, <1>3, <1>4, <1>5, QueueTyped, TimersTyped, ClockTyped, StackTyped DEF Typed

-----------------------------------------------------------------------------
(* The state of the scheduler is of its types: no runnable is queued       *)
(* twice, the timers are in the order of their times, and the test is at   *)
(* the bottom of the calls.                                                *)
THEOREM TypeCorrect == Spec => []TypeOK
<1>1. IInv /\ Typed => TypeOK
  <2>. SUFFICES ASSUME IInv, Typed  PROVE TypeOK
    OBVIOUS
  <2>1. \A i \in DOMAIN timers : /\ timers[i].when \in 0..MaxClock
                                 /\ i > 1 => timers[i - 1].when <= timers[i].when
    <3>1. DOMAIN timers = 1..Len(timers)
      BY DEF IInv, Plain
    <3>2. \A i \in DOMAIN timers : i > 1 => i - 1 \in DOMAIN timers /\ i - 1 < i
      BY <3>1
    <3>. QED  BY <3>2 DEF Typed, Punctual
  <2>2. stack[1] = Test
    BY DEF IInv, Shaped, Piled
  <2>. QED  BY <2>1, <2>2 DEF IInv, Plain, Typed, TypeOK
<1>2. Init => IInv /\ Typed
  BY InitIInv, TypedAtFirst
<1>3. IInv /\ Typed /\ [Next]_vars => (IInv /\ Typed)'
  BY NextIInv, TypedKeeps
<1>. QED  BY <1>1, <1>2, <1>3, PTL DEF Spec

-----------------------------------------------------------------------------
(* What is still queued for a session was scheduled after all of it that   *)
(* has run: a runnable is put behind those of its session, and only the    *)
(* first of a session runs.                                                *)
THEOREM SessionsRunInOrder == Spec => []SessionOrder
<1>1. IInv => SessionOrder
  BY DEF IInv, Sorted, SessionOrder
<1>. QED  BY <1>1, Inductive, PTL

(* While a session is blocked none of its runnables runs, however deep the *)
(* blocks, and the runs between them, are nested: the list of the blocked  *)
(* sessions is that of the blocks in progress.                             *)
THEOREM SessionsWait == Spec => []BlockedSessionsWait
<1>1. IInv => BlockedSessionsWait
  <2>. SUFFICES ASSUME IInv, NEW i \in Blocks, stack[i].of # Background,
                       NEW j \in i + 1..Len(stack), stack[j].at = "task"
                PROVE  stack[j].of # stack[i].of
    BY DEF BlockedSessionsWait
  <2>1. i \in DOMAIN stack /\ Named(stack[i])
    BY DEF Blocks, Named
  <2>2. DOMAIN stack = 1..Len(stack) /\ Len(stack) \in Nat
    BY TopIs DEF IInv, Shaped
  <2>3. j \in DOMAIN stack /\ i < j
    BY <2>1, <2>2
  <2>. QED  BY <2>1, <2>3 DEF IInv, Shaped, Waits
<1>. QED  BY <1>1, Inductive, PTL

(* A thread that is parked although its future is ready has been unparked, *)
(* or will be: the future was not ready when the poll looked at it, and    *)
(* what completed it since has the waker of that look.  The exception is a *)
(* wake of which a block within that poll has taken the first half.        *)
THEOREM ParkedAreWoken == Spec => []ParkedIsWoken
<1>1. IInv => ParkedIsWoken
  <2>. SUFFICES ASSUME IInv, AtBlock("park"), Top.fut \in ready
                PROVE  unparked \/ <<Top.fut, "unpark">> \in waking \/ Top.fut \in robbed
    BY DEF ParkedIsWoken
  <2>1. Top.at = "block" /\ Top.pc = "park" /\ Heeds(Top, parking, ready, unparked, waking, robbed)
    BY BlockTop
  <2>. QED  BY <2>1 DEF Heeds
<1>. QED  BY <1>1, Inductive, PTL

(* Without parking the clock moves only when no timer has expired and no   *)
(* runnable may run: the call that moves it has looked, and nobody could   *)
(* have added anything since.                                              *)
THEOREM TimeWaits == Spec => TimePassesWhenIdle
<1>1. IInv /\ [Next]_vars => (~parking /\ clock' # clock => Expired = {} /\ Candidates(FALSE) = {})
  <2>. SUFFICES ASSUME IInv, [Next]_vars, ~parking, clock' # clock
                PROVE  NoStep(FALSE)
    BY DEF NoStep
  <2>1. CASE Advance
    BY <2>1 DEF Advance, At, IInv, Idle, AtRest
  <2>2. CASE Check
    <3>1. AtBlock("check") /\ Top.stepped = "nothing"
      BY <2>2 DEF Check, Busy
    <3>. QED  BY <3>1, BlockTop DEF IInv, Idle, AtRest
  <2>3. CASE ParkTime
    <3>1. AtBlock("park")
      BY <2>3 DEF ParkTime
    <3>. QED  BY <3>1, BlockTop DEF IInv, Parks
  <2>4. CASE UserCode
    BY <2>4 DEF UserCode, Spawn, Complete, StartTimer, BlockOn, RunUntilParked, AdvanceClock, Tick,
                stepUnchanged
  <2>5. CASE WakeElapsed \/ Return \/ RunStep \/ EndRun \/ Poll \/ Pending \/ BlockStep \/ EndSteps \/ Unpark
             \/ ParkDeadline
    BY <2>5 DEF WakeElapsed, Return, RunStep, EndRun, Poll, Pending, BlockStep, EndSteps, Unpark, ParkDeadline,
                stepUnchanged
  <2>6. CASE Others
    BY <2>6 DEF Others, SpawnElsewhere, CompleteElsewhere, SetUnparked, SetAwoken
  <2>7. CASE UNCHANGED vars
    BY <2>7 DEF vars
  <2>. QED  BY <2>1, <2>2, <2>3, <2>4, <2>5, <2>6, <2>7 DEF Next, Machinery
<1>. QED  BY <1>1, Inductive, PTL DEF Spec, TimePassesWhenIdle

(* A block gives up at rest, on a future that is not ready. *)
LEMMA CheckAlarms ==
  ASSUME IInv, Check, GivesUp
  PROVE  /\ timers = <<>>
         /\ \A i \in DOMAIN runnables : session[runnables[i]] \in {stack[j].of : j \in Blocks}
         /\ Top.fut \notin ready
<1>1. /\ UNCHANGED <<parking, session, runnables, unparked, timers, elapsed, ready, waking, robbed, fuel, last>>
      /\ AtBlock("check") /\ ~panicked
  BY DEF Check, Queue, AtBlock, At, Free
<1>2. /\ Top \in BlockCalls /\ Top.at = "block" /\ Top.pc = "check"
      /\ Heeds(Top, parking, ready, unparked, waking, robbed)
  BY <1>1, BlockTop
<1>3. Top.stepped = "nothing" /\ ~Top.awoken /\ ~parking /\ timers = <<>>
  <2>1. ASSUME NEW c \in BlockCalls, Become(c), UNCHANGED panicked  PROVE FALSE
    <3>1. stack \in Seq(Calls) /\ stack # <<>> /\ c \in Calls
      BY DEF IInv, Shaped, Piled, Calls
    <3>2. Len(stack') = Len(stack)
      BY <2>1, <3>1, BecomeIs, TurnedIs
    <3>3. panicked' \/ Len(stack') < Len(stack)
      BY DEF GivesUp
    <3>. QED  BY <1>1, <2>1, <3>1, <3>2, <3>3
  <2>. QED  BY <1>2, <2>1, NextTickIs DEF Check, Busy, BlockCalls
<1>4. elapsed = <<>> /\ NoStep(FALSE)
  BY <1>2, <1>3 DEF IInv, Idle, AtRest
<1>5. Top.fut \notin ready
  BY <1>2, <1>3 DEF Heeds
<1>6. ASSUME NEW i \in DOMAIN runnables
      PROVE  session[runnables[i]] \in {stack[j].of : j \in Blocks}
  <2>. DEFINE s == session[runnables[i]]
              same == {k \in DOMAIN runnables : session[runnables[k]] = s}
  <2>1. runnables \in Seq(1..Len(session)) /\ DOMAIN runnables = 1..Len(runnables)
    BY DEF IInv, Plain
  <2>2. PICK k \in same : \A m \in same : k <= m
    <3>1. same \in SUBSET (0..Len(runnables)) /\ same # {} /\ Len(runnables) \in Nat
      BY <2>1
    <3>. HIDE DEF same
    <3>. QED  BY <3>1, PositionsAreFinite, LeastExists
  <2>3. \A m \in 1..k - 1 : session[runnables[m]] # s
    <3>1. ASSUME NEW m \in 1..k - 1  PROVE m \notin same
      <4>1. k \in 1..Len(runnables)
        BY <2>1
      <4>2. m < k /\ m \in Int /\ k \in Int
        BY <4>1
      <4>. QED  BY <2>2, <4>2
    <3>2. \A m \in 1..k - 1 : m \in DOMAIN runnables
      BY <2>1
    <3>. QED  BY <3>1, <3>2
  <2>4. s \in ToSet(blocked)
    BY <1>4, <2>2, <2>3 DEF NoStep, Candidates
  <2>5. PICK pos : MatchedAt(stack, blocked, pos)
    BY DEF IInv, Shaped, Matched
  <2>6. PICK b \in DOMAIN blocked : blocked[b] = s
    BY <2>4 DEF ToSet
  <2>7. pos[b] \in Blocks /\ stack[pos[b]].of = s
    BY <2>5, <2>6 DEF MatchedAt, Named, Blocks
  <2>. QED  BY <2>7
<1>. QED  BY <1>3, <1>5, <1>6

(* A block gives up, and the test is told that parking is forbidden or     *)
(* that the time is over, only if nothing can ever go on: the block found  *)
(* nothing to do, its future has not completed since it was looked at, or  *)
(* it would have been woken, and no timer is set; what is queued belongs   *)
(* to sessions that are blocked.                                           *)
THEOREM AlarmsAreTrue == Spec => NoFalseAlarm
<1>1. ASSUME IInv, [Next]_vars, GivesUp
      PROVE  /\ timers = <<>>
             /\ \A i \in DOMAIN runnables : session[runnables[i]] \in {stack[j].of : j \in Blocks}
             /\ Top.fut \notin ready
  <2>1. /\ Top.at = "block" /\ Top.pc = "check" /\ Free
        /\ panicked' \/ Len(stack') < Len(stack)
    BY <1>1, BlockTop DEF GivesUp
  <2>2. CASE Check
    BY <1>1, <2>2, CheckAlarms
  <2>3. CASE UNCHANGED <<stack, panicked>>
    BY <2>1, <2>3, TopIs, <1>1 DEF Free, IInv, Shaped
  <2>4. ASSUME NEW f \in Futures, SetAwoken(f)  PROVE FALSE
    <3>1. Len(stack') = Len(stack) /\ panicked' = panicked /\ Len(stack) \in Nat
      BY <1>1, <2>4, AwokenIs, TopIs DEF SetAwoken, IInv, Shaped
    <3>. QED  BY <2>1, <3>1 DEF Free
  <2>5. ~UserCode
    BY <2>1, UserIsCalm DEF UserCode, Spawn, Complete, StartTimer, BlockOn, RunUntilParked, AdvanceClock, Tick
  <2>6. ~WakeElapsed
    BY <2>1 DEF WakeElapsed, Free
  <2>7. ~ (Return \/ RunStep \/ EndRun \/ Advance \/ Poll \/ Pending \/ BlockStep \/ EndSteps \/ Unpark
           \/ ParkTime \/ ParkDeadline)
    BY <2>1 DEF Return, RunStep, EndRun, Advance, Poll, Pending, BlockStep, EndSteps, Unpark, ParkTime, ParkDeadline,
                AtBlock, At
  <2>8. ASSUME NEW f \in Futures, CompleteElsewhere(f) \/ SetUnparked(f)  PROVE UNCHANGED <<stack, panicked>>
    BY <2>8 DEF CompleteElsewhere, SetUnparked
  <2>9. ASSUME NEW x \in Owners, SpawnElsewhere(x)  PROVE UNCHANGED <<stack, panicked>>
    BY <2>9 DEF SpawnElsewhere
  <2>10. CASE UNCHANGED vars
    BY <2>3, <2>10 DEF vars
  <2>. QED  BY <1>1, <2>2, <2>3, <2>4, <2>5, <2>6, <2>7, <2>8, <2>9, <2>10 DEF Next, Machinery, Others
<1>. QED  BY <1>1, Inductive, PTL DEF Spec, NoFalseAlarm
=============================================================================
