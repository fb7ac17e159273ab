-------------------------- MODULE KeyDispatchProofs --------------------------
(***************************************************************************)
(* Theorems about KeyDispatch for any keymaps, any numbers of keystrokes   *)
(* and operations, and any nesting of dispatches: where each keystroke is, *)
(* in which order they act, what the observers of pending input have been  *)
(* told, and when a timer is set.                                          *)
(***************************************************************************)
EXTENDS KeyDispatch, Integers, FiniteSetTheorems, SequenceTheorems, WellFoundedInduction, TLAPS

Pcs == {"intercept", "next", "replay", "act"}
Pendings == [keys : Seq(Nat), focus : Focuses \cup {NoFocus}, timeout : BOOLEAN]
Frames ==
  [pc : Pcs, key : Nat, at : Focuses \cup {NoFocus}, cur : Pendings, replays : Seq(Seq(Nat)),
   pending : Seq(Nat), bound : BOOLEAN, taken : Seq(Nat)]

(* A comes before B: they are apart, and what the user typed of A has the  *)
(* lower numbers.                                                          *)
Before(A, B, sim) ==
  \A x \in A, y \in B : x # y /\ (x \notin sim /\ y \notin sim => x < y)
Sorted(s, sim) ==
  \A i, j \in DOMAIN s : i < j => s[i] # s[j] /\ (s[i] \notin sim /\ s[j] \notin sim => s[i] < s[j])

(* Replays, and what is left after them, in order. *)
InReplays(rs) == UNION {ToSet(rs[i]) : i \in DOMAIN rs}
Divided(rs, rest, sim) ==
  /\ \A i \in DOMAIN rs : rs[i] # <<>> /\ Sorted(rs[i], sim)
  /\ \A i, j \in DOMAIN rs : i < j => Before(ToSet(rs[i]), ToSet(rs[j]), sim)
  /\ Sorted(rest, sim)
  /\ Before(InReplays(rs), ToSet(rest), sim)

-----------------------------------------------------------------------------
(* Numbers and sequences *)

(* The greatest of a finite set of numbers: the one with the least to      *)
(* follow, by inclusion.                                                   *)
LEMMA MaxIsGreatest ==
  ASSUME NEW S \in SUBSET Nat, S # {}, IsFiniteSet(S)
  PROVE  Max(S) \in S /\ \A y \in S : y <= Max(S)
<1>. DEFINE Beyond(x) == {y \in S : x < y}
<1>2. IsWellFoundedOn(StrictSubsetOrdering(S), SUBSET S)
  BY FS_StrictSubsetOrderingWellFounded, FS_FiniteSubsetsOfFinite
<1>. DEFINE T == {Beyond(x) : x \in S}
<1>3. PICK B \in T : \A C \in T : ~ (<<C, B>> \in StrictSubsetOrdering(S))
  <2>1. T \subseteq SUBSET S /\ T # {}
    OBVIOUS
  <2>. HIDE DEF T
  <2>. QED  BY <1>2, <2>1, WFMin
<1>4. PICK x \in S : B = Beyond(x)
  BY <1>3
<1>5. \A y \in S : x >= y
  <2>2. SUFFICES ASSUME NEW y \in S, x < y  PROVE FALSE
    OBVIOUS
  <2>3. Beyond(y) \subseteq Beyond(x) /\ Beyond(y) # Beyond(x)
    <3>1. \A z \in S : y < z => x < z
      BY <2>2
    <3>2. y \in Beyond(x) /\ y \notin Beyond(y)
      BY <2>2
    <3>. QED  BY <3>1, <3>2
  <2>4. Beyond(y) \subseteq S /\ Beyond(x) \subseteq S /\ Beyond(y) \in T
    OBVIOUS
  <2>5. <<Beyond(y), B>> \in StrictSubsetOrdering(S)
    <3>. HIDE DEF Beyond
    <3>. QED  BY <1>4, <2>3, <2>4 DEF StrictSubsetOrdering
  <2>. QED  BY <1>3, <2>4, <2>5
<1>. QED  BY <1>5 DEF Max

LEMMA IntervalsAreFinite ==
  ASSUME NEW n \in Nat, NEW S \in SUBSET (0..n)
  PROVE  IsFiniteSet(S) /\ S \in SUBSET Nat
<1>1. IsFiniteSet(0..n)
  BY FS_Interval
<1>2. S \subseteq 0..n /\ S \subseteq Nat
  OBVIOUS
<1>. QED  BY <1>1, <1>2, FS_Subset

(* What holds at n, and of a number when of some that are greater, up to   *)
(* n, holds of all of them.                                                *)
LEMMA Downwards ==
  ASSUME NEW n \in Nat, NEW S \in SUBSET (0..n),
         \A i \in 0..n : (\A j \in i + 1..n : j \in S) => i \in S
  PROVE  S = 0..n
<1>. DEFINE bad == (0..n) \ S
<1>1. SUFFICES ASSUME bad # {}  PROVE FALSE
  OBVIOUS
<1>2. bad \in SUBSET (0..n)
  OBVIOUS
<1>. HIDE DEF bad
<1>3. Max(bad) \in bad /\ \A y \in bad : y <= Max(bad)
  BY <1>1, <1>2, IntervalsAreFinite, MaxIsGreatest
<1>. DEFINE i == Max(bad)
<1>4. i \in 0..n /\ i \notin S
  BY <1>3 DEF bad
<1>. HIDE DEF i
<1>5. \A j \in i + 1..n : j \in S
  <2>1. \A j \in i + 1..n : j \in 0..n /\ ~ (j <= i)
    BY <1>4
  <2>. QED  BY <1>3, <2>1 DEF bad, i
<1>. QED  BY <1>4, <1>5

(* The keystrokes after the first lo, up to the hi-th. *)
LEMMA SegmentIs ==
  ASSUME NEW s \in Seq(Nat), NEW lo \in 0..Len(s), NEW hi \in lo..Len(s)
  PROVE  /\ SubSeq(s, lo + 1, hi) \in Seq(Nat) /\ Len(SubSeq(s, lo + 1, hi)) = hi - lo
         /\ DOMAIN SubSeq(s, lo + 1, hi) = 1..hi - lo
         /\ \A p \in 1..hi - lo : SubSeq(s, lo + 1, hi)[p] = s[lo + p]
         /\ ToSet(SubSeq(s, lo + 1, hi)) = {s[p] : p \in lo + 1..hi}
<1>. DEFINE m == lo + 1
            t == SubSeq(s, m, hi)
<1>1. Len(s) \in Nat /\ lo \in Nat /\ hi \in Nat /\ lo <= hi /\ hi <= Len(s) /\ DOMAIN s = 1..Len(s)
  OBVIOUS
<1>2. m \in Int /\ hi \in Int /\ \A i \in m..hi : s[i] \in Nat
  BY <1>1
<1>. HIDE DEF m
<1>3. /\ t \in Seq(Nat) /\ Len(t) = IF m <= hi THEN hi - m + 1 ELSE 0
      /\ \A i \in 1..hi - m + 1 : t[i] = s[m + i - 1]
  BY <1>2, SubSeqProperties
<1>4. hi - m + 1 = hi - lo /\ (IF m <= hi THEN hi - m + 1 ELSE 0) = hi - lo
      /\ \A i \in 1..hi - lo : m + i - 1 = lo + i
  BY <1>1 DEF m
<1>. HIDE DEF t
<1>5. /\ t \in Seq(Nat) /\ Len(t) = hi - lo /\ \A p \in 1..hi - lo : t[p] = s[lo + p]
  BY <1>3, <1>4
<1>6. DOMAIN t = 1..hi - lo
  BY <1>5
<1>7. ToSet(t) = {s[p] : p \in lo + 1..hi}
  <2>1. \A p \in 1..hi - lo : lo + p \in lo + 1..hi
    BY <1>1
  <2>2. \A p \in lo + 1..hi : p - lo \in 1..hi - lo /\ lo + (p - lo) = p
    BY <1>1
  <2>3. \A x \in ToSet(t) : x \in {s[p] : p \in lo + 1..hi}
    BY <1>5, <1>6, <2>1 DEF ToSet
  <2>4. ASSUME NEW p \in lo + 1..hi  PROVE s[p] \in ToSet(t)
    <3>1. t[p - lo] = s[p] /\ p - lo \in DOMAIN t
      BY <1>5, <1>6, <2>2
    <3>. QED  BY <3>1 DEF ToSet
  <2>. QED  BY <2>3, <2>4
<1>. QED  BY <1>5, <1>6, <1>7 DEF m, t

LEMMA AppendedIs ==
  ASSUME NEW s \in Seq(Nat), NEW n \in Nat
  PROVE  /\ Append(s, n) \in Seq(Nat) /\ Len(s) \in Nat /\ Len(Append(s, n)) = Len(s) + 1
         /\ DOMAIN Append(s, n) = 1..Len(s) + 1 /\ DOMAIN s = 1..Len(s)
         /\ \A p \in 1..Len(s) : Append(s, n)[p] = s[p]
         /\ Append(s, n)[Len(s) + 1] = n
         /\ ToSet(Append(s, n)) = ToSet(s) \cup {n} /\ Append(s, n) # <<>>
<1>. DEFINE t == Append(s, n)
<1>1. /\ t \in Seq(Nat) /\ Len(s) \in Nat /\ Len(t) = Len(s) + 1 /\ t # <<>>
      /\ \A p \in 1..Len(s) : t[p] = s[p]
      /\ t[Len(s) + 1] = n
  BY AppendProperties
<1>. HIDE DEF t
<1>2. DOMAIN t = 1..Len(s) + 1 /\ DOMAIN s = 1..Len(s)
  BY <1>1
<1>3. ToSet(t) = ToSet(s) \cup {n}
  <2>1. \A p \in 1..Len(s) + 1 : p \in 1..Len(s) \/ p = Len(s) + 1
    BY <1>1
  <2>2. \A p \in 1..Len(s) : p \in 1..Len(s) + 1
    BY <1>1
  <2>3. Len(s) + 1 \in 1..Len(s) + 1
    BY <1>1
  <2>. QED  BY <1>1, <1>2, <2>1, <2>2, <2>3 DEF ToSet
<1>. QED  BY <1>1, <1>2, <1>3 DEF t

LEMMA AfterIs ==
  ASSUME NEW s \in Seq(Nat), NEW i \in 0..Len(s)
  PROVE  /\ After(s, i) \in Seq(Nat) /\ Len(After(s, i)) = Len(s) - i
         /\ DOMAIN After(s, i) = 1..Len(s) - i
         /\ \A p \in 1..Len(s) - i : After(s, i)[p] = s[i + p]
         /\ ToSet(After(s, i)) = {s[p] : p \in i + 1..Len(s)}
<1>1. Len(s) \in i..Len(s)
  OBVIOUS
<1>. QED  BY <1>1, SegmentIs DEF After

-----------------------------------------------------------------------------
(* The recursive functions of the keymap.  That they are what they are     *)
(* defined to be, everywhere, is because the recursion goes up and ends.   *)

Skip(map, ids, of, at, i) == ReplayLength(map, Input(After(ids, i), of), at)

LEMMA SkipIs ==
  ASSUME NEW map, NEW ids \in Seq(Nat), NEW of, NEW at, NEW i \in 0..Len(ids), i # Len(ids)
  PROVE  Skip(map, ids, of, at, i) \in 1..Len(ids) - i
<1>. DEFINE m == Len(ids) - i
            in == Input(After(ids, i), of)
<1>1. m \in Nat \ {0}
  OBVIOUS
<1>2. DOMAIN After(ids, i) = 1..m
  BY AfterIs
<1>3. Len(in) = m
  <2>1. in = [p \in 1..m |-> of[After(ids, i)[p]]]
    BY <1>2 DEF Input
  <2>. DEFINE S == {of[After(ids, i)[p]] : p \in 1..m}
  <2>2. in \in [1..m -> S]
    BY <2>1
  <2>. HIDE DEF S, in, m
  <2>3. in \in Seq(S)
    <3>1. [1..m -> S] \in {[1..k -> S] : k \in Nat}
      BY <1>1
    <3>2. in \in UNION {[1..k -> S] : k \in Nat}
      BY <2>2, <3>1
    <3>3. Seq(S) = UNION {[1..k -> S] : k \in Nat}
      BY SeqDef, Zenon
    <3>. QED  BY <3>2, <3>3, Zenon
  <2>4. DOMAIN in = 1..Len(in) /\ Len(in) \in Nat
    BY <2>3
  <2>5. DOMAIN in = 1..m
    BY <2>2
  <2>6. \A k, l \in Nat : 1..k = 1..l => k = l
    <3>. SUFFICES ASSUME NEW k \in Nat, NEW l \in Nat, 1..k = 1..l  PROVE k = l
      OBVIOUS
    <3>1. (k > 0 => k \in 1..l) /\ (l > 0 => l \in 1..k)
      OBVIOUS
    <3>. QED  BY <3>1
  <2>. QED  BY <1>1, <2>4, <2>5, <2>6
<1>. HIDE DEF m, in
<1>. DEFINE S == {1} \cup {n \in 1..Len(in) : Bindings(map, SubSeq(in, 1, n), at) # {}}
<1>4. S \in SUBSET (0..m) /\ S # {} /\ S \subseteq 1..m
  BY <1>1, <1>3
<1>. HIDE DEF S
<1>5. Max(S) \in S
  BY <1>1, <1>4, IntervalsAreFinite, MaxIsGreatest
<1>6. Skip(map, ids, of, at, i) = Max(S)
  BY DEF Skip, ReplayLength, S, in
<1>. QED  BY <1>4, <1>5, <1>6 DEF m

(* One unfolding of each. *)
FlushAt(map, ids, of, at, f, i) ==
  IF i = Len(ids) THEN <<>>
  ELSE <<SubSeq(ids, i + 1, i + Skip(map, ids, of, at, i))>> \o f[i + Skip(map, ids, of, at, i)]

DispatchAt(map, ids, id, of, at, f, i) ==
  LET all == Append(After(ids, i), id)
      found == Bindings(map, Input(all, of), at) # {} IN
    IF Pends(map, Input(all, of), at)
    THEN [replays |-> <<>>, pending |-> all, bound |-> found, taken |-> <<>>]
    ELSE IF found \/ Len(all) = 1
    THEN [replays |-> <<>>, pending |-> <<>>, bound |-> found, taken |-> all]
    ELSE LET n == Skip(map, ids, of, at, i) IN
           [f[i + n] EXCEPT !.replays = <<SubSeq(ids, i + 1, i + n)>> \o @]

FlushFrom(map, ids, of, at, f) ==
  /\ f = [i \in 0..Len(ids) |-> FlushAt(map, ids, of, at, f, i)]
  /\ Flush(map, ids, of, at) = f[0]
DispatchFrom(map, ids, id, of, at, f) ==
  /\ f = [i \in 0..Len(ids) |-> DispatchAt(map, ids, id, of, at, f, i)]
  /\ DispatchKey(map, ids, id, of, at) = f[0]

LEMMA FlushUnfolds ==
  ASSUME NEW map, NEW ids \in Seq(Nat), NEW of, NEW at
  PROVE  \E f : FlushFrom(map, ids, of, at, f)
<1>. DEFINE N == Len(ids)
            At(f, i) == FlushAt(map, ids, of, at, f, i)
            S == {k \in 0..N : \E f : f = [i \in k..N |-> At(f, i)]}
<1>1. N \in Nat
  OBVIOUS
<1>2. \A k \in 0..N : \A f, g : (\A i \in k + 1..N : f[i] = g[i]) => At(f, k) = At(g, k)
  <2>. SUFFICES ASSUME NEW k \in 0..N, NEW f, NEW g, \A i \in k + 1..N : f[i] = g[i]
                PROVE  At(f, k) = At(g, k)
    OBVIOUS
  <2>1. CASE k = N
    BY <2>1 DEF FlushAt
  <2>2. CASE k # N
    <3>. DEFINE n == Skip(map, ids, of, at, k)
    <3>1. n \in 1..N - k
      BY <2>2, SkipIs
    <3>. HIDE DEF n
    <3>2. k + n \in k + 1..N
      BY <1>1, <3>1
    <3>3. f[k + n] = g[k + n]
      BY <3>2
    <3>. QED  BY <2>2, <3>3 DEF FlushAt, n
  <2>. QED  BY <2>1, <2>2
<1>. HIDE DEF At, N
<1>3. 0 \in S
  <2>1. ASSUME NEW k \in 0..N, \A j \in k + 1..N : j \in S  PROVE k \in S
    <3>1. PICK g : k = N \/ g = [i \in k + 1..N |-> At(g, i)]
      <4>1. CASE k = N
        BY <4>1
      <4>2. CASE k # N
        <5>1. k + 1 \in k + 1..N
          BY <1>1, <4>2
        <5>. QED  BY <2>1, <5>1
      <4>. QED  BY <4>1, <4>2
    <3>. DEFINE f == [i \in k..N |-> IF i = k THEN At(g, k) ELSE g[i]]
    <3>2. \A i \in k + 1..N : f[i] = g[i] /\ k < i
      BY <1>1
    <3>3. f[k] = At(g, k)
      BY <1>1
    <3>4. f = [i \in k..N |-> f[i]]
      OBVIOUS
    <3>. HIDE DEF f
    <3>5. At(f, k) = At(g, k)
      BY <1>2, <3>2
    <3>6. ASSUME NEW i \in k + 1..N  PROVE f[i] = At(f, i)
      <4>1. k # N /\ i \in 0..N
        BY <1>1
      <4>2. \A j \in i + 1..N : j \in k + 1..N
        BY <1>1
      <4>3. At(f, i) = At(g, i)
        BY <1>2, <3>2, <4>1, <4>2
      <4>4. g[i] = At(g, i)
        BY <3>1, <4>1
      <4>. QED  BY <3>2, <4>3, <4>4
    <3>7. \A i \in k..N : i = k \/ i \in k + 1..N
      BY <1>1
    <3>8. \A i \in k..N : f[i] = At(f, i)
      BY <3>3, <3>5, <3>6, <3>7
    <3>9. f = [i \in k..N |-> At(f, i)]
      BY <3>4, <3>8
    <3>. QED  BY <3>9
  <2>2. S \in SUBSET (0..N)
    OBVIOUS
  <2>. HIDE DEF S
  <2>3. S = 0..N
    BY <1>1, <2>1, <2>2, Downwards
  <2>. QED  BY <1>1, <2>3
<1>4. PICK h : h = [i \in 0..N |-> At(h, i)]
  BY <1>3
<1>. DEFINE f == CHOOSE g : g = [i \in 0..N |-> At(g, i)]
<1>5. f = [i \in 0..N |-> At(f, i)]
  BY <1>4, Zenon
<1>6. Flush(map, ids, of, at) = f[0]
  BY DEF Flush, At, FlushAt, Skip, N
<1>. QED  BY <1>5, <1>6 DEF At, N, FlushFrom

LEMMA LastAlone ==
  ASSUME NEW ids \in Seq(Nat), NEW id \in Nat, NEW i \in 0..Len(ids)
  PROVE  /\ Append(After(ids, i), id) \in Seq(Nat)
         /\ Len(Append(After(ids, i), id)) = 1 <=> i = Len(ids)
         /\ ToSet(Append(After(ids, i), id)) = ToSet(After(ids, i)) \cup {id}
         /\ Append(After(ids, i), id) # <<>>
<1>. DEFINE t == After(ids, i)
<1>1. t \in Seq(Nat) /\ Len(t) = Len(ids) - i /\ Len(ids) \in Nat
  BY AfterIs
<1>. HIDE DEF t
<1>2. /\ Append(t, id) \in Seq(Nat) /\ Len(Append(t, id)) = Len(t) + 1
      /\ ToSet(Append(t, id)) = ToSet(t) \cup {id} /\ Append(t, id) # <<>>
  BY <1>1, AppendedIs
<1>3. Len(t) + 1 = 1 <=> i = Len(ids)
  BY <1>1
<1>. QED  BY <1>2, <1>3 DEF t

LEMMA DispatchUnfolds ==
  ASSUME NEW map, NEW ids \in Seq(Nat), NEW id \in Nat, NEW of, NEW at
  PROVE  \E f : DispatchFrom(map, ids, id, of, at, f)
<1>. DEFINE N == Len(ids)
            At(f, i) == DispatchAt(map, ids, id, of, at, f, i)
            S == {k \in 0..N : \E f : f = [i \in k..N |-> At(f, i)]}
<1>1. N \in Nat
  OBVIOUS
<1>2. \A k \in 0..N : \A f, g : (\A i \in k + 1..N : f[i] = g[i]) => At(f, k) = At(g, k)
  <2>. SUFFICES ASSUME NEW k \in 0..N, NEW f, NEW g, \A i \in k + 1..N : f[i] = g[i]
                PROVE  At(f, k) = At(g, k)
    OBVIOUS
  <2>1. CASE k = N
    <3>1. Len(Append(After(ids, k), id)) = 1
      BY <2>1, LastAlone
    <3>. QED  BY <3>1 DEF DispatchAt
  <2>2. CASE k # N
    <3>. DEFINE n == Skip(map, ids, of, at, k)
    <3>1. n \in 1..N - k
      BY <2>2, SkipIs
    <3>. HIDE DEF n
    <3>2. k + n \in k + 1..N
      BY <1>1, <3>1
    <3>3. f[k + n] = g[k + n]
      BY <3>2
    <3>. QED  BY <2>2, <3>3 DEF DispatchAt, n
  <2>. QED  BY <2>1, <2>2
<1>. HIDE DEF At, N
<1>3. 0 \in S
  <2>1. ASSUME NEW k \in 0..N, \A j \in k + 1..N : j \in S  PROVE k \in S
    <3>1. PICK g : k = N \/ g = [i \in k + 1..N |-> At(g, i)]
      <4>1. CASE k = N
        BY <4>1
      <4>2. CASE k # N
        <5>1. k + 1 \in k + 1..N
          BY <1>1, <4>2
        <5>. QED  BY <2>1, <5>1
      <4>. QED  BY <4>1, <4>2
    <3>. DEFINE f == [i \in k..N |-> IF i = k THEN At(g, k) ELSE g[i]]
    <3>2. \A i \in k + 1..N : f[i] = g[i] /\ k < i
      BY <1>1
    <3>3. f[k] = At(g, k)
      BY <1>1
    <3>4. f = [i \in k..N |-> f[i]]
      OBVIOUS
    <3>. HIDE DEF f
    <3>5. At(f, k) = At(g, k)
      BY <1>2, <3>2
    <3>6. ASSUME NEW i \in k + 1..N  PROVE f[i] = At(f, i)
      <4>1. k # N /\ i \in 0..N
        BY <1>1
      <4>2. \A j \in i + 1..N : j \in k + 1..N
        BY <1>1
      <4>3. At(f, i) = At(g, i)
        BY <1>2, <3>2, <4>1, <4>2
      <4>4. g[i] = At(g, i)
        BY <3>1, <4>1
      <4>. QED  BY <3>2, <4>3, <4>4
    <3>7. \A i \in k..N : i = k \/ i \in k + 1..N
      BY <1>1
    <3>8. \A i \in k..N : f[i] = At(f, i)
      BY <3>3, <3>5, <3>6, <3>7
    <3>9. f = [i \in k..N |-> At(f, i)]
      BY <3>4, <3>8
    <3>. QED  BY <3>9
  <2>2. S \in SUBSET (0..N)
    OBVIOUS
  <2>. HIDE DEF S
  <2>3. S = 0..N
    BY <1>1, <2>1, <2>2, Downwards
  <2>. QED  BY <1>1, <2>3
<1>4. PICK h : h = [i \in 0..N |-> At(h, i)]
  BY <1>3
<1>. DEFINE f == CHOOSE g : g = [i \in 0..N |-> At(g, i)]
<1>5. f = [i \in 0..N |-> At(f, i)]
  BY <1>4, Zenon
<1>6. DispatchKey(map, ids, id, of, at) = f[0]
  BY DEF DispatchKey, At, DispatchAt, Skip, N
<1>. QED  BY <1>5, <1>6 DEF At, N, DispatchFrom

-----------------------------------------------------------------------------
(* What the keymap makes of the keystrokes that pend: all of them, each    *)
(* once and in order, as replays and a rest.                               *)

PartsOf(rs, rest, S, sim) ==
  /\ rs \in Seq(Seq(Nat)) /\ rest \in Seq(Nat)
  /\ Divided(rs, rest, sim)
  /\ InReplays(rs) \cup ToSet(rest) = S

LEMMA AloneIsParts ==
  ASSUME NEW rest \in Seq(Nat), NEW sim, Sorted(rest, sim)
  PROVE  PartsOf(<<>>, rest, ToSet(rest), sim)
<1>1. <<>> \in Seq(Seq(Nat)) /\ DOMAIN <<>> = {} /\ InReplays(<<>>) = {}
  BY DEF InReplays
<1>. QED  BY <1>1 DEF PartsOf, Divided, Before

LEMMA Prepended ==
  ASSUME NEW rs, NEW rest, NEW S, NEW sim, PartsOf(rs, rest, S, sim),
         NEW seg \in Seq(Nat), seg # <<>>, Sorted(seg, sim), Before(ToSet(seg), S, sim)
  PROVE  PartsOf(<<seg>> \o rs, rest, ToSet(seg) \cup S, sim)
<1>. DEFINE T == Seq(Nat)
            r == <<seg>> \o rs
            n == Len(rs)
<1>1. /\ rs \in Seq(T) /\ rest \in T /\ seg \in T /\ Divided(rs, rest, sim)
      /\ InReplays(rs) \cup ToSet(rest) = S
  BY DEF PartsOf
<1>. HIDE DEF T
<1>2. <<seg>> \in Seq(T) /\ Len(<<seg>>) = 1 /\ <<seg>>[1] = seg
  BY <1>1
<1>3. /\ r \in Seq(T) /\ Len(r) = 1 + n
      /\ \A i \in 1..1 + n : r[i] = IF i <= 1 THEN <<seg>>[i] ELSE rs[i - 1]
  <2>1. /\ r \in Seq(T) /\ Len(r) = Len(<<seg>>) + Len(rs)
        /\ \A i \in 1..Len(<<seg>>) + Len(rs) :
             r[i] = IF i <= Len(<<seg>>) THEN <<seg>>[i] ELSE rs[i - Len(<<seg>>)]
    BY <1>1, <1>2, ConcatProperties
  <2>. QED  BY <1>2, <2>1
<1>4. n \in Nat /\ DOMAIN rs = 1..n
  BY <1>1
<1>. HIDE DEF r, n
<1>5. DOMAIN r = 1..1 + n
  BY <1>3, <1>4
<1>6. r[1] = seg /\ 1 \in DOMAIN r /\ \A i \in DOMAIN r : i = 1 \/ (i - 1 \in 1..n /\ r[i] = rs[i - 1])
  <2>1. 1 \in 1..1 + n /\ 1 <= 1
    BY <1>4
  <2>2. \A i \in 1..1 + n : i = 1 \/ (i - 1 \in 1..n /\ ~ (i <= 1))
    BY <1>4
  <2>. QED  BY <1>2, <1>3, <1>5, <2>1, <2>2
<1>7. \A i \in 1..n : i + 1 \in DOMAIN r /\ r[i + 1] = rs[i]
  <2>1. \A i \in 1..n : i + 1 \in 1..1 + n /\ ~ (i + 1 <= 1) /\ i + 1 - 1 = i
    BY <1>4
  <2>. QED  BY <1>3, <1>5, <2>1
<1>8. InReplays(r) = ToSet(seg) \cup InReplays(rs)
  <2>1. \A x \in InReplays(r) : x \in ToSet(seg) \cup InReplays(rs)
    BY <1>4, <1>6 DEF InReplays
  <2>2. \A x \in ToSet(seg) \cup InReplays(rs) : x \in InReplays(r)
    BY <1>4, <1>6, <1>7 DEF InReplays
  <2>. QED  BY <2>1, <2>2
<1>9. Divided(r, rest, sim)
  <2>1. \A i \in DOMAIN r : r[i] # <<>> /\ Sorted(r[i], sim)
    BY <1>1, <1>4, <1>6 DEF Divided
  <2>2. ASSUME NEW i \in DOMAIN r, NEW j \in DOMAIN r, i < j
        PROVE  Before(ToSet(r[i]), ToSet(r[j]), sim)
    <3>1. j - 1 \in 1..n /\ r[j] = rs[j - 1]
      BY <1>5, <1>6, <2>2
    <3>2. ToSet(rs[j - 1]) \subseteq S
      BY <1>1, <1>4, <3>1 DEF InReplays
    <3>3. CASE i = 1
      BY <1>6, <3>1, <3>2, <3>3 DEF Before
    <3>4. CASE i # 1
      <4>1. i - 1 \in 1..n /\ r[i] = rs[i - 1] /\ i - 1 < j - 1
        BY <1>4, <1>5, <1>6, <2>2, <3>4
      <4>. QED  BY <1>1, <1>4, <3>1, <4>1 DEF Divided
    <3>. QED  BY <3>3, <3>4
  <2>3. Sorted(rest, sim)
    BY <1>1 DEF Divided
  <2>4. Before(InReplays(r), ToSet(rest), sim)
    <3>1. Before(InReplays(rs), ToSet(rest), sim)
      BY <1>1 DEF Divided
    <3>2. ToSet(rest) \subseteq S
      BY <1>1
    <3>. QED  BY <1>8, <3>1, <3>2 DEF Before
  <2>. QED  BY <2>1, <2>2, <2>3, <2>4 DEF Divided
<1>10. InReplays(r) \cup ToSet(rest) = ToSet(seg) \cup S
  BY <1>1, <1>8
<1>. QED  BY <1>1, <1>3, <1>9, <1>10 DEF PartsOf, r, T

(* A segment of the keystrokes, and those after it. *)
LEMMA SegmentParts ==
  ASSUME NEW ids \in Seq(Nat), NEW sim, Sorted(ids, sim),
         NEW lo \in 0..Len(ids), NEW hi \in lo..Len(ids)
  PROVE  /\ Sorted(SubSeq(ids, lo + 1, hi), sim)
         /\ ToSet(After(ids, lo)) = ToSet(SubSeq(ids, lo + 1, hi)) \cup ToSet(After(ids, hi))
         /\ Before(ToSet(SubSeq(ids, lo + 1, hi)), ToSet(After(ids, hi)), sim)
         /\ lo < hi => SubSeq(ids, lo + 1, hi) # <<>>
         /\ ToSet(After(ids, lo)) \subseteq ToSet(ids)
<1>. DEFINE s == SubSeq(ids, lo + 1, hi)
            N == Len(ids)
<1>1. /\ s \in Seq(Nat) /\ Len(s) = hi - lo /\ DOMAIN s = 1..hi - lo
      /\ \A p \in 1..hi - lo : s[p] = ids[lo + p]
      /\ ToSet(s) = {ids[p] : p \in lo + 1..hi}
  BY SegmentIs
<1>2. N \in Nat /\ hi \in 0..N /\ lo \in 0..N /\ lo <= hi /\ DOMAIN ids = 1..N
  OBVIOUS
<1>3. /\ ToSet(After(ids, lo)) = {ids[p] : p \in lo + 1..N}
      /\ ToSet(After(ids, hi)) = {ids[p] : p \in hi + 1..N}
  BY <1>2, AfterIs
<1>. HIDE DEF s, N
<1>4. Sorted(s, sim)
  <2>1. \A p \in 1..hi - lo : lo + p \in 1..N
    BY <1>2
  <2>2. ASSUME NEW p \in 1..hi - lo, NEW q \in 1..hi - lo, p < q
        PROVE  s[p] # s[q] /\ (s[p] \notin sim /\ s[q] \notin sim => s[p] < s[q])
    <3>1. lo + p \in DOMAIN ids /\ lo + q \in DOMAIN ids /\ lo + p < lo + q
      BY <1>2, <2>1, <2>2
    <3>2. s[p] = ids[lo + p] /\ s[q] = ids[lo + q]
      BY <1>1
    <3>. QED  BY <3>1, <3>2 DEF Sorted
  <2>. QED  BY <1>1, <2>2 DEF Sorted
<1>5. {ids[p] : p \in lo + 1..N} = {ids[p] : p \in lo + 1..hi} \cup {ids[p] : p \in hi + 1..N}
  <2>1. \A p \in lo + 1..N : p \in lo + 1..hi \/ p \in hi + 1..N
    BY <1>2
  <2>2. (\A p \in lo + 1..hi : p \in lo + 1..N) /\ \A p \in hi + 1..N : p \in lo + 1..N
    BY <1>2
  <2>. QED  BY <2>1, <2>2
<1>6. Before(ToSet(s), ToSet(After(ids, hi)), sim)
  <2>1. ASSUME NEW p \in lo + 1..hi, NEW q \in hi + 1..N
        PROVE  ids[p] # ids[q] /\ (ids[p] \notin sim /\ ids[q] \notin sim => ids[p] < ids[q])
    <3>1. p \in DOMAIN ids /\ q \in DOMAIN ids /\ p < q
      BY <1>2
    <3>. QED  BY <3>1 DEF Sorted
  <2>2. ASSUME NEW x \in ToSet(s), NEW y \in ToSet(After(ids, hi))
        PROVE  x # y /\ (x \notin sim /\ y \notin sim => x < y)
    <3>1. (\E p \in lo + 1..hi : x = ids[p]) /\ \E q \in hi + 1..N : y = ids[q]
      BY <1>1, <1>3
    <3>. QED  BY <2>1, <3>1
  <2>. QED  BY <2>2 DEF Before
<1>7. lo < hi => s # <<>>
  BY <1>1, <1>2
<1>8. ToSet(After(ids, lo)) \subseteq ToSet(ids)
  <2>1. \A p \in lo + 1..N : p \in DOMAIN ids
    BY <1>2
  <2>. QED  BY <1>3, <2>1 DEF ToSet
<1>. QED  BY <1>1, <1>3, <1>4, <1>5, <1>6, <1>7, <1>8 DEF s

(* All of the keystrokes are those after none of them. *)
LEMMA AfterNone ==
  ASSUME NEW ids \in Seq(Nat)
  PROVE  ToSet(After(ids, 0)) = ToSet(ids)
<1>1. 0 \in 0..Len(ids) /\ DOMAIN ids = 1..Len(ids) /\ 0 + 1 = 1
  OBVIOUS
<1>2. ToSet(After(ids, 0)) = {ids[p] : p \in 0 + 1..Len(ids)}
  BY <1>1, AfterIs
<1>. QED  BY <1>1, <1>2 DEF ToSet

(* flush_dispatch replays all that pends. *)
LEMMA FlushParts ==
  ASSUME NEW map, NEW ids \in Seq(Nat), NEW of, NEW at, NEW sim, Sorted(ids, sim)
  PROVE  PartsOf(Flush(map, ids, of, at), <<>>, ToSet(ids), sim)
<1>1. PICK f : FlushFrom(map, ids, of, at, f)
  BY FlushUnfolds
<1>. DEFINE N == Len(ids)
            S == {i \in 0..N : PartsOf(f[i], <<>>, ToSet(After(ids, i)), sim)}
<1>2. N \in Nat
  OBVIOUS
<1>3. ASSUME NEW i \in 0..N, \A j \in i + 1..N : j \in S  PROVE i \in S
  <2>1. f[i] = FlushAt(map, ids, of, at, f, i)
    BY <1>1 DEF FlushFrom
  <2>2. CASE i = N
    <3>1. f[i] = <<>>
      BY <2>1, <2>2 DEF FlushAt
    <3>2. ToSet(After(ids, i)) = {}
      <4>1. \A p \in i + 1..Len(ids) : FALSE
        BY <1>2, <2>2
      <4>. QED  BY <4>1, AfterIs
    <3>3. <<>> \in Seq(Nat) /\ ToSet(<<>>) = {} /\ Sorted(<<>>, sim)
      BY DEF ToSet, Sorted
    <3>. QED  BY <3>1, <3>2, <3>3, AloneIsParts
  <2>3. CASE i # N
    <3>1. PICK n : n = Skip(map, ids, of, at, i) /\ n \in 1..N - i
      BY <2>3, SkipIs
    <3>8. PICK k : k = i + n
      OBVIOUS
    <3>9. PICK seg : seg = SubSeq(ids, i + 1, k)
      OBVIOUS
    <3>2. f[i] = <<seg>> \o f[k]
      BY <2>1, <2>3, <3>1, <3>8, <3>9 DEF FlushAt
    <3>3. k \in i + 1..N /\ k \in i..N /\ i < k
      BY <1>2, <3>1, <3>8
    <3>4. PartsOf(f[k], <<>>, ToSet(After(ids, k)), sim)
      BY <1>3, <3>3
    <3>5. /\ Sorted(seg, sim) /\ ToSet(After(ids, i)) = ToSet(seg) \cup ToSet(After(ids, k))
          /\ Before(ToSet(seg), ToSet(After(ids, k)), sim) /\ seg # <<>>
      <4>1. \A p \in i..Len(ids) :
              /\ Sorted(SubSeq(ids, i + 1, p), sim)
              /\ ToSet(After(ids, i)) = ToSet(SubSeq(ids, i + 1, p)) \cup ToSet(After(ids, p))
              /\ Before(ToSet(SubSeq(ids, i + 1, p)), ToSet(After(ids, p)), sim)
              /\ i < p => SubSeq(ids, i + 1, p) # <<>>
              /\ ToSet(After(ids, i)) \subseteq ToSet(ids)
        BY SegmentParts
      <4>. QED  BY <3>3, <3>9, <4>1
    <3>6. seg \in Seq(Nat)
      BY <3>3, <3>9, SegmentIs
    <3>7. PartsOf(<<seg>> \o f[k], <<>>, ToSet(seg) \cup ToSet(After(ids, k)), sim)
      BY <3>4, <3>5, <3>6, Prepended
    <3>. QED  BY <3>2, <3>5, <3>7
  <2>. QED  BY <2>2, <2>3
<1>4. S \in SUBSET (0..N)
  OBVIOUS
<1>. HIDE DEF S
<1>5. 0 \in S
  <2>1. S = 0..N
    BY <1>2, <1>3, <1>4, Downwards
  <2>. QED  BY <1>2, <2>1
<1>. QED  BY <1>1, <1>5, AfterNone DEF S, FlushFrom

(* A sequence stays sorted when one more comes after all of it. *)
LEMMA AppendedSorted ==
  ASSUME NEW t \in Seq(Nat), NEW id \in Nat, NEW sim, Sorted(t, sim), Before(ToSet(t), {id}, sim)
  PROVE  Sorted(Append(t, id), sim)
<1>1. /\ DOMAIN Append(t, id) = 1..Len(t) + 1 /\ DOMAIN t = 1..Len(t) /\ Len(t) \in Nat
      /\ \A p \in 1..Len(t) : Append(t, id)[p] = t[p]
      /\ Append(t, id)[Len(t) + 1] = id
  BY AppendedIs
<1>. DEFINE u == Append(t, id)
<1>. HIDE DEF u
<1>2. ASSUME NEW p \in 1..Len(t) + 1, NEW q \in 1..Len(t) + 1, p < q
      PROVE  u[p] # u[q] /\ (u[p] \notin sim /\ u[q] \notin sim => u[p] < u[q])
  <2>1. p \in 1..Len(t) /\ u[p] = t[p] /\ t[p] \in ToSet(t)
    BY <1>1, <1>2 DEF ToSet, u
  <2>2. CASE q = Len(t) + 1
    BY <1>1, <2>1, <2>2 DEF Before, u
  <2>3. CASE q # Len(t) + 1
    <3>1. q \in 1..Len(t) /\ u[q] = t[q]
      BY <1>1, <2>3 DEF u
    <3>. QED  BY <1>1, <1>2, <2>1, <3>1 DEF Sorted
  <2>. QED  BY <2>2, <2>3
<1>. QED  BY <1>1, <1>2 DEF Sorted, u

(* dispatch_key replays some, and takes or holds back the others, with the *)
(* new keystroke.                                                          *)
Outs == [replays : Seq(Seq(Nat)), pending : Seq(Nat), bound : BOOLEAN, taken : Seq(Nat)]
Splits(out, S, sim) ==
  /\ out \in Outs
  /\ \/ out.pending # <<>> /\ out.taken = <<>> /\ PartsOf(out.replays, out.pending, S, sim)
     \/ out.pending = <<>> /\ out.taken # <<>> /\ PartsOf(out.replays, out.taken, S, sim)

LEMMA DispatchParts ==
  ASSUME NEW map, NEW ids \in Seq(Nat), NEW id \in Nat, NEW of, NEW at, NEW sim,
         Sorted(ids, sim), Before(ToSet(ids), {id}, sim)
  PROVE  Splits(DispatchKey(map, ids, id, of, at), ToSet(ids) \cup {id}, sim)
<1>1. PICK f : DispatchFrom(map, ids, id, of, at, f)
  BY DispatchUnfolds
<1>. DEFINE N == Len(ids)
            S == {i \in 0..N : Splits(f[i], ToSet(After(ids, i)) \cup {id}, sim)}
<1>2. N \in Nat
  OBVIOUS
<1>3. ASSUME NEW i \in 0..N, \A j \in i + 1..N : j \in S  PROVE i \in S
  <2>1. f[i] = DispatchAt(map, ids, id, of, at, f, i)
    BY <1>1 DEF DispatchFrom
  <2>. DEFINE all == Append(After(ids, i), id)
              found == Bindings(map, Input(all, of), at) # {}
  <2>2. /\ all \in Seq(Nat) /\ (Len(all) = 1 <=> i = N) /\ all # <<>>
        /\ ToSet(all) = ToSet(After(ids, i)) \cup {id}
    BY LastAlone
  <2>3. Sorted(all, sim)
    <3>. DEFINE t == After(ids, i)
    <3>1. t \in Seq(Nat)
      BY AfterIs
    <3>2. Sorted(t, sim)
      <4>1. N \in i..N
        BY <1>2
      <4>. QED  BY <4>1, SegmentParts DEF After
    <3>3. Before(ToSet(t), {id}, sim)
      <4>1. ToSet(t) \subseteq ToSet(ids)
        <5>1. N \in i..N
          BY <1>2
        <5>. QED  BY <5>1, SegmentParts
      <4>. QED  BY <4>1 DEF Before
    <3>. HIDE DEF t
    <3>4. Sorted(Append(t, id), sim)
      BY <3>1, <3>2, <3>3, AppendedSorted
    <3>. QED  BY <3>4 DEF t
  <2>9. found \in BOOLEAN
    OBVIOUS
  <2>. DEFINE V == ToSet(After(ids, i)) \cup {id}
  <2>10. ToSet(all) = V
    BY <2>2
  <2>. HIDE DEF all, found, V
  <2>4. PartsOf(<<>>, all, V, sim)
    BY <2>2, <2>3, <2>10, AloneIsParts
  <2>11. /\ [replays |-> <<>>, pending |-> all, bound |-> found, taken |-> <<>>] \in Outs
         /\ [replays |-> <<>>, pending |-> <<>>, bound |-> found, taken |-> all] \in Outs
    <3>1. <<>> \in Seq(Seq(Nat)) /\ <<>> \in Seq(Nat)
      OBVIOUS
    <3>. QED  BY <2>2, <2>9, <3>1 DEF Outs
  <2>12. Splits(f[i], V, sim) => i \in S
    BY DEF V
  <2>5. CASE f[i] = [replays |-> <<>>, pending |-> all, bound |-> found, taken |-> <<>>]
    <3>1. /\ f[i] \in Outs /\ f[i].replays = <<>> /\ f[i].pending = all /\ f[i].taken = <<>>
      BY <2>5, <2>11
    <3>. QED  BY <2>2, <2>4, <2>12, <3>1 DEF Splits
  <2>6. CASE f[i] = [replays |-> <<>>, pending |-> <<>>, bound |-> found, taken |-> all]
    <3>1. /\ f[i] \in Outs /\ f[i].replays = <<>> /\ f[i].pending = <<>> /\ f[i].taken = all
      BY <2>6, <2>11
    <3>. QED  BY <2>2, <2>4, <2>12, <3>1 DEF Splits
  <2>13. PICK n : n = Skip(map, ids, of, at, i)
    OBVIOUS
  <2>14. PICK k : k = i + n
    OBVIOUS
  <2>15. PICK seg : seg = SubSeq(ids, i + 1, k)
    OBVIOUS
  <2>7. CASE i # N /\ f[i] = [f[k] EXCEPT !.replays = <<seg>> \o @]
    <3>1. n \in 1..N - i
      BY <2>7, <2>13, SkipIs
    <3>3. k \in i + 1..N /\ k \in i..N /\ i < k /\ k \in 0..N
      BY <1>2, <2>14, <3>1
    <3>. DEFINE U == ToSet(After(ids, k)) \cup {id}
    <3>4. Splits(f[k], U, sim)
      BY <1>3, <3>3
    <3>5. /\ Sorted(seg, sim) /\ ToSet(After(ids, i)) = ToSet(seg) \cup ToSet(After(ids, k))
          /\ Before(ToSet(seg), ToSet(After(ids, k)), sim) /\ seg # <<>>
          /\ ToSet(After(ids, i)) \subseteq ToSet(ids)
      <4>1. \A p \in i..Len(ids) :
              /\ Sorted(SubSeq(ids, i + 1, p), sim)
              /\ ToSet(After(ids, i)) = ToSet(SubSeq(ids, i + 1, p)) \cup ToSet(After(ids, p))
              /\ Before(ToSet(SubSeq(ids, i + 1, p)), ToSet(After(ids, p)), sim)
              /\ i < p => SubSeq(ids, i + 1, p) # <<>>
              /\ ToSet(After(ids, i)) \subseteq ToSet(ids)
        BY SegmentParts
      <4>. QED  BY <2>15, <3>3, <4>1
    <3>6. seg \in Seq(Nat)
      BY <2>15, <3>3, SegmentIs
    <3>7. Before(ToSet(seg), U, sim) /\ ToSet(After(ids, i)) \cup {id} = ToSet(seg) \cup U
      BY <3>5 DEF Before
    <3>. HIDE DEF U
    <3>8. ASSUME NEW rest, PartsOf(f[k].replays, rest, U, sim)
          PROVE  /\ PartsOf(<<seg>> \o f[k].replays, rest, ToSet(seg) \cup U, sim)
                 /\ <<seg>> \o f[k].replays \in Seq(Seq(Nat))
      <4>1. PartsOf(<<seg>> \o f[k].replays, rest, ToSet(seg) \cup U, sim)
        BY <3>5, <3>6, <3>7, <3>8, Prepended
      <4>. QED  BY <4>1 DEF PartsOf
    <3>. DEFINE rs == <<seg>> \o f[k].replays
    <3>9. rs \in Seq(Seq(Nat)) /\ f[k] \in Outs
      BY <3>4, <3>8 DEF Splits
    <3>. HIDE DEF rs
    <3>10. /\ f[i] \in Outs /\ f[i].replays = rs
           /\ f[i].pending = f[k].pending /\ f[i].taken = f[k].taken
      <4>1. f[i] = [f[k] EXCEPT !.replays = rs]
        BY <2>7 DEF rs
      <4>. QED  BY <3>9, <4>1 DEF Outs
    <3>11. V = ToSet(seg) \cup U
      BY <3>7 DEF V
    <3>12. Splits(f[i], V, sim)
      BY <3>4, <3>8, <3>10, <3>11 DEF Splits, rs
    <3>. QED  BY <2>12, <3>12
  <2>8. \/ f[i] = [replays |-> <<>>, pending |-> all, bound |-> found, taken |-> <<>>]
        \/ f[i] = [replays |-> <<>>, pending |-> <<>>, bound |-> found, taken |-> all]
        \/ i # N /\ f[i] = [f[k] EXCEPT !.replays = <<seg>> \o @]
    BY <2>1, <2>2, <2>13, <2>14, <2>15 DEF DispatchAt, all, found
  <2>. QED  BY <2>5, <2>6, <2>7, <2>8
<1>4. S \in SUBSET (0..N)
  OBVIOUS
<1>. HIDE DEF S
<1>5. 0 \in S
  <2>1. S = 0..N
    BY <1>2, <1>3, <1>4, Downwards
  <2>. QED  BY <1>2, <2>1
<1>. QED  BY <1>1, <1>5, AfterNone DEF S, DispatchFrom

-----------------------------------------------------------------------------
(* Where the keystrokes are: D have been typed, P are pending, A have      *)
(* acted, G are gone, and the dispatch at depth i holds C[i].  Those in W  *)
(* are still at the interceptors, those in R are past them.                *)

Apart(P, A, G, C) ==
  /\ A \cap G = {} /\ P \cap (A \cup G) = {}
  /\ \A i \in Nat : C[i] \cap (P \cup A \cup G) = {}
  /\ \A i, j \in Nat : i # j => C[i] \cap C[j] = {}

Kept(D, P, A, G, C, sim) ==
  /\ P \cup A \cup G \subseteq D
  /\ \A i \in Nat : C[i] \subseteq D
  /\ \A n \in D \ sim : n \in P \cup A \cup G \/ \E i \in Nat : n \in C[i]

(* Only one dispatch at a time has keystrokes of the user. *)
Single(P, C, W, R, sim) ==
  /\ \A i \in W : i > 1 => C[i] \subseteq sim
  /\ \A i \in R, j \in Nat : i < j => C[j] \subseteq sim
  /\ R # {} => P \subseteq sim

Ordered(P, A, C, W, sim) ==
  /\ Before(A, P, sim)
  /\ \A i \in Nat : Before(A, C[i], sim)
  /\ \A i \in W : Before(P, C[i], sim)
  /\ \A i \in W, j \in Nat : i < j => Before(C[j], C[i], sim)

Ledger(D, P, A, G, C, W, R, sim) ==
  /\ Apart(P, A, G, C) /\ Kept(D, P, A, G, C, sim)
  /\ Single(P, C, W, R, sim) /\ Ordered(P, A, C, W, sim)

(* What pends is forgotten. *)
LEMMA Forgotten ==
  ASSUME NEW D, NEW P, NEW A, NEW G, NEW C, NEW W, NEW R, NEW sim,
         Ledger(D, P, A, G, C, W, R, sim)
  PROVE  Ledger(D, {}, A, G \cup P, C, W, R, sim)
<1>1. Apart({}, A, G \cup P, C)
  BY DEF Ledger, Apart
<1>2. Kept(D, {}, A, G \cup P, C, sim)
  BY DEF Ledger, Kept
<1>3. Single({}, C, W, R, sim)
  BY DEF Ledger, Single
<1>4. Ordered({}, A, C, W, sim)
  BY DEF Ledger, Ordered, Before
<1>. QED  BY <1>1, <1>2, <1>3, <1>4 DEF Ledger

(* Keystroke k + 1 is typed, in a dispatch out of the n in progress. *)
LEMMA Typing ==
  ASSUME NEW k \in Nat, NEW P, NEW A, NEW G, NEW C, NEW W, NEW R, NEW sim,
         Ledger(1..k, P, A, G, C, W, R, sim),
         NEW n \in Nat, W \subseteq 1..n, R \subseteq 1..n,
         \A i \in Nat : i > n => C[i] = {},
         NEW C2, C2[n + 1] = {k + 1}, \A i \in Nat : i # n + 1 => C2[i] = C[i],
         NEW sim2, sim \subseteq sim2, sim2 \subseteq sim \cup {k + 1}, n > 0 => k + 1 \in sim2
  PROVE  Ledger(1..k + 1, P, A, G, C2, W \cup {n + 1}, R, sim2)
<1>1. /\ n + 1 \in Nat /\ C[n + 1] = {} /\ k + 1 \notin 1..k /\ k + 1 \in 1..k + 1
      /\ \A x \in 1..k : x < k + 1 /\ x \in 1..k + 1
      /\ \A x \in 1..k + 1 : x \in 1..k \/ x = k + 1
  OBVIOUS
<1>. DEFINE D == 1..k
            E == 1..k + 1
            z == k + 1
            m == n + 1
<1>2. /\ m \in Nat /\ C[m] = {} /\ z \notin D /\ z \in E
      /\ \A x \in D : x < z /\ x \in E
      /\ \A x \in E : x \in D \/ x = z
      /\ C2[m] = {z} /\ \A i \in Nat : i # m => C2[i] = C[i]
  BY <1>1
<1>3. (\A i \in W \cup R : i \in Nat /\ i < m /\ n > 0) /\ \A i \in Nat : i > m => C[i] = {}
  <2>1. \A i \in 1..n : i \in Nat /\ i < n + 1 /\ n > 0
    OBVIOUS
  <2>2. \A i \in Nat : i > n + 1 => i > n
    OBVIOUS
  <2>. QED  BY <2>1, <2>2
<1>4. sim \subseteq sim2 /\ sim2 \subseteq sim \cup {z} /\ (n > 0 => z \in sim2)
  OBVIOUS
<1>5. Ledger(D, P, A, G, C, W, R, sim)
  OBVIOUS
<1>. HIDE DEF D, E, z, m
<1>6. Apart(P, A, G, C2)
  <2>1. Apart(P, A, G, C) /\ P \cup A \cup G \subseteq D /\ \A i \in Nat : C[i] \subseteq D
    BY <1>5 DEF Ledger, Kept
  <2>. QED  BY <1>2, <2>1 DEF Apart
<1>7. Kept(E, P, A, G, C2, sim2)
  <2>1. Kept(D, P, A, G, C, sim)
    BY <1>5 DEF Ledger
  <2>2. P \cup A \cup G \subseteq E
    BY <1>2, <2>1 DEF Kept
  <2>3. \A i \in Nat : C2[i] \subseteq E
    BY <1>2, <2>1 DEF Kept
  <2>4. ASSUME NEW x \in E \ sim2  PROVE x \in P \cup A \cup G \/ \E i \in Nat : x \in C2[i]
    <3>1. CASE x = z
      BY <1>2, <3>1
    <3>2. CASE x \in D \ sim
      <4>1. CASE x \in P \cup A \cup G
        BY <4>1
      <4>2. CASE \E i \in Nat : x \in C[i]
        <5>1. PICK i \in Nat : x \in C[i]
          BY <4>2
        <5>. QED  BY <1>2, <5>1
      <4>. QED  BY <2>1, <3>2, <4>1, <4>2 DEF Kept
    <3>. QED  BY <1>2, <1>4, <3>1, <3>2
  <2>. QED  BY <2>2, <2>3, <2>4 DEF Kept
<1>8. Single(P, C2, W \cup {m}, R, sim2)
  <2>1. Single(P, C, W, R, sim)
    BY <1>5 DEF Ledger
  <2>2. m > 1 => n > 0
    BY DEF m
  <2>3. ASSUME NEW i \in W \cup {m}, i > 1  PROVE C2[i] \subseteq sim2
    BY <1>2, <1>3, <1>4, <2>1, <2>2, <2>3 DEF Single
  <2>4. ASSUME NEW i \in R, NEW j \in Nat, i < j  PROVE C2[j] \subseteq sim2
    BY <1>2, <1>3, <1>4, <2>1, <2>4 DEF Single
  <2>5. R # {} => P \subseteq sim2
    BY <1>4, <2>1 DEF Single
  <2>. QED  BY <2>3, <2>4, <2>5 DEF Single
<1>9. Ordered(P, A, C2, W \cup {m}, sim2)
  <2>1. Ordered(P, A, C, W, sim) /\ Kept(D, P, A, G, C, sim)
    BY <1>5 DEF Ledger
  <2>2. Before(A, P, sim2)
    BY <1>4, <2>1 DEF Ordered, Before
  <2>3. ASSUME NEW i \in Nat  PROVE Before(A, C2[i], sim2)
    <3>1. CASE i = m
      BY <1>2, <2>1, <3>1 DEF Kept, Before
    <3>2. CASE i # m
      BY <1>2, <1>4, <2>1, <3>2 DEF Ordered, Before
    <3>. QED  BY <3>1, <3>2
  <2>4. ASSUME NEW i \in W \cup {m}  PROVE Before(P, C2[i], sim2)
    <3>1. CASE i = m
      BY <1>2, <2>1, <3>1 DEF Kept, Before
    <3>2. CASE i # m
      BY <1>2, <1>3, <1>4, <2>1, <3>2 DEF Ordered, Before
    <3>. QED  BY <3>1, <3>2
  <2>5. ASSUME NEW i \in W \cup {m}, NEW j \in Nat, i < j  PROVE Before(C2[j], C2[i], sim2)
    <3>1. CASE i = m
      <4>1. j # m /\ j > m
        BY <1>2, <2>5, <3>1
      <4>. QED  BY <1>2, <1>3, <4>1 DEF Before
    <3>2. CASE i # m /\ j = m
      <4>1. z \in sim2 /\ C2[i] = C[i] /\ C[i] \subseteq D /\ C2[j] = {z}
        BY <1>2, <1>3, <1>4, <2>1, <3>2 DEF Kept
      <4>. QED  BY <1>2, <4>1 DEF Before
    <3>3. CASE i # m /\ j # m
      BY <1>2, <1>3, <1>4, <2>1, <2>5, <3>3 DEF Ordered, Before
    <3>. QED  BY <3>1, <3>2, <3>3
  <2>. QED  BY <2>2, <2>3, <2>4, <2>5 DEF Ordered
<1>. QED  BY <1>6, <1>7, <1>8, <1>9 DEF Ledger, E, m

(* The keystroke of the last dispatch is intercepted. *)
LEMMA Dropped ==
  ASSUME NEW D, NEW P, NEW A, NEW G, NEW C, NEW W, NEW R, NEW sim,
         Ledger(D, P, A, G, C, W, R, sim), W \subseteq Nat,
         NEW n \in Nat, NEW C2, C2[n] = {}, \A i \in Nat : i # n => C2[i] = C[i],
         NEW R2, R2 \subseteq R
  PROVE  Ledger(D, P, A, G \cup C[n], C2, W \ {n}, R2, sim)
<1>0. \A i \in Nat : C2[i] \subseteq C[i]
  OBVIOUS
<1>1. Apart(P, A, G \cup C[n], C2)
  BY <1>0 DEF Ledger, Apart
<1>2. Kept(D, P, A, G \cup C[n], C2, sim)
  <2>1. Kept(D, P, A, G, C, sim)
    BY DEF Ledger
  <2>2. ASSUME NEW x \in D \ sim  PROVE x \in P \cup A \cup G \cup C[n] \/ \E i \in Nat : x \in C2[i]
    <3>1. CASE \E i \in Nat : x \in C[i]
      <4>1. PICK i \in Nat : x \in C[i]
        BY <3>1
      <4>. QED  BY <4>1
    <3>. QED  BY <2>1, <3>1 DEF Kept
  <2>. QED  BY <1>0, <2>1, <2>2 DEF Kept
<1>3. Single(P, C2, W \ {n}, R2, sim)
  BY <1>0 DEF Ledger, Single
<1>4. Ordered(P, A, C2, W \ {n}, sim)
  BY <1>0 DEF Ledger, Ordered, Before
<1>. QED  BY <1>1, <1>2, <1>3, <1>4 DEF Ledger

(* The last dispatch takes X of what pends, and the rest is forgotten. *)
LEMMA Gathered ==
  ASSUME NEW D, NEW P, NEW A, NEW G, NEW C, NEW W, NEW R, NEW sim,
         Ledger(D, P, A, G, C, W, R, sim), W \subseteq Nat, R \subseteq Nat,
         NEW n \in W, \A i \in Nat : i > n => C[i] = {},
         NEW X, X \subseteq P,
         NEW C2, C2[n] = X \cup C[n], \A i \in Nat : i # n => C2[i] = C[i]
  PROVE  Ledger(D, {}, A, G \cup (P \ X), C2, W \ {n}, R \cup {n}, sim)
<1>1. Apart({}, A, G \cup (P \ X), C2)
  <2>1. Apart(P, A, G, C) /\ n \in Nat
    BY DEF Ledger
  <2>2. ASSUME NEW i \in Nat  PROVE C2[i] \cap (A \cup (G \cup (P \ X))) = {}
    <3>1. CASE i = n
      BY <2>1, <3>1 DEF Apart
    <3>2. CASE i # n
      BY <2>1, <3>2 DEF Apart
    <3>. QED  BY <3>1, <3>2
  <2>3. ASSUME NEW i \in Nat, NEW j \in Nat, i # j  PROVE C2[i] \cap C2[j] = {}
    <3>1. CASE i = n
      BY <2>1, <2>3, <3>1 DEF Apart
    <3>2. CASE j = n
      BY <2>1, <2>3, <3>2 DEF Apart
    <3>3. CASE i # n /\ j # n
      BY <2>1, <2>3, <3>3 DEF Apart
    <3>. QED  BY <3>1, <3>2, <3>3
  <2>4. A \cap (G \cup (P \ X)) = {}
    BY <2>1 DEF Apart
  <2>. QED  BY <2>2, <2>3, <2>4 DEF Apart
<1>2. Kept(D, {}, A, G \cup (P \ X), C2, sim)
  <2>1. Kept(D, P, A, G, C, sim) /\ n \in Nat
    BY DEF Ledger
  <2>2. ASSUME NEW x \in D \ sim
        PROVE  x \in {} \cup A \cup (G \cup (P \ X)) \/ \E i \in Nat : x \in C2[i]
    <3>1. CASE \E i \in Nat : x \in C[i]
      <4>1. PICK i \in Nat : x \in C[i]
        BY <3>1
      <4>2. x \in C2[i]
        BY <2>1, <4>1
      <4>. QED  BY <4>2
    <3>2. CASE x \in X
      BY <2>1, <3>2
    <3>. QED  BY <2>1, <3>1, <3>2 DEF Kept
  <2>3. {} \cup A \cup (G \cup (P \ X)) \subseteq D /\ \A i \in Nat : C2[i] \subseteq D
    BY <2>1 DEF Kept
  <2>. QED  BY <2>2, <2>3 DEF Kept
<1>3. Single({}, C2, W \ {n}, R \cup {n}, sim)
  <2>1. Single(P, C, W, R, sim) /\ n \in Nat
    BY DEF Ledger
  <2>2. ASSUME NEW i \in W \ {n}, i > 1  PROVE C2[i] \subseteq sim
    BY <2>1, <2>2 DEF Single
  <2>3. ASSUME NEW i \in R \cup {n}, NEW j \in Nat, i < j  PROVE C2[j] \subseteq sim
    <3>1. CASE i = n
      BY <2>3, <3>1
    <3>2. CASE i \in R /\ j = n
      BY <2>1, <2>3, <3>2 DEF Single
    <3>3. CASE i \in R /\ j # n
      BY <2>1, <2>3, <3>3 DEF Single
    <3>. QED  BY <3>1, <3>2, <3>3
  <2>. QED  BY <2>2, <2>3 DEF Single
<1>4. Ordered({}, A, C2, W \ {n}, sim)
  <2>1. Ordered(P, A, C, W, sim) /\ n \in Nat
    BY DEF Ledger
  <2>2. ASSUME NEW i \in Nat  PROVE Before(A, C2[i], sim)
    <3>1. CASE i = n
      BY <2>1, <3>1 DEF Ordered, Before
    <3>2. CASE i # n
      BY <2>1, <3>2 DEF Ordered
    <3>. QED  BY <3>1, <3>2
  <2>3. ASSUME NEW i \in W \ {n}, NEW j \in Nat, i < j  PROVE Before(C2[j], C2[i], sim)
    <3>1. CASE j = n
      BY <2>1, <2>3, <3>1 DEF Ordered, Before
    <3>2. CASE j # n
      BY <2>1, <2>3, <3>2 DEF Ordered
    <3>. QED  BY <3>1, <3>2
  <2>4. Before({}, A, sim) /\ Before(A, {}, sim) /\ \A i \in W \ {n} : Before({}, C2[i], sim)
    BY DEF Before
  <2>. QED  BY <2>2, <2>3, <2>4 DEF Ordered
<1>. QED  BY <1>1, <1>2, <1>3, <1>4 DEF Ledger

(* What the last dispatch holds pends, in the place of keystrokes of user  *)
(* code.                                                                   *)
LEMMA HeldBack ==
  ASSUME NEW D, NEW P, NEW A, NEW G, NEW C, NEW W, NEW R, NEW sim,
         Ledger(D, P, A, G, C, W, R, sim), W \subseteq Nat, R \subseteq Nat,
         NEW n \in R, \A i \in W \cup R : i <= n,
         NEW C2, C2[n] = {}, \A i \in Nat : i # n => C2[i] = C[i]
  PROVE  Ledger(D, C[n], A, G, C2, W, R \ {n}, sim)
<1>0. /\ n \in Nat /\ (\A i \in Nat : C2[i] \subseteq C[i]) /\ P \subseteq sim
      /\ \A i \in R \ {n} : i < n /\ i \in Nat
  <2>1. \A i \in R \ {n} : i < n /\ i \in Nat
    OBVIOUS
  <2>. QED  BY <2>1 DEF Ledger, Single
<1>1. Apart(C[n], A, G, C2)
  <2>1. Apart(P, A, G, C)
    BY DEF Ledger
  <2>2. ASSUME NEW i \in Nat  PROVE C2[i] \cap (C[n] \cup A \cup G) = {}
    <3>1. CASE i = n
      BY <3>1
    <3>2. CASE i # n
      BY <1>0, <2>1, <3>2 DEF Apart
    <3>. QED  BY <3>1, <3>2
  <2>. QED  BY <1>0, <2>1, <2>2 DEF Apart
<1>2. Kept(D, C[n], A, G, C2, sim)
  <2>1. Kept(D, P, A, G, C, sim)
    BY DEF Ledger
  <2>2. ASSUME NEW x \in D \ sim  PROVE x \in C[n] \cup A \cup G \/ \E i \in Nat : x \in C2[i]
    <3>1. CASE \E i \in Nat : x \in C[i]
      <4>1. PICK i \in Nat : x \in C[i]
        BY <3>1
      <4>. QED  BY <4>1
    <3>. QED  BY <1>0, <2>1, <3>1 DEF Kept
  <2>. QED  BY <1>0, <2>1, <2>2 DEF Kept
<1>3. Single(C[n], C2, W, R \ {n}, sim)
  BY <1>0 DEF Ledger, Single
<1>4. Ordered(C[n], A, C2, W, sim)
  <2>1. Ordered(P, A, C, W, sim)
    BY DEF Ledger
  <2>2. \A i \in Nat : Before(A, C2[i], sim)
    BY <1>0, <2>1 DEF Ordered, Before
  <2>3. ASSUME NEW i \in W  PROVE Before(C[n], C2[i], sim)
    <3>1. CASE i = n
      BY <3>1 DEF Before
    <3>2. CASE i # n
      <4>1. i < n /\ i \in Nat
        BY <1>0, <3>2
      <4>. QED  BY <1>0, <2>1, <3>2, <4>1 DEF Ordered
    <3>. QED  BY <3>1, <3>2
  <2>4. ASSUME NEW i \in W, NEW j \in Nat, i < j  PROVE Before(C2[j], C2[i], sim)
    BY <1>0, <2>1, <2>4 DEF Ordered, Before
  <2>. QED  BY <1>0, <2>1, <2>2, <2>3, <2>4 DEF Ordered
<1>. QED  BY <1>1, <1>2, <1>3, <1>4 DEF Ledger

(* A dispatch that holds nothing ends. *)
LEMMA Ended ==
  ASSUME NEW D, NEW P, NEW A, NEW G, NEW C, NEW W, NEW R, NEW sim,
         Ledger(D, P, A, G, C, W, R, sim),
         NEW C2, \A i \in Nat : C2[i] = C[i],
         NEW W2, W2 \subseteq W, NEW R2, R2 \subseteq R, W \subseteq Nat
  PROVE  Ledger(D, P, A, G, C2, W2, R2, sim)
<1>1. Apart(P, A, G, C2) /\ Kept(D, P, A, G, C2, sim) /\ Single(P, C2, W2, R2, sim)
  BY DEF Ledger, Apart, Kept, Single
<1>2. Ordered(P, A, C2, W2, sim)
  BY DEF Ledger, Ordered
<1>. QED  BY <1>1, <1>2 DEF Ledger

(* Of what the dispatch n holds x acts and Y is gone. *)
Gives(C, C2, n, x, Y, sim) ==
  /\ C[n] = {x} \cup Y \cup C2[n]
  /\ x \notin Y /\ Y \cap C2[n] = {} /\ Before({x}, C2[n], sim)
  /\ \A i \in Nat : i # n => C2[i] = C[i]

LEMMA Acting ==
  ASSUME NEW D, NEW P, NEW A, NEW G, NEW C, NEW W, NEW R, NEW sim,
         Ledger(D, P, A, G, C, W, R, sim), W \subseteq Nat, R \subseteq Nat,
         NEW n \in R, n \notin W, \A i \in W \cup R : i <= n,
         \A i \in Nat : i \in W \cup R \/ C[i] = {},
         NEW x, NEW Y, NEW C2, Gives(C, C2, n, x, Y, sim)
  PROVE  Ledger(D, P, A \cup {x}, G \cup Y, C2, W, R, sim)
<1>. DEFINE Z == C2[n]
<1>9. /\ C[n] = {x} \cup Y \cup Z /\ x \notin Y /\ Y \cap Z = {} /\ Before({x}, Z, sim)
      /\ C2[n] = Z /\ \A i \in Nat : i # n => C2[i] = C[i]
  BY DEF Gives
<1>. HIDE DEF Z
<1>0. /\ n \in Nat /\ (\A i \in Nat : C2[i] \subseteq C[i]) /\ P \subseteq sim /\ x \notin Z
      /\ (\A i \in W : i < n /\ i \in Nat) /\ (\A i \in R : i = n \/ (i < n /\ i \in Nat))
      /\ \A i \in Nat : i = n \/ i < n \/ C2[i] = {}
  <2>1. \A i \in R \cup W : i \in Nat /\ (i < n \/ i = n)
    OBVIOUS
  <2>2. P \subseteq sim
    BY DEF Ledger, Single
  <2>3. x \notin Z
    BY <1>9 DEF Before
  <2>4. \A i \in Nat : i = n \/ i < n \/ C2[i] = {}
    <3>1. \A i \in Nat : i = n \/ i < n \/ i > n
      BY <2>1
    <3>2. \A i \in W \cup R : ~ (i > n)
      BY <2>1
    <3>. QED  BY <1>9, <3>1, <3>2
  <2>. QED  BY <1>9, <2>1, <2>2, <2>3, <2>4
<1>1. Apart(P, A \cup {x}, G \cup Y, C2)
  <2>1. Apart(P, A, G, C)
    BY DEF Ledger
  <2>2. ASSUME NEW i \in Nat  PROVE C2[i] \cap (P \cup (A \cup {x}) \cup (G \cup Y)) = {}
    <3>1. CASE i = n
      BY <1>9, <1>0, <2>1, <3>1 DEF Apart
    <3>2. CASE i # n
      BY <1>9, <1>0, <2>1, <3>2 DEF Apart
    <3>. QED  BY <3>1, <3>2
  <2>3. (A \cup {x}) \cap (G \cup Y) = {} /\ P \cap ((A \cup {x}) \cup (G \cup Y)) = {}
    BY <1>9, <1>0, <2>1 DEF Apart
  <2>4. \A i, j \in Nat : i # j => C2[i] \cap C2[j] = {}
    BY <1>9, <1>0, <2>1 DEF Apart
  <2>. QED  BY <2>2, <2>3, <2>4 DEF Apart
<1>2. Kept(D, P, A \cup {x}, G \cup Y, C2, sim)
  <2>1. Kept(D, P, A, G, C, sim)
    BY DEF Ledger
  <2>2. ASSUME NEW y \in D \ sim
        PROVE  y \in P \cup (A \cup {x}) \cup (G \cup Y) \/ \E i \in Nat : y \in C2[i]
    <3>1. CASE \E i \in Nat : y \in C[i]
      <4>1. PICK i \in Nat : y \in C[i]
        BY <3>1
      <4>. QED  BY <1>9, <1>0, <4>1
    <3>. QED  BY <2>1, <3>1 DEF Kept
  <2>3. P \cup (A \cup {x}) \cup (G \cup Y) \subseteq D
    BY <1>9, <1>0, <2>1 DEF Kept
  <2>. QED  BY <1>9, <1>0, <2>1, <2>2, <2>3 DEF Kept
<1>3. Single(P, C2, W, R, sim)
  BY <1>9, <1>0 DEF Ledger, Single
<1>4. Ordered(P, A \cup {x}, C2, W, sim)
  <2>1. Ordered(P, A, C, W, sim) /\ Single(P, C, W, R, sim) /\ Apart(P, A, G, C)
    BY DEF Ledger
  <2>2. Before(A \cup {x}, P, sim)
    BY <1>9, <1>0, <2>1 DEF Ordered, Apart, Before
  <2>3. ASSUME NEW i \in Nat  PROVE Before(A \cup {x}, C2[i], sim)
    <3>1. Before(A, C2[i], sim)
      BY <1>9, <1>0, <2>1 DEF Ordered, Before
    <3>2. CASE i = n
      BY <1>9, <3>1, <3>2 DEF Before
    <3>3. CASE i < n /\ i \in W
      <4>1. Before(C[n], C2[i], sim)
        BY <1>9, <1>0, <2>1, <3>3 DEF Ordered
      <4>. QED  BY <1>9, <3>1, <4>1 DEF Before
    <3>4. CASE i < n /\ i \in R
      <4>1. C[n] \subseteq sim /\ C[n] \cap C2[i] = {}
        BY <1>9, <1>0, <2>1, <3>4 DEF Single, Apart
      <4>. QED  BY <1>9, <3>1, <4>1 DEF Before
    <3>5. CASE i < n /\ i \notin W \cup R
      <4>1. C2[i] = {}
        BY <1>9, <1>0, <3>5
      <4>. QED  BY <4>1 DEF Before
    <3>6. CASE C2[i] = {}
      BY <3>6 DEF Before
    <3>. QED  BY <1>9, <1>0, <3>2, <3>3, <3>4, <3>5, <3>6
  <2>4. \A i \in W : Before(P, C2[i], sim)
    BY <1>9, <1>0, <2>1 DEF Ordered, Before
  <2>5. \A i \in W, j \in Nat : i < j => Before(C2[j], C2[i], sim)
    BY <1>9, <1>0, <2>1 DEF Ordered, Before
  <2>. QED  BY <2>2, <2>3, <2>4, <2>5 DEF Ordered
<1>. QED  BY <1>1, <1>2, <1>3, <1>4 DEF Ledger

(* All that pends is replayed, when the time is over. *)
LEMMA TimedOut ==
  ASSUME NEW D, NEW P, NEW A, NEW G, NEW C, NEW sim,
         Ledger(D, P, A, G, C, {}, {}, sim), \A i \in Nat : C[i] = {},
         NEW C2, C2[1] = P, \A i \in Nat : i # 1 => C2[i] = {}
  PROVE  Ledger(D, {}, A, G, C2, {}, {1}, sim)
<1>1. Apart({}, A, G, C2)
  BY DEF Ledger, Apart
<1>2. Kept(D, {}, A, G, C2, sim)
  BY DEF Ledger, Kept
<1>3. Single({}, C2, {}, {1}, sim)
  BY DEF Single
<1>4. Ordered({}, A, C2, {}, sim)
  BY DEF Ledger, Ordered, Before
<1>. QED  BY <1>1, <1>2, <1>3, <1>4 DEF Ledger
-----------------------------------------------------------------------------
(* Sequences, and the dispatches in progress *)

LEMMA FrontIs ==
  ASSUME NEW T, NEW s \in Seq(T), s # <<>>
  PROVE  /\ Len(s) \in Nat \ {0} /\ DOMAIN s = 1..Len(s)
         /\ Front(s) \in Seq(T) /\ Len(Front(s)) = Len(s) - 1
         /\ DOMAIN Front(s) = 1..Len(s) - 1
         /\ \A i \in 1..Len(s) - 1 : Front(s)[i] = s[i]
         /\ Last(s) = s[Len(s)]
<1>1. /\ Len(s) \in Nat \ {0} /\ DOMAIN s = 1..Len(s)
      /\ \A i \in 1..Len(s) - 1 : s[i] \in T
  OBVIOUS
<1>. DEFINE n == Len(s) - 1
            t == SubSeq(s, 1, n)
<1>2. n \in Nat /\ 1 \in Int /\ n \in Int /\ \A i \in 1..n : s[i] \in T
  BY <1>1
<1>. HIDE DEF n
<1>3. t \in Seq(T) /\ Len(t) = (IF 1 <= n THEN n - 1 + 1 ELSE 0) /\ \A i \in 1..n - 1 + 1 : t[i] = s[1 + i - 1]
  BY <1>2, SubSeqProperties
<1>4. Len(t) = n /\ DOMAIN t = 1..Len(t) /\ \A i \in 1..n : t[i] = s[i]
  BY <1>2, <1>3
<1>. HIDE DEF t
<1>5. Front(s) = t /\ Last(s) = s[Len(s)]
  BY DEF Front, Last, t, n
<1>. QED  BY <1>1, <1>3, <1>4, <1>5 DEF n

LEMMA TurnedIs ==
  ASSUME NEW T, NEW s \in Seq(T), s # <<>>, NEW c \in T
  PROVE  /\ Append(Front(s), c) \in Seq(T)
         /\ DOMAIN Append(Front(s), c) = 1..Len(s)
         /\ \A i \in 1..Len(s) - 1 : Append(Front(s), c)[i] = s[i]
         /\ Append(Front(s), c)[Len(s)] = c
<1>1. /\ Len(s) \in Nat \ {0} /\ Front(s) \in Seq(T) /\ Len(Front(s)) = Len(s) - 1
      /\ \A i \in 1..Len(s) - 1 : Front(s)[i] = s[i]
  BY FrontIs
<1>. DEFINE f == Front(s)
<1>. HIDE DEF f
<1>2. /\ Append(f, c) \in Seq(T) /\ Len(Append(f, c)) = Len(f) + 1
      /\ \A i \in 1..Len(f) : Append(f, c)[i] = f[i]
      /\ Append(f, c)[Len(f) + 1] = c
  BY <1>1, AppendProperties DEF f
<1>3. Len(f) + 1 = Len(s) /\ DOMAIN Append(f, c) = 1..Len(f) + 1
  BY <1>1, <1>2 DEF f
<1>. QED  BY <1>1, <1>2, <1>3 DEF f

(* The last of a sequence without repetitions, and those before it. *)
LEMMA LastParts ==
  ASSUME NEW s \in Seq(Nat), s # <<>>, NEW sim, Sorted(s, sim)
  PROVE  /\ Last(s) \in Nat
         /\ ToSet(s) = {Last(s)} \cup ToSet(Front(s))
         /\ Last(s) \notin ToSet(Front(s))
<1>1. /\ Len(s) \in Nat \ {0} /\ DOMAIN s = 1..Len(s)
      /\ DOMAIN Front(s) = 1..Len(s) - 1
      /\ \A i \in 1..Len(s) - 1 : Front(s)[i] = s[i]
      /\ Last(s) = s[Len(s)]
  BY FrontIs
<1>. DEFINE f == Front(s)
            n == Len(s)
<1>8. n \in Nat \ {0}
  BY <1>1
<1>. HIDE DEF f, n
<1>2. \A i \in 1..n : i = n \/ i \in 1..n - 1
  BY <1>8
<1>3. (\A i \in 1..n - 1 : i \in 1..n /\ i < n) /\ n \in 1..n
  BY <1>8
<1>4. ToSet(f) = {s[i] : i \in 1..n - 1}
  BY <1>1 DEF ToSet, f, n
<1>5. ToSet(s) = {s[i] : i \in 1..n}
  BY <1>1 DEF ToSet, n
<1>6. ToSet(s) = {s[n]} \cup ToSet(f)
  BY <1>2, <1>3, <1>4, <1>5
<1>7. s[n] \notin ToSet(f)
  <2>1. \A i \in 1..n - 1 : s[i] # s[n]
    BY <1>1, <1>3 DEF Sorted, n
  <2>. QED  BY <1>4, <2>1
<1>. QED  BY <1>1, <1>6, <1>7 DEF f, n

(* The first of the replays comes before the others and the rest. *)
LEMMA HeadParts ==
  ASSUME NEW rs \in Seq(Seq(Nat)), rs # <<>>, NEW rest, NEW sim, Divided(rs, rest, sim)
  PROVE  /\ Head(rs) \in Seq(Nat) /\ Head(rs) # <<>> /\ Sorted(Head(rs), sim)
         /\ Tail(rs) \in Seq(Seq(Nat)) /\ Divided(Tail(rs), rest, sim)
         /\ InReplays(rs) = ToSet(Head(rs)) \cup InReplays(Tail(rs))
         /\ Before(ToSet(Head(rs)), InReplays(Tail(rs)) \cup ToSet(rest), sim)
<1>. DEFINE T == Seq(Nat)
            n == Len(rs)
            t == Tail(rs)
            h == Head(rs)
<1>1. rs \in Seq(T)
  OBVIOUS
<1>. HIDE DEF T
<1>2. /\ n \in Nat \ {0} /\ DOMAIN rs = 1..n
      /\ h \in T /\ t \in Seq(T) /\ Len(t) = n - 1 /\ h = rs[1]
      /\ \A i \in 1..n - 1 : t[i] = rs[i + 1]
  BY <1>1
<1>. HIDE DEF n, t, h
<1>3. DOMAIN t = 1..n - 1
  BY <1>2
<1>4. /\ 1 \in 1..n /\ (\A i \in 1..n - 1 : i + 1 \in 1..n /\ 1 < i + 1)
      /\ (\A i \in 1..n : i = 1 \/ (i - 1 \in 1..n - 1 /\ i - 1 + 1 = i))
      /\ \A i, j \in 1..n - 1 : i < j => i + 1 < j + 1
  BY <1>2
<1>5. h # <<>> /\ Sorted(h, sim)
  BY <1>2, <1>4 DEF Divided
<1>6. InReplays(rs) = ToSet(h) \cup InReplays(t)
  <2>3. \A i \in 1..n : i = 1 \/ (i - 1 \in DOMAIN t /\ rs[i] = t[i - 1])
    BY <1>2, <1>3, <1>4
  <2>1. \A x \in InReplays(rs) : x \in ToSet(h) \cup InReplays(t)
    <3>. SUFFICES ASSUME NEW i \in 1..n, NEW x \in ToSet(rs[i])  PROVE x \in ToSet(h) \cup InReplays(t)
      BY <1>2 DEF InReplays
    <3>1. CASE i = 1
      BY <1>2, <3>1
    <3>2. CASE i - 1 \in DOMAIN t /\ rs[i] = t[i - 1]
      BY <3>2 DEF InReplays
    <3>. QED  BY <2>3, <3>1, <3>2
  <2>2. \A x \in ToSet(h) \cup InReplays(t) : x \in InReplays(rs)
    BY <1>2, <1>3, <1>4 DEF InReplays
  <2>. QED  BY <2>1, <2>2
<1>7. Divided(t, rest, sim)
  <2>1. \A i \in DOMAIN t : t[i] # <<>> /\ Sorted(t[i], sim)
    BY <1>2, <1>3, <1>4 DEF Divided
  <2>2. \A i, j \in DOMAIN t : i < j => Before(ToSet(t[i]), ToSet(t[j]), sim)
    BY <1>2, <1>3, <1>4 DEF Divided
  <2>3. Sorted(rest, sim) /\ Before(InReplays(t), ToSet(rest), sim)
    BY <1>6 DEF Divided, Before
  <2>. QED  BY <2>1, <2>2, <2>3 DEF Divided
<1>8. Before(ToSet(h), InReplays(t) \cup ToSet(rest), sim)
  <2>1. Before(ToSet(h), ToSet(rest), sim)
    BY <1>6 DEF Divided, Before
  <2>2. \A i \in DOMAIN t : Before(ToSet(h), ToSet(t[i]), sim)
    BY <1>2, <1>3, <1>4 DEF Divided
  <2>. QED  BY <2>1, <2>2 DEF Before, InReplays
<1>. QED  BY <1>2, <1>5, <1>6, <1>7, <1>8 DEF T, t, h

(* What a dispatch holds, and in which order. *)
Contents(c) ==
  IF c.pc = "intercept" THEN {c.key}
  ELSE InReplays(c.replays) \cup ToSet(c.pending) \cup (IF c.pc = "act" THEN {} ELSE ToSet(c.taken))

Framed(c, sim) ==
  /\ c \in Frames
  /\ c.pc = "intercept" => c.replays = <<>> /\ c.pending = <<>> /\ c.taken = <<>>
  /\ c.pc = "act" => c.replays = <<>> /\ c.pending = <<>>
  /\ c.pending = <<>> \/ c.taken = <<>>
  /\ Divided(c.replays, c.pending, sim) /\ Divided(c.replays, c.taken, sim)

(* The order of some keystrokes is that of fewer, when more are of user    *)
(* code.                                                                   *)
LEMMA FramedStill ==
  ASSUME NEW c, NEW sim, NEW more, sim \subseteq more, Framed(c, sim)
  PROVE  Framed(c, more)
<1>1. \A A, B : Before(A, B, sim) => Before(A, B, more)
  BY DEF Before
<1>2. \A s : Sorted(s, sim) => Sorted(s, more)
  BY DEF Sorted
<1>3. \A rs, rest : Divided(rs, rest, sim) => Divided(rs, rest, more)
  <2>. SUFFICES ASSUME NEW rs, NEW rest, Divided(rs, rest, sim)  PROVE Divided(rs, rest, more)
    OBVIOUS
  <2>. QED  BY <1>1, <1>2 DEF Divided
<1>. QED  BY <1>3 DEF Framed

Places(st) == [i \in Nat |-> IF i \in DOMAIN st THEN Contents(st[i]) ELSE {}]
Waiting(st) == {i \in DOMAIN st : st[i].pc = "intercept"}
Running(st) == DOMAIN st \ Waiting(st)

LEMMA Depths ==
  ASSUME NEW st \in Seq(Frames)
  PROVE  /\ Len(st) \in Nat /\ DOMAIN st = 1..Len(st)
         /\ Waiting(st) \subseteq 1..Len(st) /\ Running(st) \subseteq 1..Len(st)
         /\ Waiting(st) \subseteq Nat /\ Running(st) \subseteq Nat
         /\ \A i \in Waiting(st) \cup Running(st) : i <= Len(st)
         /\ \A i \in Nat : i \in Waiting(st) \cup Running(st) \/ Places(st)[i] = {}
         /\ \A i \in Nat : i > Len(st) => Places(st)[i] = {}
<1>1. Len(st) \in Nat /\ DOMAIN st = 1..Len(st)
  OBVIOUS
<1>2. /\ \A i \in 1..Len(st) : i \in Nat /\ i <= Len(st)
      /\ \A i \in Nat : i > Len(st) => i \notin 1..Len(st)
  BY <1>1
<1>3. Waiting(st) \cup Running(st) = 1..Len(st)
  BY <1>1 DEF Waiting, Running
<1>. QED  BY <1>1, <1>2, <1>3 DEF Places

LEMMA PushedPlaces ==
  ASSUME NEW st \in Seq(Frames), NEW c \in Frames
  PROVE  /\ Append(st, c) \in Seq(Frames) /\ DOMAIN Append(st, c) = 1..Len(st) + 1
         /\ \A i \in 1..Len(st) : Append(st, c)[i] = st[i]
         /\ Append(st, c)[Len(st) + 1] = c
         /\ Places(Append(st, c))[Len(st) + 1] = Contents(c)
         /\ \A i \in Nat : i # Len(st) + 1 => Places(Append(st, c))[i] = Places(st)[i]
         /\ Waiting(Append(st, c)) = Waiting(st) \cup (IF c.pc = "intercept" THEN {Len(st) + 1} ELSE {})
         /\ Running(Append(st, c)) = Running(st) \cup (IF c.pc = "intercept" THEN {} ELSE {Len(st) + 1})
<1>. DEFINE t == Append(st, c)
            n == Len(st)
<1>1. /\ t \in Seq(Frames) /\ Len(t) = n + 1 /\ n \in Nat /\ DOMAIN st = 1..n
      /\ \A i \in 1..n : t[i] = st[i]
      /\ t[n + 1] = c
  BY AppendProperties
<1>. HIDE DEF t, n
<1>2. DOMAIN t = 1..n + 1
  BY <1>1
<1>3. /\ n + 1 \in Nat /\ n + 1 \in 1..n + 1 /\ n + 1 \notin 1..n
      /\ \A i \in Nat : i # n + 1 => (i \in 1..n + 1 <=> i \in 1..n)
      /\ 1..n + 1 = 1..n \cup {n + 1}
  BY <1>1
<1>. DEFINE m == n + 1
<1>. HIDE DEF m
<1>4. Places(t)[m] = Contents(c) /\ \A i \in Nat : i # m => Places(t)[i] = Places(st)[i]
  BY <1>1, <1>2, <1>3 DEF Places, m
<1>5. Waiting(t) = Waiting(st) \cup (IF c.pc = "intercept" THEN {m} ELSE {})
  BY <1>1, <1>2, <1>3 DEF Waiting, m
<1>6. Running(t) = Running(st) \cup (IF c.pc = "intercept" THEN {} ELSE {m})
  BY <1>1, <1>2, <1>3 DEF Waiting, Running, m
<1>. QED  BY <1>1, <1>2, <1>4, <1>5, <1>6 DEF t, n, m

LEMMA TurnedPlaces ==
  ASSUME NEW st \in Seq(Frames), st # <<>>, NEW c \in Frames, c.pc # "intercept"
  PROVE  /\ Append(Front(st), c) \in Seq(Frames) /\ DOMAIN Append(Front(st), c) = 1..Len(st)
         /\ \A i \in 1..Len(st) - 1 : Append(Front(st), c)[i] = st[i]
         /\ Append(Front(st), c)[Len(st)] = c
         /\ Places(Append(Front(st), c))[Len(st)] = Contents(c)
         /\ \A i \in Nat : i # Len(st) => Places(Append(Front(st), c))[i] = Places(st)[i]
         /\ Waiting(Append(Front(st), c)) = Waiting(st) \ {Len(st)}
         /\ Running(Append(Front(st), c)) = Running(st) \cup {Len(st)}
<1>. DEFINE t == Append(Front(st), c)
            n == Len(st)
<1>1. /\ t \in Seq(Frames) /\ DOMAIN t = 1..n /\ n \in Nat \ {0} /\ DOMAIN st = 1..n
      /\ \A i \in 1..n - 1 : t[i] = st[i]
      /\ t[n] = c
  BY TurnedIs, FrontIs
<1>. HIDE DEF t, n
<1>2. n \in Nat /\ n \in 1..n /\ \A i \in 1..n : i = n \/ i \in 1..n - 1
  BY <1>1
<1>3. \A i \in 1..n : i # n => t[i] = st[i]
  BY <1>1, <1>2
<1>4. Places(t)[n] = Contents(c) /\ \A i \in Nat : i # n => Places(t)[i] = Places(st)[i]
  BY <1>1, <1>2, <1>3 DEF Places
<1>5. Waiting(t) = Waiting(st) \ {n} /\ Running(t) = Running(st) \cup {n}
  BY <1>1, <1>2, <1>3 DEF Waiting, Running
<1>. QED  BY <1>1, <1>4, <1>5 DEF t, n

LEMMA PoppedPlaces ==
  ASSUME NEW st \in Seq(Frames), st # <<>>
  PROVE  /\ Front(st) \in Seq(Frames) /\ DOMAIN Front(st) = 1..Len(st) - 1
         /\ \A i \in 1..Len(st) - 1 : Front(st)[i] = st[i]
         /\ Places(Front(st))[Len(st)] = {}
         /\ \A i \in Nat : i # Len(st) => Places(Front(st))[i] = Places(st)[i]
         /\ Waiting(Front(st)) = Waiting(st) \ {Len(st)}
         /\ Running(Front(st)) = Running(st) \ {Len(st)}
<1>. DEFINE t == Front(st)
            n == Len(st)
<1>1. /\ t \in Seq(Frames) /\ DOMAIN t = 1..n - 1 /\ n \in Nat \ {0} /\ DOMAIN st = 1..n
      /\ \A i \in 1..n - 1 : t[i] = st[i]
  BY FrontIs
<1>. HIDE DEF t, n
<1>2. n \in Nat /\ n \in 1..n /\ n \notin 1..n - 1 /\ \A i \in Nat : i # n => (i \in 1..n <=> i \in 1..n - 1)
  BY <1>1
<1>3. Places(t)[n] = {} /\ \A i \in Nat : i # n => Places(t)[i] = Places(st)[i]
  BY <1>1, <1>2 DEF Places
<1>4. Waiting(t) = Waiting(st) \ {n} /\ Running(t) = Running(st) \ {n}
  <2>1. 1..n - 1 = 1..n \ {n}
    BY <1>1
  <2>. QED  BY <1>1, <2>1 DEF Waiting, Running
<1>. QED  BY <1>1, <1>3, <1>4 DEF t, n
-----------------------------------------------------------------------------
(* The invariant *)

Plain ==
  /\ focus \in Focuses \cup {NoFocus} /\ pending \in Pendings
  /\ deferred \in BOOLEAN /\ blurred \in BOOLEAN
  /\ stack \in Seq(Frames)
  /\ keyOf \in Seq(Keys) /\ simulated \cup timed \subseteq DOMAIN keyOf
  /\ acted \in Seq(Nat)

(* Every keystroke that the user typed is at one place, and they are in    *)
(* order from the places they reach last to those they come from.          *)
Placed ==
  /\ Sorted(acted, simulated) /\ Sorted(pending.keys, simulated)
  /\ \A i \in DOMAIN stack : Framed(stack[i], simulated)
  /\ Ledger(DOMAIN keyOf, ToSet(pending.keys), ToSet(acted), gone,
            Places(stack), Waiting(stack), Running(stack), simulated)

(* What has a timer, pending or about to pend again, is known to need one. *)
Timely ==
  /\ ToSet(pending.keys) \cap timed # {} => pending.timeout
  /\ \A i \in Waiting(stack) : Places(stack)[i] \cap timed = {}
  /\ \A i \in DOMAIN stack : ToSet(stack[i].pending) \cap timed # {} => stack[i].cur.timeout

(* The observers know what is pending, or a dispatch will tell them.       *)
Tells(c) == c.pc # "intercept" /\ (c.pending # <<>> \/ c.taken # <<>>)
Telling ==
  \/ deferred \/ blurred \/ told = ActiveKeys(pending, focus)
  \/ \E i \in DOMAIN stack : Tells(stack[i])

IInv == Plain /\ Placed /\ Timely /\ Telling

LEMMA Initially == Init => IInv
<1>. SUFFICES ASSUME Init  PROVE IInv
  OBVIOUS
<1>1. /\ <<>> \in Seq(Frames) /\ <<>> \in Seq(Keys) /\ <<>> \in Seq(Nat) /\ DOMAIN <<>> = {}
      /\ NoPending \in Pendings /\ NoPending.keys = <<>>
  BY DEF NoPending, Pendings
<1>2. Plain
  BY <1>1 DEF Init, Plain
<1>3. ToSet(<<>>) = {} /\ \A sim : Sorted(<<>>, sim)
  BY <1>1 DEF ToSet, Sorted
<1>4. Waiting(<<>>) = {} /\ Running(<<>>) = {} /\ Places(<<>>) = [i \in Nat |-> {}]
  BY <1>1 DEF Waiting, Running, Places
<1>5. Ledger({}, {}, {}, {}, [i \in Nat |-> {}], {}, {}, {})
  BY DEF Ledger, Apart, Kept, Single, Ordered, Before
<1>6. Placed
  BY <1>1, <1>3, <1>4, <1>5 DEF Init, Placed
<1>7. Timely
  BY <1>1, <1>3, <1>4 DEF Init, Timely
<1>8. Telling
  <2>1. told = <<>> /\ ActiveKeys(pending, focus) = <<>>
    BY <1>1 DEF Init, ActiveKeys
  <2>. QED  BY <2>1 DEF Telling
<1>. QED  BY <1>2, <1>6, <1>7, <1>8 DEF IInv

LEMMA AtTop ==
  ASSUME Plain, Placed, stack # <<>>
  PROVE  /\ Len(stack) \in Nat \ {0} /\ DOMAIN stack = 1..Len(stack) /\ Len(stack) \in DOMAIN stack
         /\ Top = stack[Len(stack)] /\ Top \in Frames /\ Framed(Top, simulated)
         /\ Places(stack)[Len(stack)] = Contents(Top)
         /\ Top.pc = "intercept" => Len(stack) \in Waiting(stack)
         /\ Top.pc # "intercept" => Len(stack) \in Running(stack) /\ Len(stack) \notin Waiting(stack)
         /\ \A i \in DOMAIN stack : i = Len(stack) \/ i \in 1..Len(stack) - 1
<1>1. Len(stack) \in Nat \ {0} /\ DOMAIN stack = 1..Len(stack) /\ Len(stack) \in DOMAIN stack
  BY DEF Plain
<1>2. \A i \in 1..Len(stack) : i = Len(stack) \/ i \in 1..Len(stack) - 1
  <2>1. \A n \in Nat \ {0} : \A i \in 1..n : i = n \/ i \in 1..n - 1
    OBVIOUS
  <2>. QED  BY <1>1, <2>1
<1>3. Framed(Top, simulated) /\ Top = stack[Len(stack)]
  BY <1>1 DEF Placed, Top
<1>4. Top \in Frames
  BY <1>3 DEF Framed
<1>5. Places(stack)[Len(stack)] = Contents(Top)
  BY <1>1, <1>3 DEF Places
<1>6. /\ Top.pc = "intercept" => Len(stack) \in Waiting(stack)
      /\ Top.pc # "intercept" => Len(stack) \in Running(stack) /\ Len(stack) \notin Waiting(stack)
  BY <1>1, <1>3 DEF Waiting, Running
<1>. QED  BY <1>1, <1>2, <1>3, <1>4, <1>5, <1>6

(* What pends is forgotten, whoever is told.                               *)
LEMMA ForgetKeeps ==
  ASSUME Plain, Placed, Timely, pending' = NoPending, gone' = gone \cup ToSet(pending.keys),
         UNCHANGED <<stack, keyOf, simulated, acted, timed>>
  PROVE  Placed' /\ Timely' /\ pending' \in Pendings
<1>1. pending'.keys = <<>> /\ ToSet(<<>>) = {} /\ Sorted(<<>>, simulated)
  BY DEF NoPending, ToSet, Sorted
<1>2. Ledger(DOMAIN keyOf, {}, ToSet(acted), gone', Places(stack), Waiting(stack), Running(stack), simulated)
  BY Forgotten DEF Placed
<1>3. Placed'
  BY <1>1, <1>2 DEF Placed
<1>4. Timely'
  BY <1>1 DEF Timely
<1>. QED  BY <1>3, <1>4 DEF NoPending, Pendings

LEMMA FocusKeeps ==
  ASSUME IInv, NEW f \in Focuses, Focus(f)  PROVE IInv'
<1>1. /\ Placed' /\ Timely' /\ pending' \in Pendings
      /\ UNCHANGED <<stack, keyOf, simulated, acted, timed, blurred>> /\ focus' = f /\ deferred' = TRUE
  BY ForgetKeeps DEF IInv, Focus, typing
<1>2. Plain' /\ Telling'
  BY <1>1 DEF IInv, Plain, Telling
<1>. QED  BY <1>1, <1>2 DEF IInv

LEMMA BlurKeeps ==
  ASSUME IInv, Blur  PROVE IInv'
<1>1. UNCHANGED <<pending, deferred, stack, keyOf, simulated, acted, timed, gone>> /\ focus' = NoFocus /\ blurred' = TRUE
  BY DEF Blur, history, typing
<1>2. Plain' /\ Placed' /\ Timely' /\ Telling'
  BY <1>1 DEF IInv, Plain, Placed, Timely, Telling
<1>. QED  BY <1>2 DEF IInv

(* What touches neither the keystrokes nor the observers keeps all. *)
LEMMA ElseKeeps ==
  ASSUME IInv, UNCHANGED <<focus, pending, deferred, stack, told, blurred, history>>  PROVE IInv'
<1>1. UNCHANGED <<focus, pending, deferred, stack, told, blurred, keyOf, simulated, acted, timed, gone>>
  BY DEF history, typing
<1>2. Plain' /\ Placed' /\ Timely'
  BY <1>1 DEF IInv, Plain, Placed, Timely
<1>3. Telling'
  BY <1>1 DEF IInv, Telling, ActiveKeys
<1>. QED  BY <1>2, <1>3 DEF IInv

LEMMA ClearPendingKeystrokesKeeps ==
  ASSUME IInv, ClearPendingKeystrokes  PROVE IInv'
<1>1. /\ Placed' /\ Timely' /\ pending' \in Pendings
      /\ UNCHANGED <<focus, deferred, stack, keyOf, simulated, acted, timed>>
      /\ pending' = NoPending /\ Tell(NoPending)
  BY ForgetKeeps DEF IInv, ClearPendingKeystrokes, typing
<1>2. Plain'
  BY <1>1 DEF IInv, Plain, Tell
<1>3. Telling'
  BY <1>1 DEF Tell, Telling, ActiveKeys
<1>. QED  BY <1>1, <1>2, <1>3 DEF IInv

LEMMA TellDeferredKeeps ==
  ASSUME IInv, TellDeferred  PROVE IInv'
<1>1. /\ UNCHANGED <<focus, pending, stack, keyOf, simulated, acted, timed, gone>>
      /\ deferred' = FALSE /\ Tell(pending)
  BY DEF TellDeferred, history, typing
<1>2. Plain' /\ Placed' /\ Timely'
  BY <1>1 DEF IInv, Plain, Placed, Timely, Tell
<1>3. Telling'
  BY <1>1 DEF Tell, Telling, ActiveKeys
<1>. QED  BY <1>2, <1>3 DEF IInv

LEMMA KeyDownKeeps ==
  ASSUME IInv, NEW k \in Keys, KeyDown(k)  PROVE IInv'
<1>. DEFINE z == Len(keyOf) + 1
            n == Len(stack)
            c == Dispatch(z, focus)
<1>1. /\ keyOf' = Append(keyOf, k) /\ simulated' = (IF Between THEN simulated ELSE simulated \cup {z})
      /\ stack' = Append(stack, c)
      /\ UNCHANGED <<focus, pending, deferred, told, blurred, acted, timed, gone>>
  BY DEF KeyDown, input
<1>2. Plain /\ Placed /\ Timely /\ Telling
  BY DEF IInv
<1>3. /\ Len(keyOf) \in Nat /\ DOMAIN keyOf = 1..Len(keyOf) /\ z \in Nat /\ z \notin DOMAIN keyOf
      /\ DOMAIN keyOf \subseteq 1..z /\ z \in 1..z
      /\ keyOf' \in Seq(Keys) /\ DOMAIN keyOf' = 1..z
  <2>1. keyOf \in Seq(Keys) /\ Len(keyOf) \in Nat /\ DOMAIN keyOf = 1..Len(keyOf)
    BY <1>2 DEF Plain
  <2>2. /\ Append(keyOf, k) \in Seq(Keys) /\ Len(Append(keyOf, k)) = z
    BY <2>1, AppendProperties
  <2>3. DOMAIN Append(keyOf, k) = 1..z
    BY <2>2
  <2>4. z \in Nat /\ z \notin 1..Len(keyOf) /\ 1..Len(keyOf) \subseteq 1..z /\ z \in 1..z
    BY <2>1
  <2>. QED  BY <1>1, <2>1, <2>2, <2>3, <2>4
<1>. HIDE DEF z
<1>4. c \in Frames /\ c.pc = "intercept" /\ c.key = z /\ c.replays = <<>> /\ c.pending = <<>> /\ c.taken = <<>>
  <2>1. <<>> \in Seq(Seq(Nat)) /\ <<>> \in Seq(Nat)
    OBVIOUS
  <2>2. NoPending \in Pendings
    BY <2>1 DEF NoPending, Pendings
  <2>. HIDE DEF c
  <2>3. c = [pc |-> "intercept", key |-> z, at |-> focus, cur |-> NoPending,
             replays |-> <<>>, pending |-> <<>>, bound |-> FALSE, taken |-> <<>>]
    BY DEF c, Dispatch
  <2>. QED  BY <1>2, <1>3, <2>1, <2>2, <2>3 DEF Frames, Pcs, Plain
<1>5. Contents(c) = {z}
  BY <1>4 DEF Contents
<1>. HIDE DEF c
<1>6. /\ stack' \in Seq(Frames) /\ DOMAIN stack' = 1..n + 1 /\ n \in Nat /\ DOMAIN stack = 1..n
      /\ \A i \in 1..n : stack'[i] = stack[i]
      /\ stack'[n + 1] = c
      /\ Places(stack')[n + 1] = {z}
      /\ \A i \in Nat : i # n + 1 => Places(stack')[i] = Places(stack)[i]
      /\ Waiting(stack') = Waiting(stack) \cup {n + 1}
      /\ Running(stack') = Running(stack)
      /\ Waiting(stack) \subseteq 1..n /\ Running(stack) \subseteq 1..n
      /\ \A i \in Nat : i > n => Places(stack)[i] = {}
  <2>1. stack \in Seq(Frames)
    BY <1>2 DEF Plain
  <2>2. /\ Append(stack, c) \in Seq(Frames) /\ DOMAIN Append(stack, c) = 1..Len(stack) + 1
        /\ \A i \in 1..Len(stack) : Append(stack, c)[i] = stack[i]
        /\ Append(stack, c)[Len(stack) + 1] = c
        /\ Places(Append(stack, c))[Len(stack) + 1] = {z}
        /\ \A i \in Nat : i # Len(stack) + 1 => Places(Append(stack, c))[i] = Places(stack)[i]
        /\ Waiting(Append(stack, c)) = Waiting(stack) \cup {Len(stack) + 1}
        /\ Running(Append(stack, c)) = Running(stack)
    <3>1. /\ Append(stack, c) \in Seq(Frames) /\ DOMAIN Append(stack, c) = 1..Len(stack) + 1
          /\ \A i \in 1..Len(stack) : Append(stack, c)[i] = stack[i]
          /\ Append(stack, c)[Len(stack) + 1] = c
          /\ Places(Append(stack, c))[Len(stack) + 1] = Contents(c)
          /\ \A i \in Nat : i # Len(stack) + 1 => Places(Append(stack, c))[i] = Places(stack)[i]
          /\ Waiting(Append(stack, c))
               = Waiting(stack) \cup (IF c.pc = "intercept" THEN {Len(stack) + 1} ELSE {})
          /\ Running(Append(stack, c))
               = Running(stack) \cup (IF c.pc = "intercept" THEN {} ELSE {Len(stack) + 1})
      BY <1>4, <2>1, PushedPlaces
    <3>. QED  BY <1>4, <1>5, <3>1
  <2>3. /\ Len(stack) \in Nat /\ DOMAIN stack = 1..Len(stack)
        /\ Waiting(stack) \subseteq 1..Len(stack) /\ Running(stack) \subseteq 1..Len(stack)
        /\ \A i \in Nat : i > Len(stack) => Places(stack)[i] = {}
    BY <2>1, Depths
  <2>. QED  BY <1>1, <2>2, <2>3
<1>7. /\ simulated \subseteq simulated' /\ simulated' \subseteq simulated \cup {z}
      /\ n > 0 => z \in simulated'
  BY <1>1, <1>6 DEF Between
<1>8. Plain'
  BY <1>1, <1>2, <1>3, <1>6, <1>7 DEF Plain
<1>9. \A i \in 1..n : i \in 1..n + 1 /\ i \in Nat /\ i # n + 1
  BY <1>6
<1>10. \A i \in 1..n + 1 : i \in 1..n \/ i = n + 1
  BY <1>6
<1>11. Ledger(1..z, ToSet(pending.keys), ToSet(acted), gone,
              Places(stack'), Waiting(stack'), Running(stack'), simulated')
  <2>1. Ledger(1..Len(keyOf), ToSet(pending.keys), ToSet(acted), gone,
               Places(stack), Waiting(stack), Running(stack), simulated)
    BY <1>2, <1>3 DEF Placed
  <2>. DEFINE C == Places(stack)
              C2 == Places(stack')
              W == Waiting(stack)
              R == Running(stack)
              l == Len(keyOf)
              P == ToSet(pending.keys)
              A == ToSet(acted)
  <2>2. /\ l \in Nat /\ z = l + 1 /\ n \in Nat
        /\ C2[n + 1] = {z} /\ (\A i \in Nat : i # n + 1 => C2[i] = C[i])
        /\ W \subseteq 1..n /\ R \subseteq 1..n /\ (\A i \in Nat : i > n => C[i] = {})
    BY <1>3, <1>6 DEF z
  <2>3. Ledger(1..l, P, A, gone, C, W, R, simulated)
    BY <2>1
  <2>. HIDE DEF C, C2, W, R, l, P, A, n
  <2>4. Ledger(1..l + 1, P, A, gone, C2, W \cup {n + 1}, R, simulated')
    BY <1>7, <2>2, <2>3, Typing
  <2>. QED  BY <1>6, <2>2, <2>4 DEF C2, W, R, P, A
<1>12. Placed'
  <2>1. Sorted(acted, simulated') /\ Sorted(pending.keys, simulated')
    BY <1>2, <1>7 DEF Placed, Sorted
  <2>2. \A i \in 1..n : Framed(stack'[i], simulated')
    BY <1>2, <1>6, <1>7, FramedStill DEF Placed
  <2>3. Framed(c, simulated')
    <3>1. Divided(<<>>, <<>>, simulated')
      <4>1. DOMAIN <<>> = {} /\ InReplays(<<>>) = {} /\ ToSet(<<>>) = {}
        BY DEF InReplays, ToSet
      <4>. QED  BY <4>1 DEF Divided, Before, Sorted
    <3>. QED  BY <1>4, <3>1 DEF Framed
  <2>. QED  BY <1>1, <1>3, <1>6, <1>10, <1>11, <2>1, <2>2, <2>3 DEF Placed
<1>13. Timely'
  <2>1. \A i \in Waiting(stack') : Places(stack')[i] \cap timed = {}
    <3>1. {z} \cap timed = {}
      BY <1>2, <1>3 DEF Plain
    <3>. QED  BY <1>2, <1>6, <1>9, <3>1 DEF Timely
  <2>2. \A i \in 1..n : ToSet(stack'[i].pending) \cap timed # {} => stack'[i].cur.timeout
    BY <1>2, <1>6 DEF Timely
  <2>3. ToSet(c.pending) = {}
    BY <1>4 DEF ToSet
  <2>. QED  BY <1>1, <1>2, <1>6, <1>10, <2>1, <2>2, <2>3 DEF Timely
<1>14. Telling'
  BY <1>1, <1>2, <1>6, <1>9 DEF Telling, ActiveKeys
<1>. QED  BY <1>8, <1>12, <1>13, <1>14 DEF IInv

(* A dispatch ends that has nothing to tell, or has told: the others are   *)
(* as they were.                                                           *)
LEMMA PopIs ==
  ASSUME Plain, Placed, stack # <<>>, Pop
  PROVE  /\ stack' \in Seq(Frames) /\ DOMAIN stack' = 1..Len(stack) - 1
         /\ \A i \in DOMAIN stack' : i \in DOMAIN stack /\ stack'[i] = stack[i] /\ i # Len(stack)
         /\ \A i \in DOMAIN stack : i # Len(stack) => i \in DOMAIN stack'
         /\ Places(stack')[Len(stack)] = {}
         /\ \A i \in Nat : i # Len(stack) => Places(stack')[i] = Places(stack)[i]
         /\ Waiting(stack') = Waiting(stack) \ {Len(stack)}
         /\ Running(stack') = Running(stack) \ {Len(stack)}
         /\ Waiting(stack) \subseteq Nat /\ Running(stack) \subseteq Nat
         /\ \A i \in Waiting(stack) \cup Running(stack) : i <= Len(stack)
<1>1. stack' = Front(stack) /\ stack \in Seq(Frames)
  BY DEF Pop, Plain
<1>2. /\ stack' \in Seq(Frames) /\ DOMAIN stack' = 1..Len(stack) - 1
      /\ \A i \in 1..Len(stack) - 1 : stack'[i] = stack[i]
      /\ Places(stack')[Len(stack)] = {}
      /\ \A i \in Nat : i # Len(stack) => Places(stack')[i] = Places(stack)[i]
      /\ Waiting(stack') = Waiting(stack) \ {Len(stack)}
      /\ Running(stack') = Running(stack) \ {Len(stack)}
  BY <1>1, PoppedPlaces
<1>3. /\ Waiting(stack) \subseteq Nat /\ Running(stack) \subseteq Nat
      /\ \A i \in Waiting(stack) \cup Running(stack) : i <= Len(stack)
  BY <1>1, Depths
<1>4. /\ Len(stack) \in Nat \ {0} /\ DOMAIN stack = 1..Len(stack)
      /\ \A i \in 1..Len(stack) : i = Len(stack) \/ i \in 1..Len(stack) - 1
  BY AtTop
<1>5. \A n \in Nat \ {0} : \A i \in 1..n - 1 : i \in 1..n /\ i # n
  OBVIOUS
<1>. QED  BY <1>2, <1>3, <1>4, <1>5

LEMMA InterceptKeeps ==
  ASSUME IInv, Intercept  PROVE IInv'
<1>1. /\ stack # <<>> /\ Top.pc = "intercept" /\ gone' = gone \cup {Top.key} /\ Pop
      /\ UNCHANGED <<focus, pending, deferred, told, blurred, keyOf, simulated, acted, timed>>
  BY DEF Intercept, Pc, Between, input, typing
<1>2. Plain /\ Placed /\ Timely /\ Telling
  BY DEF IInv
<1>. DEFINE n == Len(stack)
<1>3. /\ n \in Nat /\ DOMAIN stack = 1..n /\ Top = stack[n]
      /\ Places(stack)[n] = Contents(Top)
  BY <1>1, <1>2, AtTop
<1>4. /\ stack' \in Seq(Frames) /\ DOMAIN stack' = 1..n - 1
      /\ \A i \in DOMAIN stack' : i \in DOMAIN stack /\ stack'[i] = stack[i] /\ i # n
      /\ \A i \in DOMAIN stack : i # n => i \in DOMAIN stack'
      /\ Places(stack')[n] = {}
      /\ \A i \in Nat : i # n => Places(stack')[i] = Places(stack)[i]
      /\ Waiting(stack') = Waiting(stack) \ {n}
      /\ Running(stack') = Running(stack) \ {n}
      /\ Waiting(stack) \subseteq Nat
  BY <1>1, <1>2, PopIs
<1>5. gone' = gone \cup Places(stack)[n]
  BY <1>1, <1>3 DEF Contents
<1>. HIDE DEF n
<1>6. Plain'
  BY <1>1, <1>2, <1>4 DEF Plain
<1>7. Placed'
  <2>1. Ledger(DOMAIN keyOf, ToSet(pending.keys), ToSet(acted), gone',
               Places(stack'), Waiting(stack'), Running(stack'), simulated)
    <3>. DEFINE D == DOMAIN keyOf
                P == ToSet(pending.keys)
                A == ToSet(acted)
                C == Places(stack)
                C2 == Places(stack')
                W == Waiting(stack)
                R == Running(stack)
                R2 == Running(stack')
    <3>1. /\ Ledger(D, P, A, gone, C, W, R, simulated) /\ W \subseteq Nat /\ R2 \subseteq R
          /\ C2[n] = {} /\ \A i \in Nat : i # n => C2[i] = C[i]
      BY <1>2, <1>4 DEF Placed
    <3>. HIDE DEF D, P, A, C, C2, W, R, R2
    <3>2. Ledger(D, P, A, gone \cup C[n], C2, W \ {n}, R2, simulated)
      BY <1>3, <3>1, Dropped
    <3>. QED  BY <1>4, <1>5, <3>2 DEF D, P, A, C, C2, W, R2
  <2>. QED  BY <1>1, <1>2, <1>4, <2>1 DEF Placed
<1>8. Timely'
  BY <1>1, <1>2, <1>4 DEF Timely
<1>9. Telling'
  <2>1. ~Tells(stack[n])
    BY <1>1, <1>3 DEF Tells
  <2>. QED  BY <1>1, <1>2, <1>3, <1>4, <2>1 DEF Telling, ActiveKeys
<1>. QED  BY <1>6, <1>7, <1>8, <1>9 DEF IInv

(* A dispatch turns into another stage of itself.                          *)
LEMMA TurnIs ==
  ASSUME Plain, Placed, stack # <<>>, NEW c \in Frames, c.pc # "intercept", Become(c)
  PROVE  /\ stack' \in Seq(Frames) /\ DOMAIN stack' = DOMAIN stack
         /\ \A i \in DOMAIN stack : i # Len(stack) => stack'[i] = stack[i]
         /\ stack'[Len(stack)] = c /\ Len(stack) \in DOMAIN stack
         /\ Places(stack')[Len(stack)] = Contents(c)
         /\ \A i \in Nat : i # Len(stack) => Places(stack')[i] = Places(stack)[i]
         /\ Waiting(stack') = Waiting(stack) \ {Len(stack)}
         /\ Running(stack') = Running(stack) \cup {Len(stack)}
         /\ Waiting(stack) \subseteq Nat /\ Running(stack) \subseteq Nat /\ Len(stack) \in Nat
         /\ \A i \in Waiting(stack) \cup Running(stack) : i <= Len(stack)
         /\ \A i \in Nat : i > Len(stack) => Places(stack)[i] = {}
         /\ \A i \in Nat : i \in Waiting(stack) \cup Running(stack) \/ Places(stack)[i] = {}
<1>1. stack' = Append(Front(stack), c) /\ stack \in Seq(Frames)
  BY DEF Become, Plain
<1>2. /\ stack' \in Seq(Frames) /\ DOMAIN stack' = 1..Len(stack)
      /\ \A i \in 1..Len(stack) - 1 : stack'[i] = stack[i]
      /\ stack'[Len(stack)] = c
      /\ Places(stack')[Len(stack)] = Contents(c)
      /\ \A i \in Nat : i # Len(stack) => Places(stack')[i] = Places(stack)[i]
      /\ Waiting(stack') = Waiting(stack) \ {Len(stack)}
      /\ Running(stack') = Running(stack) \cup {Len(stack)}
  BY <1>1, TurnedPlaces
<1>3. /\ Waiting(stack) \subseteq Nat /\ Running(stack) \subseteq Nat
      /\ \A i \in Waiting(stack) \cup Running(stack) : i <= Len(stack)
      /\ \A i \in Nat : i > Len(stack) => Places(stack)[i] = {}
      /\ \A i \in Nat : i \in Waiting(stack) \cup Running(stack) \/ Places(stack)[i] = {}
  BY <1>1, Depths
<1>4. /\ Len(stack) \in Nat /\ DOMAIN stack = 1..Len(stack) /\ Len(stack) \in DOMAIN stack
      /\ \A i \in DOMAIN stack : i = Len(stack) \/ i \in 1..Len(stack) - 1
  BY AtTop
<1>. QED  BY <1>2, <1>3, <1>4

LEMMA MatchKeeps ==
  ASSUME IInv, Match  PROVE IInv'
<1>. DEFINE cur == IF Stale THEN NoPending ELSE pending
            out == DispatchKey(keymap, cur.keys, Top.key, keyOf, Top.at)
            X == ToSet(cur.keys)
            P == ToSet(pending.keys)
            n == Len(stack)
            c == [Top EXCEPT !.pc = "next", !.cur = cur, !.replays = out.replays,
                             !.pending = out.pending, !.bound = out.bound, !.taken = out.taken]
<1>1. /\ stack # <<>> /\ Top.pc = "intercept" /\ Become(c) /\ pending' = NoPending
      /\ gone' = (IF Stale THEN gone \cup P ELSE gone)
      /\ UNCHANGED <<focus, deferred, told, blurred, keyOf, simulated, acted, timed>>
  BY DEF Match, Pc, Between, typing
<1>2. Plain /\ Placed /\ Timely /\ Telling
  BY DEF IInv
<1>3. /\ n \in DOMAIN stack /\ Top = stack[n] /\ Top \in Frames /\ Framed(Top, simulated)
      /\ Places(stack)[n] = {Top.key} /\ n \in Waiting(stack) /\ Top.key \in Nat
  <2>1. /\ n \in DOMAIN stack /\ Top = stack[n] /\ Top \in Frames /\ Framed(Top, simulated)
        /\ Places(stack)[n] = Contents(Top) /\ n \in Waiting(stack)
    BY <1>1, <1>2, AtTop
  <2>. QED  BY <1>1, <2>1 DEF Contents, Frames
<1>4. /\ NoPending \in Pendings /\ NoPending.keys = <<>> /\ ToSet(<<>>) = {} /\ Sorted(<<>>, simulated)
      /\ NoPending.timeout = FALSE
  BY DEF NoPending, Pendings, ToSet, Sorted
<1>5. /\ cur \in Pendings /\ cur.keys \in Seq(Nat) /\ Sorted(cur.keys, simulated)
      /\ X \subseteq P /\ gone' = gone \cup (P \ X) /\ Before(X, {Top.key}, simulated)
      /\ X \cap timed # {} => cur.timeout
  <2>1. Before(P, {Top.key}, simulated)
    BY <1>2, <1>3 DEF Placed, Ledger, Ordered
  <2>2. pending \in Pendings /\ pending.keys \in Seq(Nat) /\ Sorted(pending.keys, simulated)
    BY <1>2 DEF Plain, Placed, Pendings
  <2>3. CASE Stale
    <3>1. cur = NoPending /\ X = {}
      BY <1>4, <2>3
    <3>2. Before({}, {Top.key}, simulated) /\ <<>> \in Seq(Nat)
      BY DEF Before
    <3>. HIDE DEF cur
    <3>. QED  BY <1>1, <1>4, <2>3, <3>1, <3>2
  <2>4. CASE ~Stale
    <3>1. cur = pending /\ X = P
      BY <2>4
    <3>2. P \cap timed # {} => pending.timeout
      BY <1>2 DEF Timely
    <3>. HIDE DEF cur
    <3>. QED  BY <1>1, <2>1, <2>2, <2>4, <3>1, <3>2
  <2>. QED  BY <2>3, <2>4
<1>. HIDE DEF cur
<1>6. Splits(out, X \cup {Top.key}, simulated)
  <2>. DEFINE ids == cur.keys
              id == Top.key
              at == Top.at
  <2>1. ids \in Seq(Nat) /\ id \in Nat /\ Sorted(ids, simulated) /\ Before(ToSet(ids), {id}, simulated)
    BY <1>3, <1>5
  <2>2. out = DispatchKey(keymap, ids, id, keyOf, at)
    OBVIOUS
  <2>. HIDE DEF ids, id, at, out
  <2>3. Splits(DispatchKey(keymap, ids, id, keyOf, at), ToSet(ids) \cup {id}, simulated)
    BY <2>1, DispatchParts
  <2>. QED  BY <2>2, <2>3 DEF ids, id
<1>. HIDE DEF out
<1>7. /\ c \in Frames /\ c.pc = "next" /\ c.cur = cur /\ c.replays = out.replays
      /\ c.pending = out.pending /\ c.taken = out.taken
  <2>1. out \in Outs
    BY <1>6 DEF Splits
  <2>2. /\ out.replays \in Seq(Seq(Nat)) /\ out.pending \in Seq(Nat) /\ out.bound \in BOOLEAN
        /\ out.taken \in Seq(Nat)
    BY <2>1 DEF Outs
  <2>. QED  BY <1>3, <1>5, <2>2 DEF Frames, Pcs
<1>8. Framed(c, simulated) /\ Contents(c) = X \cup {Top.key} /\ Tells(c) /\ ToSet(c.pending) \subseteq X \cup {Top.key}
  <2>. DEFINE rs == out.replays
  <2>. HIDE DEF c
  <2>1. \A rest : Divided(rs, rest, simulated) => Divided(rs, <<>>, simulated)
    <3>1. ToSet(<<>>) = {} /\ Sorted(<<>>, simulated)
      BY <1>4
    <3>. QED  BY <3>1 DEF Divided, Before
  <2>2. CASE out.pending # <<>> /\ out.taken = <<>> /\ PartsOf(rs, out.pending, X \cup {Top.key}, simulated)
    <3>1. /\ Divided(rs, out.pending, simulated) /\ InReplays(rs) \cup ToSet(out.pending) = X \cup {Top.key}
      BY <2>2 DEF PartsOf
    <3>. QED  BY <1>4, <1>7, <2>1, <2>2, <3>1 DEF Framed, Contents, Tells
  <2>3. CASE out.pending = <<>> /\ out.taken # <<>> /\ PartsOf(rs, out.taken, X \cup {Top.key}, simulated)
    <3>1. /\ Divided(rs, out.taken, simulated) /\ InReplays(rs) \cup ToSet(out.taken) = X \cup {Top.key}
      BY <2>3 DEF PartsOf
    <3>. QED  BY <1>4, <1>7, <2>1, <2>3, <3>1 DEF Framed, Contents, Tells
  <2>. QED  BY <1>6, <2>2, <2>3 DEF Splits
<1>. HIDE DEF c
<1>9. /\ stack' \in Seq(Frames) /\ DOMAIN stack' = DOMAIN stack
      /\ \A i \in DOMAIN stack : i # n => stack'[i] = stack[i]
      /\ stack'[n] = c
      /\ Places(stack')[n] = Contents(c)
      /\ \A i \in Nat : i # n => Places(stack')[i] = Places(stack)[i]
      /\ Waiting(stack') = Waiting(stack) \ {n}
      /\ Running(stack') = Running(stack) \cup {n}
      /\ Waiting(stack) \subseteq Nat /\ Running(stack) \subseteq Nat
      /\ \A i \in Nat : i > n => Places(stack)[i] = {}
  BY <1>1, <1>2, <1>7, TurnIs
<1>. HIDE DEF n
<1>10. Plain'
  BY <1>1, <1>2, <1>4, <1>9 DEF Plain
<1>11. Placed'
  <2>1. Ledger(DOMAIN keyOf, {}, ToSet(acted), gone', Places(stack'), Waiting(stack'), Running(stack'), simulated)
    <3>. DEFINE D == DOMAIN keyOf
                A == ToSet(acted)
                C == Places(stack)
                C2 == Places(stack')
                W == Waiting(stack)
                R == Running(stack)
    <3>1. /\ Ledger(D, P, A, gone, C, W, R, simulated) /\ W \subseteq Nat /\ R \subseteq Nat
          /\ n \in W /\ (\A i \in Nat : i > n => C[i] = {}) /\ X \subseteq P
          /\ C2[n] = X \cup C[n] /\ \A i \in Nat : i # n => C2[i] = C[i]
      BY <1>2, <1>3, <1>5, <1>8, <1>9 DEF Placed
    <3>. HIDE DEF D, P, A, C, C2, W, R, X
    <3>2. Ledger(D, {}, A, gone \cup (P \ X), C2, W \ {n}, R \cup {n}, simulated)
      BY <3>1, Gathered
    <3>3. gone' = gone \cup (P \ X)
      BY <1>5
    <3>. QED  BY <1>9, <3>2, <3>3 DEF D, A, C2, W, R
  <2>2. \A i \in DOMAIN stack' : Framed(stack'[i], simulated)
    BY <1>2, <1>8, <1>9 DEF Placed
  <2>. QED  BY <1>1, <1>2, <1>4, <2>1, <2>2 DEF Placed
<1>12. Timely'
  <2>1. {Top.key} \cap timed = {}
    BY <1>2, <1>3 DEF Timely
  <2>2. ToSet(c.pending) \cap timed # {} => c.cur.timeout
    BY <1>5, <1>7, <1>8, <2>1
  <2>. QED  BY <1>1, <1>2, <1>4, <1>9, <2>2 DEF Timely
<1>13. Telling'
  BY <1>3, <1>8, <1>9 DEF Telling
<1>. QED  BY <1>10, <1>11, <1>12, <1>13 DEF IInv

(* The last of some keystrokes that the last dispatch holds acts.          *)
LEMMA ActKeeps ==
  ASSUME Plain, Placed, Timely, stack # <<>>, Top.pc # "intercept",
         NEW seg \in Seq(Nat), seg # <<>>, Sorted(seg, simulated),
         NEW c, Framed(c, simulated), c.pc # "intercept", Become(c),
         c.pending = Top.pending, c.cur = Top.cur,
         Contents(Top) = ToSet(seg) \cup Contents(c), Before(ToSet(seg), Contents(c), simulated),
         acted' = Append(acted, Last(seg)), gone' = gone \cup ToSet(Front(seg)),
         UNCHANGED <<focus, pending, deferred, blurred, keyOf, simulated, timed>>
  PROVE  Plain' /\ Placed' /\ Timely'
<1>. DEFINE n == Len(stack)
            x == Last(seg)
            Y == ToSet(Front(seg))
            P == ToSet(pending.keys)
            A == ToSet(acted)
<1>1. x \in Nat /\ ToSet(seg) = {x} \cup Y /\ x \notin Y
  BY LastParts
<1>2. /\ n \in Nat /\ DOMAIN stack = 1..n /\ n \in DOMAIN stack /\ Top = stack[n] /\ Framed(Top, simulated)
      /\ Places(stack)[n] = Contents(Top) /\ n \in Running(stack) /\ n \notin Waiting(stack)
  BY AtTop
<1>3. /\ stack' \in Seq(Frames) /\ DOMAIN stack' = DOMAIN stack
      /\ \A i \in DOMAIN stack : i # n => stack'[i] = stack[i]
      /\ stack'[n] = c
      /\ Places(stack')[n] = Contents(c)
      /\ \A i \in Nat : i # n => Places(stack')[i] = Places(stack)[i]
      /\ Waiting(stack') = Waiting(stack) \ {n}
      /\ Running(stack') = Running(stack) \cup {n}
      /\ Waiting(stack) \subseteq Nat /\ Running(stack) \subseteq Nat
      /\ \A i \in Waiting(stack) \cup Running(stack) : i <= n
      /\ \A i \in Nat : i \in Waiting(stack) \cup Running(stack) \/ Places(stack)[i] = {}
  <2>1. c \in Frames
    BY DEF Framed
  <2>. QED  BY <2>1, TurnIs
<1>4. Waiting(stack') = Waiting(stack) /\ Running(stack') = Running(stack)
  BY <1>2, <1>3
<1>. HIDE DEF n, x, Y
<1>5. Before({x}, Contents(c), simulated) /\ Y \cap Contents(c) = {}
  BY <1>1 DEF Before
<1>6. acted \in Seq(Nat) /\ acted' = Append(acted, x) /\ acted' \in Seq(Nat) /\ ToSet(acted') = A \cup {x}
  <2>1. acted \in Seq(Nat) /\ acted' = Append(acted, x)
    BY DEF Plain, x
  <2>. QED  BY <1>1, <2>1, AppendedIs
<1>7. Before(A, {x}, simulated)
  <2>1. Before(A, Places(stack)[n], simulated)
    BY <1>2 DEF Placed, Ledger, Ordered
  <2>. QED  BY <1>1, <1>2, <2>1 DEF Before
<1>8. Plain'
  BY <1>3, <1>6 DEF Plain
<1>9. Placed'
  <2>1. Sorted(acted', simulated)
    <3>1. Sorted(acted, simulated)
      BY DEF Placed
    <3>. QED  BY <1>1, <1>6, <1>7, <3>1, AppendedSorted
  <2>2. Ledger(DOMAIN keyOf, P, A \cup {x}, gone \cup Y,
               Places(stack'), Waiting(stack'), Running(stack'), simulated)
    <3>. DEFINE D == DOMAIN keyOf
                C == Places(stack)
                C2 == Places(stack')
                W == Waiting(stack)
                R == Running(stack)
                Z == Contents(c)
    <3>1. /\ Ledger(D, P, A, gone, C, W, R, simulated) /\ W \subseteq Nat /\ R \subseteq Nat
          /\ n \in R /\ n \notin W /\ (\A i \in W \cup R : i <= n)
          /\ (\A i \in Nat : i \in W \cup R \/ C[i] = {}) /\ C[n] = {x} \cup Y \cup Z
          /\ x \notin Y /\ Y \cap Z = {} /\ Before({x}, Z, simulated)
          /\ C2[n] = Z /\ \A i \in Nat : i # n => C2[i] = C[i]
      BY <1>1, <1>2, <1>3, <1>5 DEF Placed
    <3>. HIDE DEF D, P, A, C, C2, W, R, Z
    <3>2. Ledger(D, P, A \cup {x}, gone \cup Y, C2, W, R, simulated)
      <4>1. Gives(C, C2, n, x, Y, simulated)
        BY <3>1 DEF Gives
      <4>. QED  BY <3>1, <4>1, Acting
    <3>. QED  BY <1>4, <3>2 DEF D, C2, W, R
  <2>3. \A i \in DOMAIN stack' : Framed(stack'[i], simulated)
    BY <1>3 DEF Placed
  <2>. QED  BY <1>6, <2>1, <2>2, <2>3 DEF Placed, Y
<1>10. Timely'
  <2>1. \A i \in Waiting(stack) : Places(stack')[i] \cap timed = {}
    BY <1>2, <1>3 DEF Timely
  <2>2. \A i \in DOMAIN stack' : ToSet(stack'[i].pending) \cap timed # {} => stack'[i].cur.timeout
    BY <1>2, <1>3 DEF Timely
  <2>. QED  BY <1>4, <2>1, <2>2 DEF Timely
<1>. QED  BY <1>8, <1>9, <1>10

LEMMA ReplayKeeps ==
  ASSUME IInv, Replay  PROVE IInv'
<1>. DEFINE rs == Top.replays
            c == [Top EXCEPT !.pc = "replay", !.replays = Tail(@)]
<1>1. /\ stack # <<>> /\ Top.pc \in {"next", "replay"} /\ rs # <<>>
      /\ acted' = Append(acted, Last(Head(rs))) /\ gone' = gone \cup ToSet(Front(Head(rs)))
      /\ Become(c)
      /\ UNCHANGED <<focus, pending, deferred, told, blurred, keyOf, simulated, timed>>
  BY DEF Replay, Pc, Between, input, typing
<1>2. Plain /\ Placed /\ Timely /\ Telling
  BY DEF IInv
<1>3. Framed(Top, simulated) /\ Top \in Frames
  BY <1>1, <1>2, AtTop
<1>4. rs \in Seq(Seq(Nat)) /\ Divided(rs, Top.pending, simulated) /\ Divided(rs, Top.taken, simulated)
  BY <1>3 DEF Framed, Frames
<1>. HIDE DEF rs
<1>5. /\ Head(rs) \in Seq(Nat) /\ Head(rs) # <<>> /\ Sorted(Head(rs), simulated)
      /\ Tail(rs) \in Seq(Seq(Nat)) /\ InReplays(rs) = ToSet(Head(rs)) \cup InReplays(Tail(rs))
      /\ Divided(Tail(rs), Top.pending, simulated) /\ Divided(Tail(rs), Top.taken, simulated)
      /\ Before(ToSet(Head(rs)), InReplays(Tail(rs)) \cup ToSet(Top.pending), simulated)
      /\ Before(ToSet(Head(rs)), InReplays(Tail(rs)) \cup ToSet(Top.taken), simulated)
  BY <1>1, <1>4, HeadParts
<1>6. /\ c \in Frames /\ c.pc = "replay" /\ c.replays = Tail(rs) /\ c.pending = Top.pending
      /\ c.taken = Top.taken /\ c.cur = Top.cur
  BY <1>3, <1>5 DEF Frames, Pcs, rs
<1>. HIDE DEF c
<1>7. Framed(c, simulated)
  BY <1>1, <1>3, <1>5, <1>6 DEF Framed
<1>8. Contents(c) = InReplays(Tail(rs)) \cup ToSet(Top.pending) \cup ToSet(Top.taken)
  BY <1>6 DEF Contents
<1>9. Contents(Top) = InReplays(rs) \cup ToSet(Top.pending) \cup ToSet(Top.taken)
  BY <1>1 DEF Contents, rs
<1>10. Contents(Top) = ToSet(Head(rs)) \cup Contents(c) /\ Before(ToSet(Head(rs)), Contents(c), simulated)
  BY <1>5, <1>8, <1>9 DEF Before
<1>11. Plain' /\ Placed' /\ Timely'
  <2>. DEFINE seg == Head(rs)
  <2>1. /\ seg \in Seq(Nat) /\ seg # <<>> /\ Sorted(seg, simulated)
        /\ Contents(Top) = ToSet(seg) \cup Contents(c) /\ Before(ToSet(seg), Contents(c), simulated)
        /\ acted' = Append(acted, Last(seg)) /\ gone' = gone \cup ToSet(Front(seg))
        /\ Top.pc # "intercept" /\ c.pc # "intercept"
    BY <1>1, <1>5, <1>6, <1>10
  <2>. HIDE DEF seg
  <2>. QED  BY <1>1, <1>2, <1>6, <1>7, <2>1, ActKeeps
<1>12. Telling'
  <2>1. /\ DOMAIN stack' = DOMAIN stack /\ stack'[Len(stack)] = c
        /\ \A i \in DOMAIN stack : i # Len(stack) => stack'[i] = stack[i]
    BY <1>1, <1>2, <1>6, TurnIs
  <2>2. Tells(stack[Len(stack)]) => Tells(c)
    BY <1>6 DEF Tells, Top
  <2>. QED  BY <1>1, <1>2, <2>1, <2>2 DEF Telling, ActiveKeys
<1>. QED  BY <1>11, <1>12 DEF IInv

LEMMA TakenKeeps ==
  ASSUME IInv, Act  PROVE IInv'
<1>. DEFINE seg == Top.taken
            c == [Top EXCEPT !.pc = "act"]
<1>1. /\ stack # <<>> /\ Top.pc \in {"next", "replay"} /\ Top.replays = <<>> /\ seg # <<>>
      /\ acted' = Append(acted, Last(seg)) /\ gone' = gone \cup ToSet(Front(seg))
      /\ Become(c)
      /\ UNCHANGED <<focus, pending, deferred, told, blurred, keyOf, simulated, timed>>
  BY DEF Act, Replayed, Pc, Between, input, typing
<1>2. Plain /\ Placed /\ Timely /\ Telling
  BY DEF IInv
<1>3. Framed(Top, simulated) /\ Top \in Frames
  BY <1>1, <1>2, AtTop
<1>4. seg \in Seq(Nat) /\ Sorted(seg, simulated) /\ Top.pending = <<>>
  BY <1>1, <1>3 DEF Framed, Frames, Divided
<1>5. /\ c \in Frames /\ c.pc = "act" /\ c.replays = <<>> /\ c.pending = <<>>
      /\ c.taken = seg /\ c.cur = Top.cur
  BY <1>1, <1>3, <1>4 DEF Frames, Pcs
<1>6. Framed(c, simulated)
  BY <1>1, <1>3, <1>4, <1>5 DEF Framed
<1>. HIDE DEF c
<1>7. DOMAIN <<>> = {} /\ InReplays(<<>>) = {} /\ ToSet(<<>>) = {}
  BY DEF InReplays, ToSet
<1>8. Contents(c) = {} /\ Contents(Top) = ToSet(seg)
  BY <1>1, <1>4, <1>5, <1>7 DEF Contents
<1>9. Before(ToSet(seg), {}, simulated)
  BY DEF Before
<1>10. Plain' /\ Placed' /\ Timely'
  <2>1. /\ Contents(Top) = ToSet(seg) \cup Contents(c) /\ Before(ToSet(seg), Contents(c), simulated)
        /\ c.pending = Top.pending /\ Top.pc # "intercept" /\ c.pc # "intercept"
    BY <1>1, <1>4, <1>5, <1>8, <1>9
  <2>. HIDE DEF seg
  <2>. QED  BY <1>1, <1>2, <1>4, <1>5, <1>6, <2>1, ActKeeps
<1>11. Telling'
  <2>1. /\ DOMAIN stack' = DOMAIN stack /\ stack'[Len(stack)] = c /\ Len(stack) \in DOMAIN stack
    BY <1>1, <1>2, <1>5, TurnIs
  <2>2. Tells(c)
    BY <1>1, <1>5 DEF Tells
  <2>. QED  BY <2>1, <2>2 DEF Telling
<1>. QED  BY <1>10, <1>11 DEF IInv

(* The end of a dispatch that holds nothing, told or with nothing to tell. *)
LEMMA EndKeeps ==
  ASSUME Plain, Placed, Timely, stack # <<>>, Contents(Top) = {}, Pop, blurred' \in BOOLEAN,
         UNCHANGED <<focus, pending, deferred, keyOf, simulated, acted, timed, gone>>
  PROVE  Plain' /\ Placed' /\ Timely'
<1>. DEFINE n == Len(stack)
<1>1. /\ stack' \in Seq(Frames)
      /\ \A i \in DOMAIN stack' : i \in DOMAIN stack /\ stack'[i] = stack[i] /\ i # n
      /\ Places(stack')[n] = {}
      /\ \A i \in Nat : i # n => Places(stack')[i] = Places(stack)[i]
      /\ Waiting(stack') = Waiting(stack) \ {n}
      /\ Running(stack') = Running(stack) \ {n}
      /\ Waiting(stack) \subseteq Nat
  BY PopIs
<1>2. Places(stack)[n] = {}
  BY AtTop
<1>. HIDE DEF n
<1>3. Plain'
  BY <1>1 DEF Plain
<1>4. Placed'
  <2>1. Ledger(DOMAIN keyOf, ToSet(pending.keys), ToSet(acted), gone,
               Places(stack'), Waiting(stack'), Running(stack'), simulated)
    <3>. DEFINE D == DOMAIN keyOf
                P == ToSet(pending.keys)
                A == ToSet(acted)
                C == Places(stack)
                C2 == Places(stack')
                W == Waiting(stack)
                W2 == Waiting(stack')
                R == Running(stack)
                R2 == Running(stack')
    <3>1. /\ Ledger(D, P, A, gone, C, W, R, simulated) /\ W \subseteq Nat /\ R2 \subseteq R /\ W2 \subseteq W
          /\ \A i \in Nat : C2[i] = C[i]
      BY <1>1, <1>2 DEF Placed
    <3>. HIDE DEF D, P, A, C, C2, W, W2, R, R2
    <3>2. Ledger(D, P, A, gone, C2, W2, R2, simulated)
      BY <3>1, Ended
    <3>. QED  BY <3>2 DEF D, P, A, C2, W2, R2
  <2>. QED  BY <1>1, <2>1 DEF Placed
<1>5. Timely'
  BY <1>1 DEF Timely
<1>. QED  BY <1>3, <1>4, <1>5

LEMMA EndActKeeps ==
  ASSUME IInv, EndAct  PROVE IInv'
<1>1. /\ stack # <<>> /\ Top.pc = "act" /\ Pop /\ Tell(pending)
      /\ UNCHANGED <<focus, pending, deferred, keyOf, simulated, acted, timed, gone>>
  BY DEF EndAct, Pc, Between, input, history, typing
<1>2. Plain /\ Placed /\ Timely
  BY DEF IInv
<1>3. Contents(Top) = {}
  <2>1. Framed(Top, simulated)
    BY <1>1, <1>2, AtTop
  <2>2. DOMAIN <<>> = {} /\ InReplays(<<>>) = {} /\ ToSet(<<>>) = {}
    BY DEF InReplays, ToSet
  <2>. QED  BY <1>1, <2>1, <2>2 DEF Framed, Contents
<1>4. blurred' \in BOOLEAN /\ told' = ActiveKeys(pending, focus)
  BY <1>1 DEF Tell
<1>5. Plain' /\ Placed' /\ Timely'
  BY <1>1, <1>2, <1>3, <1>4, EndKeeps
<1>6. Telling'
  BY <1>1, <1>4 DEF Telling, ActiveKeys
<1>. QED  BY <1>5, <1>6 DEF IInv

LEMMA EndTimeOutKeeps ==
  ASSUME IInv, EndTimeOut  PROVE IInv'
<1>1. /\ stack # <<>> /\ Top.pc \in {"next", "replay"} /\ Pop
      /\ Top.replays = <<>> /\ Top.pending = <<>> /\ Top.taken = <<>>
      /\ UNCHANGED <<focus, pending, deferred, told, blurred, keyOf, simulated, acted, timed, gone>>
  BY DEF EndTimeOut, Replayed, Pc, Between, input, history, typing
<1>2. Plain /\ Placed /\ Timely /\ Telling /\ blurred' \in BOOLEAN
  BY <1>1 DEF IInv, Plain
<1>3. Contents(Top) = {}
  <2>1. DOMAIN <<>> = {} /\ InReplays(<<>>) = {} /\ ToSet(<<>>) = {}
    BY DEF InReplays, ToSet
  <2>. QED  BY <1>1, <2>1 DEF Contents
<1>4. Plain' /\ Placed' /\ Timely'
  BY <1>1, <1>2, <1>3, EndKeeps
<1>5. Telling'
  <2>1. /\ \A i \in DOMAIN stack' : i \in DOMAIN stack /\ stack'[i] = stack[i]
        /\ \A i \in DOMAIN stack : i # Len(stack) => i \in DOMAIN stack'
    BY <1>1, <1>2, PopIs
  <2>2. ~Tells(stack[Len(stack)])
    BY <1>1 DEF Tells, Top
  <2>. QED  BY <1>1, <1>2, <2>1, <2>2 DEF Telling, ActiveKeys
<1>. QED  BY <1>4, <1>5 DEF IInv

LEMMA HoldKeeps ==
  ASSUME IInv, NEW text \in BOOLEAN, Hold(text)  PROVE IInv'
<1>. DEFINE n == Len(stack)
            K == ToSet(Top.pending)
<1>1. /\ stack # <<>> /\ Top.pc \in {"next", "replay"} /\ Pop /\ Top.replays = <<>> /\ Top.pending # <<>>
      /\ pending' = [keys |-> Top.pending, focus |-> focus,
                     timeout |-> Top.cur.timeout \/ Top.bound \/ text]
      /\ timed' = (IF pending'.timeout THEN timed \cup ToSet(pending'.keys) ELSE timed)
      /\ Tell(pending')
      /\ UNCHANGED <<focus, deferred, keyOf, simulated, acted, gone>>
  BY DEF Hold, Replayed, Pc, Between, typing
<1>2. Plain /\ Placed /\ Timely
  BY DEF IInv
<1>3. /\ n \in DOMAIN stack /\ Top = stack[n] /\ Top \in Frames /\ Framed(Top, simulated)
      /\ Places(stack)[n] = Contents(Top) /\ n \in Running(stack) /\ n \notin Waiting(stack)
  BY <1>1, <1>2, AtTop
<1>4. Contents(Top) = K /\ Sorted(Top.pending, simulated) /\ Top.pending \in Seq(Nat)
  <2>1. DOMAIN <<>> = {} /\ InReplays(<<>>) = {} /\ ToSet(<<>>) = {}
    BY DEF InReplays, ToSet
  <2>2. Top.taken = <<>>
    BY <1>1, <1>3 DEF Framed
  <2>3. Sorted(Top.pending, simulated)
    BY <1>3 DEF Framed, Divided
  <2>4. Top.pending \in Seq(Nat)
    BY <1>3 DEF Frames
  <2>. QED  BY <1>1, <2>1, <2>2, <2>3, <2>4 DEF Contents
<1>5. pending'.keys = Top.pending /\ pending' \in Pendings
      /\ (Top.cur.timeout => pending'.timeout)
  <2>1. Top.cur.timeout \in BOOLEAN /\ Top.bound \in BOOLEAN
    BY <1>3 DEF Frames, Pendings
  <2>. QED  BY <1>1, <1>2, <1>4, <2>1 DEF Pendings, Plain
<1>6. /\ stack' \in Seq(Frames)
      /\ \A i \in DOMAIN stack' : i \in DOMAIN stack /\ stack'[i] = stack[i] /\ i # n
      /\ Places(stack')[n] = {}
      /\ \A i \in Nat : i # n => Places(stack')[i] = Places(stack)[i]
      /\ Waiting(stack') = Waiting(stack) \ {n}
      /\ Running(stack') = Running(stack) \ {n}
      /\ Waiting(stack) \subseteq Nat /\ Running(stack) \subseteq Nat
      /\ \A i \in Waiting(stack) \cup Running(stack) : i <= n
  BY <1>1, <1>2, PopIs
<1>. HIDE DEF n
<1>7. /\ K \subseteq DOMAIN keyOf
      /\ \A i \in Nat : i # n => Places(stack)[i] \cap K = {}
  <2>1. n \in Nat
    BY <1>3, <1>6
  <2>. QED  BY <1>2, <1>3, <1>4, <2>1 DEF Placed, Ledger, Kept, Apart
<1>8. Plain'
  BY <1>1, <1>2, <1>5, <1>6, <1>7 DEF Plain, Tell
<1>9. Placed'
  <2>1. Ledger(DOMAIN keyOf, K, ToSet(acted), gone,
               Places(stack'), Waiting(stack'), Running(stack'), simulated)
    <3>. DEFINE D == DOMAIN keyOf
                P == ToSet(pending.keys)
                A == ToSet(acted)
                C == Places(stack)
                C2 == Places(stack')
                W == Waiting(stack)
                R == Running(stack)
    <3>1. /\ Ledger(D, P, A, gone, C, W, R, simulated) /\ W \subseteq Nat /\ R \subseteq Nat
          /\ n \in R /\ (\A i \in W \cup R : i <= n)
          /\ C2[n] = {} /\ \A i \in Nat : i # n => C2[i] = C[i]
      BY <1>2, <1>3, <1>6 DEF Placed
    <3>2. K = C[n] /\ Waiting(stack') = W /\ Running(stack') = R \ {n}
      BY <1>3, <1>4, <1>6
    <3>. HIDE DEF D, P, A, C, C2, W, R
    <3>3. Ledger(D, C[n], A, gone, C2, W, R \ {n}, simulated)
      BY <3>1, HeldBack
    <3>4. Ledger(D, K, A, gone, C2, Waiting(stack'), Running(stack'), simulated)
      BY <3>2, <3>3
    <3>. QED  BY <3>4 DEF D, A, C2
  <2>. QED  BY <1>1, <1>2, <1>4, <1>5, <1>6, <2>1 DEF Placed
<1>10. Timely'
  <2>1. timed' \subseteq timed \cup K
    BY <1>1, <1>5
  <2>2. ToSet(pending'.keys) \cap timed' # {} => pending'.timeout
    <3>1. K \cap timed # {} => Top.cur.timeout
      BY <1>2, <1>3 DEF Timely
    <3>. QED  BY <1>1, <1>5, <3>1
  <2>3. \A i \in Waiting(stack') : Places(stack')[i] \cap timed' = {}
    BY <1>2, <1>6, <1>7, <2>1 DEF Timely
  <2>4. ASSUME NEW i \in DOMAIN stack'  PROVE ToSet(stack'[i].pending) \cap timed' # {} => stack'[i].cur.timeout
    <3>1. i \in DOMAIN stack /\ stack'[i] = stack[i] /\ i # n /\ i \in Nat
      BY <1>2, <1>6 DEF Plain
    <3>2. ToSet(stack[i].pending) \cap K = {}
      <4>1. Places(stack)[i] = Contents(stack[i]) /\ Framed(stack[i], simulated)
        BY <1>2, <3>1 DEF Places, Placed
      <4>2. ToSet(<<>>) = {}
        BY DEF ToSet
      <4>3. ToSet(stack[i].pending) \subseteq Contents(stack[i])
        BY <4>1, <4>2 DEF Contents, Framed
      <4>. QED  BY <1>7, <3>1, <4>1, <4>3
    <3>3. ToSet(stack[i].pending) \cap timed # {} => stack[i].cur.timeout
      BY <1>2, <3>1 DEF Timely
    <3>. QED  BY <2>1, <3>1, <3>2, <3>3
  <2>. QED  BY <2>2, <2>3, <2>4 DEF Timely
<1>11. Telling'
  BY <1>1 DEF Tell, Telling, ActiveKeys
<1>. QED  BY <1>8, <1>9, <1>10, <1>11 DEF IInv

LEMMA TimeOutKeeps ==
  ASSUME IInv, TimeOut  PROVE IInv'
<1>1. /\ stack = <<>> /\ pending' = NoPending
      /\ UNCHANGED <<focus, deferred, keyOf, simulated, acted, timed>>
  BY DEF TimeOut, Quiet, Between, typing
<1>2. Plain /\ Placed /\ Timely /\ Telling
  BY DEF IInv
<1>. DEFINE rs == Flush(keymap, pending.keys, keyOf, focus)
            c == Replaying(rs)
            P == ToSet(pending.keys)
<1>3. CASE pending.focus = focus
  <2>1. Tell(NoPending) /\ stack' = <<c>> /\ gone' = gone
    BY <1>3 DEF TimeOut
  <2>2. pending.keys \in Seq(Nat) /\ Sorted(pending.keys, simulated)
    BY <1>2 DEF Plain, Pendings, Placed
  <2>3. PartsOf(rs, <<>>, P, simulated)
    <3>. DEFINE ids == pending.keys
    <3>1. ids \in Seq(Nat) /\ Sorted(ids, simulated)
      BY <2>2
    <3>. HIDE DEF ids
    <3>2. PartsOf(Flush(keymap, ids, keyOf, focus), <<>>, ToSet(ids), simulated)
      BY <3>1, FlushParts
    <3>. QED  BY <3>2 DEF ids
  <2>. HIDE DEF rs
  <2>4. /\ NoPending \in Pendings /\ NoPending.keys = <<>> /\ ToSet(<<>>) = {} /\ Sorted(<<>>, simulated)
        /\ <<>> \in Seq(Nat)
    BY DEF NoPending, Pendings, ToSet, Sorted
  <2>6. rs \in Seq(Seq(Nat)) /\ Divided(rs, <<>>, simulated) /\ InReplays(rs) = P
    BY <2>3, <2>4 DEF PartsOf
  <2>7. c \in Frames /\ c.pc = "next" /\ c.replays = rs /\ c.pending = <<>> /\ c.taken = <<>>
    <3>. DEFINE d == Dispatch(0, NoFocus)
    <3>1. d \in Frames /\ d.pending = <<>> /\ d.taken = <<>>
      <4>1. <<>> \in Seq(Seq(Nat))
        OBVIOUS
      <4>. QED  BY <2>4, <4>1 DEF Dispatch, Frames, Pcs
    <3>2. c = [d EXCEPT !.pc = "next", !.replays = rs]
      BY DEF Replaying
    <3>. HIDE DEF d, c
    <3>. QED  BY <2>6, <3>1, <3>2 DEF Frames, Pcs
  <2>. HIDE DEF c
  <2>8. Framed(c, simulated) /\ Contents(c) = P /\ c.pc # "intercept" /\ ToSet(c.pending) = {}
    BY <2>4, <2>6, <2>7 DEF Framed, Contents
  <2>9. stack' \in Seq(Frames) /\ DOMAIN stack' = {1} /\ stack'[1] = c
    BY <2>1, <2>7
  <2>10. Waiting(stack') = {} /\ Running(stack') = {1}
    BY <2>8, <2>9 DEF Waiting, Running
  <2>11. Places(stack')[1] = P /\ \A i \in Nat : i # 1 => Places(stack')[i] = {}
    BY <2>8, <2>9 DEF Places
  <2>12. DOMAIN stack = {} /\ Waiting(stack) = {} /\ Running(stack) = {}
    BY <1>1 DEF Waiting, Running
  <2>13. \A i \in Nat : Places(stack)[i] = {}
    BY <2>12 DEF Places
  <2>14. Plain'
    BY <1>1, <1>2, <2>1, <2>4, <2>9 DEF Plain, Tell
  <2>15. Placed'
    <3>1. Ledger(DOMAIN keyOf, {}, ToSet(acted), gone, Places(stack'), {}, {1}, simulated)
      <4>. DEFINE D == DOMAIN keyOf
                  A == ToSet(acted)
                  C == Places(stack)
                  C2 == Places(stack')
      <4>1. /\ Ledger(D, P, A, gone, C, {}, {}, simulated) /\ (\A i \in Nat : C[i] = {})
            /\ C2[1] = P /\ \A i \in Nat : i # 1 => C2[i] = {}
        BY <1>2, <2>11, <2>12, <2>13 DEF Placed
      <4>. HIDE DEF D, P, A, C, C2
      <4>2. Ledger(D, {}, A, gone, C2, {}, {1}, simulated)
        BY <4>1, TimedOut
      <4>. QED  BY <4>2 DEF D, A, C2
    <3>. QED  BY <1>1, <1>2, <2>1, <2>4, <2>8, <2>9, <2>10, <3>1 DEF Placed
  <2>16. Timely'
    BY <1>1, <2>4, <2>8, <2>9, <2>10 DEF Timely
  <2>17. Telling'
    BY <1>1, <2>1, <2>4 DEF Tell, Telling, ActiveKeys
  <2>. QED  BY <2>14, <2>15, <2>16, <2>17 DEF IInv
<1>4. CASE pending.focus # focus
  <2>1. gone' = gone \cup P /\ UNCHANGED <<stack, told, blurred>>
    BY <1>4 DEF TimeOut
  <2>2. Placed' /\ Timely' /\ pending' \in Pendings
    BY <1>1, <1>2, <2>1, ForgetKeeps
  <2>3. Plain'
    BY <1>1, <1>2, <2>1, <2>2 DEF Plain
  <2>4. Telling'
    <3>1. DOMAIN stack = {}
      BY <1>1
    <3>2. ActiveKeys(pending, focus) = <<>> /\ ActiveKeys(NoPending, focus) = <<>>
      BY <1>4 DEF ActiveKeys, NoPending
    <3>. QED  BY <1>1, <1>2, <2>1, <3>1, <3>2 DEF Telling
  <2>. QED  BY <2>2, <2>3, <2>4 DEF IInv
<1>. QED  BY <1>3, <1>4

LEMMA NextKeeps == IInv /\ [Next]_vars => IInv'
<1>. SUFFICES ASSUME IInv, [Next]_vars  PROVE IInv'
  OBVIOUS
<1>1. CASE \E f \in Focuses : Focus(f)
  BY <1>1, FocusKeeps
<1>2. CASE Blur
  BY <1>2, BlurKeeps
<1>3. CASE ClearKeyBindings
  BY <1>3, ElseKeeps DEF ClearKeyBindings
<1>4. CASE ClearPendingKeystrokes
  BY <1>4, ClearPendingKeystrokesKeeps
<1>5. CASE \E b \in BindingPool : BindKeys(b)
  BY <1>5, ElseKeeps DEF BindKeys
<1>6. CASE \E k \in Keys : KeyDown(k)
  BY <1>6, KeyDownKeeps
<1>7. CASE Intercept
  BY <1>7, InterceptKeeps
<1>8. CASE Match
  BY <1>8, MatchKeeps
<1>9. CASE Replay
  BY <1>9, ReplayKeeps
<1>10. CASE Act
  BY <1>10, TakenKeeps
<1>11. CASE EndAct
  BY <1>11, EndActKeeps
<1>12. CASE \E text \in BOOLEAN : Hold(text)
  BY <1>12, HoldKeeps
<1>13. CASE TimeOut
  BY <1>13, TimeOutKeeps
<1>14. CASE EndTimeOut
  BY <1>14, EndTimeOutKeeps
<1>15. CASE TellDeferred
  BY <1>15, TellDeferredKeeps
<1>16. CASE UNCHANGED vars
  BY <1>16, ElseKeeps DEF vars, input
<1>. QED
  BY <1>1, <1>2, <1>3, <1>4, <1>5, <1>6, <1>7, <1>8, <1>9, <1>10, <1>11, <1>12, <1>13, <1>14, <1>15, <1>16
     DEF Next

LEMMA Inductive == Spec => []IInv
<1>1. Init => IInv
  BY Initially
<1>2. IInv /\ [Next]_vars => IInv'
  BY NextKeeps
<1>. QED  BY <1>1, <1>2, PTL DEF Spec

-----------------------------------------------------------------------------
(* The types *)

(* The keymap is a sequence; what pends and what acted has been typed.     *)
Bound == BindingPool \cup UNION {ToSet(map) : map \in Keymaps}
Typed == keymap \in Seq(Bound) /\ told \in Seq(1..Len(keyOf)) /\ fuel \in 0..MaxOps /\ Len(keyOf) <= MaxKeys

LEMMA TypedAtFirst == Init => Typed
<1>. SUFFICES ASSUME Init  PROVE Typed
  OBVIOUS
<1>1. keymap \in Seq(Bound)
  <2>1. keymap \in Keymaps /\ keymap \in Seq(ToSet(keymap))
    BY KeymapsAssumption DEF Init
  <2>2. ToSet(keymap) \subseteq Bound
    BY <2>1 DEF Bound
  <2>. HIDE DEF Bound
  <2>. QED  BY <2>1, <2>2
<1>2. told \in Seq(1..Len(keyOf)) /\ fuel \in 0..MaxOps /\ Len(keyOf) <= MaxKeys
  <2>1. told = <<>> /\ keyOf = <<>> /\ fuel = MaxOps /\ Len(<<>>) = 0 /\ MaxOps \in Nat /\ MaxKeys \in Nat
    BY BoundsAssumption DEF Init
  <2>. QED  BY <2>1
<1>. QED  BY <1>1, <1>2 DEF Typed

(* A sequence of what has been typed is one after more has.                *)
LEMMA WrittenIs ==
  ASSUME NEW s \in Seq(Nat), NEW n \in Nat, ToSet(s) \subseteq 1..n
  PROVE  s \in Seq(1..n)
<1>1. s \in [1..Len(s) -> Nat] /\ Len(s) \in Nat
  OBVIOUS
<1>2. s \in [1..Len(s) -> 1..n]
  BY <1>1 DEF ToSet
<1>. QED  BY <1>1, <1>2, SeqDef

LEMMA TypedKeeps ==
  ASSUME Typed, Plain, Plain', Placed', [Next]_vars
  PROVE  Typed'
<1>1. keymap' \in Seq(Bound)
  <2>1. keymap' = keymap \/ keymap' = <<>> \/ \E b \in BindingPool : keymap' = Append(keymap, b)
    BY DEF Next, vars, input, Focus, Blur, BindKeys, ClearKeyBindings, ClearPendingKeystrokes, TellDeferred,
       KeyDown, Intercept, Match, Replay, Act, EndAct, Hold, TimeOut, EndTimeOut
  <2>2. BindingPool \subseteq Bound /\ keymap \in Seq(Bound)
    BY DEF Typed, Bound
  <2>. HIDE DEF Bound
  <2>3. \A b \in BindingPool : Append(keymap, b) \in Seq(Bound)
    BY <2>2, AppendProperties
  <2>. QED  BY <2>1, <2>2, <2>3, EmptySeq
<1>2. fuel' \in 0..MaxOps
  <2>1. fuel' = fuel \/ (fuel > 0 /\ fuel' = fuel - 1)
    BY DEF Next, vars, Operation, Focus, Blur, BindKeys, ClearKeyBindings, ClearPendingKeystrokes, TellDeferred,
       KeyDown, Intercept, Match, Replay, Act, EndAct, Hold, TimeOut, EndTimeOut
  <2>. QED  BY <2>1, BoundsAssumption DEF Typed
<1>3. keyOf' = keyOf \/ \E k \in Keys : Len(keyOf) < MaxKeys /\ keyOf' = Append(keyOf, k)
  BY DEF Next, vars, history, typing, Focus, Blur, BindKeys, ClearKeyBindings, ClearPendingKeystrokes, TellDeferred,
     KeyDown, Intercept, Match, Replay, Act, EndAct, Hold, TimeOut, EndTimeOut
<1>4. /\ Len(keyOf) \in Nat /\ Len(keyOf') \in Nat /\ Len(keyOf) <= Len(keyOf')
      /\ Len(keyOf') = Len(keyOf) \/ (Len(keyOf) < MaxKeys /\ Len(keyOf') = Len(keyOf) + 1)
  BY <1>3 DEF Plain
<1>5. Len(keyOf') <= MaxKeys
  BY <1>4, BoundsAssumption DEF Typed
<1>6. told' \in Seq(1..Len(keyOf'))
  <2>1. told' = told \/ told' = pending'.keys \/ told' = <<>>
    BY DEF Next, vars, history, Tell, ActiveKeys, NoPending, input, Focus, Blur, BindKeys, ClearKeyBindings,
       ClearPendingKeystrokes, TellDeferred, KeyDown, Intercept, Match, Replay, Act, EndAct, Hold, TimeOut, EndTimeOut
  <2>2. told \in Seq(1..Len(keyOf'))
    <3>1. 1..Len(keyOf) \subseteq 1..Len(keyOf')
      BY <1>4
    <3>. QED  BY <3>1, SeqMonotonic DEF Typed
  <2>3. pending'.keys \in Seq(1..Len(keyOf'))
    <3>1. pending'.keys \in Seq(Nat) /\ DOMAIN keyOf' = 1..Len(keyOf')
      BY DEF Plain, Pendings
    <3>2. ToSet(pending'.keys) \subseteq 1..Len(keyOf')
      BY <3>1 DEF Placed, Ledger, Kept
    <3>. DEFINE s == pending'.keys
                n == Len(keyOf')
    <3>3. s \in Seq(Nat) /\ n \in Nat /\ ToSet(s) \subseteq 1..n
      BY <1>4, <3>1, <3>2
    <3>. HIDE DEF s, n
    <3>4. s \in Seq(1..n)
      BY <3>3, WrittenIs
    <3>. QED  BY <3>4 DEF s, n
  <2>. QED  BY <2>1, <2>2, <2>3, EmptySeq
<1>. QED  BY <1>1, <1>2, <1>5, <1>6 DEF Typed

-----------------------------------------------------------------------------
(* The theorems *)

(* The window's input is of its types: in particular nothing pends, has    *)
(* acted or is gone that was not typed.                                    *)
THEOREM TypeCorrect == Spec => []TypeOK
<1>1. IInv /\ Typed => TypeOK
  <2>. SUFFICES ASSUME IInv, Typed  PROVE TypeOK
    OBVIOUS
  <2>. USE DEF IInv, Plain, Typed
  <2>1. \A i \in DOMAIN keymap : keymap[i] \in BindingPool \cup UNION {ToSet(map) : map \in Keymaps}
    <3>. HIDE DEF IInv, Plain
    <3>1. \A i \in DOMAIN keymap : keymap[i] \in Bound
      OBVIOUS
    <3>. QED  BY <3>1 DEF Bound
  <2>2. DOMAIN keyOf = 1..Len(keyOf) /\ Len(keyOf) \in Nat
    OBVIOUS
  <2>3. ToSet(pending.keys) \cup ToSet(acted) \cup gone \subseteq 1..Len(keyOf)
    BY <2>2 DEF Placed, Ledger, Kept
  <2>4. /\ pending.keys \in Seq(Nat) /\ pending.focus \in Focuses \cup {NoFocus}
        /\ pending.timeout \in BOOLEAN
    BY DEF Pendings
  <2>5. pending.keys \in Seq(1..Len(keyOf)) /\ acted \in Seq(1..Len(keyOf))
    BY <2>2, <2>3, <2>4, WrittenIs
  <2>. QED  BY <2>1, <2>2, <2>3, <2>4, <2>5 DEF TypeOK
<1>2. Init => IInv /\ Typed
  BY Initially, TypedAtFirst
<1>3. IInv /\ Typed /\ [Next]_vars => (IInv /\ Typed)'
  BY NextKeeps, TypedKeeps DEF IInv
<1>. QED  BY <1>1, <1>2, <1>3, PTL DEF Spec

(* What the user types acts in that order, at most once each, and is not   *)
(* lost in any nest of replays and dispatches out of them.                 *)
THEOREM KeysInOrder == Spec => []KeysActInOrder
<1>1. IInv => KeysActInOrder
  <2>. SUFFICES ASSUME IInv  PROVE KeysActInOrder
    OBVIOUS
  <2>. DEFINE P == ToSet(pending.keys)
              A == ToSet(acted)
  <2>1. Sorted(acted, simulated) /\ acted \in Seq(Nat)
    BY DEF IInv, Placed, Plain
  <2>2. Apart(P, A, gone, Places(stack)) /\ Kept(DOMAIN keyOf, P, A, gone, Places(stack), simulated)
    BY DEF IInv, Placed, Ledger
  <2>3. \A i, j \in DOMAIN acted :
          i < j /\ acted[i] \notin simulated /\ acted[j] \notin simulated => acted[i] < acted[j]
    BY <2>1 DEF Sorted
  <2>4. A \cap gone = {} /\ P \cap A = {}
    BY <2>2 DEF Apart
  <2>5. ASSUME Between, NEW n \in DOMAIN keyOf \ (simulated \cup gone)  PROVE (n \in A) # (n \in P)
    <3>1. DOMAIN stack = {}
      BY <2>5 DEF Between
    <3>2. \A i \in Nat : Places(stack)[i] = {}
      BY <3>1 DEF Places
    <3>. HIDE DEF P, A
    <3>3. n \in P \/ n \in A
      BY <2>2, <3>2 DEF Kept
    <3>. QED  BY <2>4, <3>3
  <2>. QED  BY <2>3, <2>4, <2>5 DEF KeysActInOrder
<1>. QED  BY <1>1, Inductive, PTL

(* Between updates the observers of pending input know what is pending,    *)
(* unless the window was blurred, which tells nobody.                      *)
THEOREM ObserversKnow == Spec => []ObserversUpToDate
<1>1. IInv => ObserversUpToDate
  <2>. SUFFICES ASSUME IInv, Quiet, ~blurred  PROVE told = ActiveKeys(pending, focus)
    BY DEF ObserversUpToDate
  <2>1. DOMAIN stack = {} /\ ~deferred
    BY DEF Quiet, Between
  <2>. QED  BY <2>1 DEF IInv, Telling
<1>. QED  BY <1>1, Inductive, PTL

(* Keystrokes that were held back with a timer have one as long as they    *)
(* pend, through the dispatches that add to them.                          *)
THEOREM TimersStand == Spec => []TimeoutsStand
<1>1. IInv => TimeoutsStand
  BY DEF IInv, Timely, TimeoutsStand
<1>. QED  BY <1>1, Inductive, PTL
=============================================================================
