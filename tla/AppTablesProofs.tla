--------------------------- MODULE AppTablesProofs ---------------------------
(***************************************************************************)
(* Theorems about two tables of an App: SubscriberSet, for any keys, any   *)
(* number of subscribers and any depth of nested calls, and the counts of  *)
(* EntityMap, for any number of threads, entities and handles.             *)
(***************************************************************************)
EXTENDS SubscriberSet, EntityMap, FiniteSetTheorems, SequenceTheorems, WellFoundedInduction, TLAPS

(* The positions of retains in the stack. *)
Retains == {i \in DOMAIN calls : calls[i].op = "retain"}

(* A subscriber is only ever where its key says. *)
Filed ==
  /\ \A k \in Keys : \A s \in table.subs[k] : s \in Inserteds /\ key[s] = k
  /\ \A i \in Retains : \A s \in calls[i].kept : s \in Inserteds /\ key[s] = calls[i].key

(* No two of the retains in progress keep one subscriber, nor a retain one *)
(* that is in the table.                                                   *)
Apart ==
  /\ \A i, j \in Retains : \A s \in calls[i].kept : s \in calls[j].kept => i = j
  /\ \A i \in Retains : \A s \in calls[i].kept : s \notin table.subs[key[s]]

(* Nobody is lost. *)
Somewhere ==
  \A s \in Inserteds \ (dropped \cup expelled) :
    s \in table.subs[key[s]] \/ \E i \in Retains : s \in calls[i].kept

Entered ==
  \A k \in Keys :
    /\ table.entry[k] = "taken" => \E i \in Retains : calls[i].key = k
    /\ Present(table, k) <=> table.subs[k] # {}

IInv == TypeOK /\ Filed /\ Apart /\ Somewhere /\ Entered

-----------------------------------------------------------------------------
(* The least of a set of numbers: the least of its initial segments, by    *)
(* inclusion, belongs to the least number.                                 *)
LEMMA MinIsMember ==
  ASSUME NEW S \in SUBSET Subscribers, S # {}
  PROVE  Min(S) \in S
<1>. DEFINE Below(x) == {y \in S : y < x}
<1>1. IsFiniteSet(S)
  <2>1. MaxSubs \in Int
    BY BoundsAssumption
  <2>2. IsFiniteSet(Subscribers)
    BY <2>1, FS_Interval DEF Subscribers
  <2>. QED  BY <2>2, FS_Subset
<1>2. IsWellFoundedOn(StrictSubsetOrdering(S), SUBSET S)
  BY <1>1, FS_StrictSubsetOrderingWellFounded, FS_FiniteSubsetsOfFinite
<1>3. PICK B \in {Below(x) : x \in S} :
        \A C \in {Below(x) : x \in S} : ~ (<<C, B>> \in StrictSubsetOrdering(S))
  <2>. DEFINE T == {Below(x) : x \in S}
  <2>1. T \subseteq SUBSET S /\ T # {}
    OBVIOUS
  <2>. HIDE DEF T
  <2>2. \E B \in T : \A C \in T : ~ (<<C, B>> \in StrictSubsetOrdering(S))
    BY <1>2, <2>1, WFMin
  <2>. QED  BY <2>2 DEF T
<1>4. PICK x \in S : B = Below(x)
  BY <1>3
<1>5. \A y \in S : x <= y
  <2>1. SUFFICES ASSUME NEW y \in S, y < x  PROVE FALSE
    BY BoundsAssumption DEF Subscribers
  <2>2. Below(y) \subseteq Below(x) /\ Below(y) # Below(x)
    <3>1. S \subseteq Int
      BY DEF Subscribers
    <3>2. \A z \in S : z < y => z < x
      BY <2>1, <3>1
    <3>3. y \in Below(x) /\ y \notin Below(y)
      BY <2>1, <3>1
    <3>. QED  BY <3>2, <3>3
  <2>3. Below(y) \subseteq S /\ Below(x) \subseteq S
    OBVIOUS
  <2>4. Below(y) \in {Below(z) : z \in S}
    OBVIOUS
  <2>5. <<Below(y), B>> \in StrictSubsetOrdering(S)
    <3>. HIDE DEF Below
    <3>. QED  BY <1>4, <2>2, <2>3 DEF StrictSubsetOrdering
  <2>. QED  BY <1>3, <2>4, <2>5
<1>. QED  BY <1>5 DEF Min

LEMMA TopIsCall ==
  ASSUME TypeOK, calls # <<>>
  PROVE  /\ Len(calls) \in DOMAIN calls /\ Len(calls) \in Nat /\ Top = calls[Len(calls)]
         /\ Top \in Calls
BY DEF TypeOK, Top

(* The stack after each of the things a step does to it. *)
LEMMA Replaced ==
  ASSUME TypeOK, calls # <<>>, NEW call \in Calls, call.op = Top.op, Replace(call)
  PROVE  /\ calls' \in Seq(Calls) /\ Len(calls') = Len(calls)
         /\ Retains' = Retains
         /\ calls'[Len(calls)] = call
         /\ \A i \in Retains : i # Len(calls) => calls'[i] = calls[i]
BY TopIsCall DEF TypeOK, Replace, Retains, Top

LEMMA Pushed ==
  ASSUME TypeOK, NEW call \in Calls, calls' = Append(calls, call)
  PROVE  /\ calls' \in Seq(Calls) /\ Len(calls') = Len(calls) + 1
         /\ Len(calls) + 1 \notin Retains
         /\ Retains' = Retains \cup (IF call.op = "retain" THEN {Len(calls) + 1} ELSE {})
         /\ calls'[Len(calls) + 1] = call
         /\ \A i \in Retains : calls'[i] = calls[i]
<1>1. DOMAIN calls' = DOMAIN calls \cup {Len(calls) + 1} /\ Len(calls) \in Nat
  BY DEF TypeOK
<1>. QED  BY <1>1 DEF TypeOK, Retains

LEMMA Popped ==
  ASSUME TypeOK, calls # <<>>, Pop
  PROVE  /\ calls' \in Seq(Calls) /\ Len(calls') = Len(calls) - 1
         /\ Retains' = Retains \ {Len(calls)}
         /\ \A i \in Retains' : calls'[i] = calls[i]
<1>1. /\ calls' \in Seq(Calls) /\ Len(calls') = Len(calls) - 1
      /\ DOMAIN calls' = 1 .. Len(calls) - 1 /\ DOMAIN calls = 1 .. Len(calls)
      /\ \A i \in 1 .. Len(calls) - 1 : calls'[i] = calls[i]
  <2>1. Len(calls) \in Nat /\ Len(calls) > 0 /\ calls \in Seq(Calls)
    BY DEF TypeOK
  <2>2. \A i \in 1 .. Len(calls) - 1 : calls[i] \in Calls
    BY <2>1
  <2>. DEFINE n == Len(calls) - 1
  <2>3. n \in Nat
    BY <2>1
  <2>4. SubSeq(calls, 1, n) \in Seq(Calls) /\ Len(SubSeq(calls, 1, n)) = n
        /\ \A i \in 1 .. n : SubSeq(calls, 1, n)[i] = calls[i]
    <3>. HIDE DEF n
    <3>1. 1 \in Int /\ n \in Int /\ \A i \in 1 .. n - 1 + 1 : 1 + i - 1 = i
      BY <2>3
    <3>2. \A i \in 1 .. n : calls[i] \in Calls
      BY <2>2 DEF n
    <3>3. /\ SubSeq(calls, 1, n) \in Seq(Calls)
          /\ Len(SubSeq(calls, 1, n)) = IF 1 <= n THEN n - 1 + 1 ELSE 0
          /\ \A i \in 1 .. n - 1 + 1 : SubSeq(calls, 1, n)[i] = calls[1 + i - 1]
      BY <3>1, <3>2, SubSeqProperties
    <3>. QED  BY <2>3, <3>1, <3>3
  <2>5. calls' = SubSeq(calls, 1, n)
    BY DEF Pop
  <2>. QED  BY <2>1, <2>3, <2>4, <2>5
<1>. QED  BY <1>1, TopIsCall DEF TypeOK, Retains

(* The table after an operation on one key. *)
LEMMA SetTable ==
  ASSUME TypeOK, NEW k \in Keys, NEW entry \in Entries, NEW S \in SUBSET Subscribers
  PROVE  /\ Set(table, k, entry, S) \in Tables
         /\ Set(table, k, entry, S).entry = [table.entry EXCEPT ![k] = entry]
         /\ Set(table, k, entry, S).subs = [table.subs EXCEPT ![k] = S]
BY DEF TypeOK, Tables, Set, Entries

LEMMA NextIsNew ==
  ASSUME TypeOK, next \in Subscribers, next' = next + 1
  PROVE  /\ next' \in 1..(MaxSubs + 1)
         /\ Inserteds' = Inserteds \cup {next} /\ next \notin Inserteds
         /\ Inserteds' \subseteq Subscribers
BY BoundsAssumption DEF TypeOK, Subscribers, Inserteds

LEMMA InsertedsAreSubscribers ==
  ASSUME TypeOK
  PROVE  Inserteds \subseteq Subscribers
BY BoundsAssumption DEF TypeOK, Subscribers, Inserteds

-----------------------------------------------------------------------------
(* IInv is inductive: one lemma for the initial states, one per action. *)
LEMMA InitIInv == Init => IInv
<1>. SUFFICES ASSUME Init  PROVE IInv
  OBVIOUS
<1>1. TypeOK
  BY BoundsAssumption DEF Init, TypeOK, Tables, EmptyTable, Entries, Inserteds
<1>2. Inserteds = {} /\ Retains = {}
  BY DEF Init, Inserteds, Retains
<1>. QED  BY <1>1, <1>2 DEF Init, IInv, Filed, Apart, Somewhere, Entered, EmptyTable, Present

LEMMA InsertIInv ==
  ASSUME IInv, Insert
  PROVE  IInv'
<1>. DEFINE k == key[next]
<1>1. k \in Keys /\ next \in Subscribers /\ TypeOK
  BY DEF Insert, IInv, TypeOK
<1>2. /\ next' \in 1..(MaxSubs + 1)
      /\ Inserteds' = Inserteds \cup {next} /\ next \notin Inserteds
      /\ Inserteds' \subseteq Subscribers
  BY <1>1, NextIsNew DEF Insert
<1>3. /\ table' \in Tables
      /\ table'.entry = [table.entry EXCEPT ![k] = "present"]
      /\ table'.subs = [table.subs EXCEPT ![k] = table.subs[k] \cup {next}]
  <2>1. table.subs[k] \cup {next} \in SUBSET Subscribers /\ "present" \in Entries
    BY <1>1 DEF TypeOK, Tables, Entries
  <2>2. table' = Set(table, k, "present", table.subs[k] \cup {next})
    BY DEF Insert, Inserted
  <2>. HIDE DEF k
  <2>3. PICK S \in SUBSET Subscribers : S = table.subs[k] \cup {next}
    BY <2>1
  <2>. QED  BY ONLY <1>1, <2>1, <2>2, <2>3, SetTable
<1>4. TypeOK'
  BY <1>1, <1>2, <1>3 DEF Insert, TypeOK
<1>5. Retains' = Retains /\ UNCHANGED <<calls, key, dropped, expelled>>
  BY DEF Insert, Retains
<1>. HIDE DEF k
<1>6. table.subs \in [Keys -> SUBSET Subscribers] /\ table.entry \in [Keys -> Entries]
  BY <1>1 DEF TypeOK, Tables
<1>7. Filed'
  BY <1>1, <1>2, <1>3, <1>5, <1>6 DEF IInv, Filed, k
<1>8. Apart'
  BY <1>1, <1>2, <1>3, <1>5, <1>6 DEF IInv, Filed, Apart, TypeOK
<1>9. Somewhere'
  <2>1. \A s \in Inserteds : key[s] \in Keys
    BY <1>1, <1>2 DEF TypeOK
  <2>2. next \in table'.subs[key[next]]
    BY <1>1, <1>3, <1>6 DEF k
  <2>3. \A s \in Inserteds : s \in table.subs[key[s]] => s \in table'.subs[key[s]]
    BY <1>1, <1>3, <1>6, <2>1
  <2>4. \A s \in Inserteds \ (dropped \cup expelled) :
          s \in table'.subs[key[s]] \/ \E i \in Retains : s \in calls[i].kept
    BY <2>3 DEF IInv, Somewhere
  <2>. QED  BY <1>2, <1>5, <2>2, <2>4 DEF Somewhere
<1>10. Entered'
  BY <1>1, <1>3, <1>5, <1>6 DEF IInv, Entered, Present
<1>. QED  BY <1>4, <1>7, <1>8, <1>9, <1>10 DEF IInv

(* Neither the table nor the stack changes. *)
LEMMA MarksIInv ==
  ASSUME IInv, UNCHANGED <<table, next, key, dropped, calls, expelled>>,
         active' \subseteq Inserteds, held' \subseteq held
  PROVE  IInv'
<1>1. Retains' = Retains /\ Inserteds' = Inserteds
  BY DEF Retains, Inserteds
<1>2. TypeOK'
  BY <1>1 DEF IInv, TypeOK
<1>. QED  BY <1>1, <1>2 DEF IInv, Filed, Apart, Somewhere, Entered, Present

LEMMA DropIInv ==
  ASSUME IInv, NEW s \in Subscribers, DropSubscription(s)
  PROVE  IInv'
<1>. DEFINE k == key[s]
<1>1. k \in Keys /\ TypeOK /\ s \in Inserteds
  BY DEF DropSubscription, IInv, TypeOK
<1>. HIDE DEF k
<1>2. table.subs \in [Keys -> SUBSET Subscribers] /\ table.entry \in [Keys -> Entries]
  BY <1>1 DEF TypeOK, Tables
<1>3. Retains' = Retains /\ Inserteds' = Inserteds /\ UNCHANGED <<calls, key, expelled>>
  BY DEF DropSubscription, Retains, Inserteds
<1>4. /\ table' \in Tables
      /\ table'.subs = [table.subs EXCEPT ![k] = table.subs[k] \ {s}]
      /\ \A j \in Keys : table'.entry[j] = "taken" => table.entry[j] = "taken"
      /\ \A j \in Keys : table'.entry[j] = "present" <=> table'.subs[j] # {}
  <2>1. \A j \in Keys : table.entry[j] = "present" <=> table.subs[j] # {}
    BY DEF IInv, Entered, Present
  <2>2. CASE ~ Present(table, k)
    <3>1. table' = table /\ table.subs[k] = {}
      BY <1>1, <2>1, <2>2 DEF DropSubscription, Unsubscribed, k, Present
    <3>. QED  BY <1>1, <1>2, <2>1, <3>1 DEF TypeOK
  <2>3. CASE Present(table, k) /\ table.subs[k] \subseteq {s}
    <3>1. table' = Set(table, k, "absent", {})
      BY <2>3 DEF DropSubscription, Unsubscribed, k
    <3>2. /\ table' \in Tables
          /\ table'.entry = [table.entry EXCEPT ![k] = "absent"]
          /\ table'.subs = [table.subs EXCEPT ![k] = {}]
      BY <1>1, <3>1, SetTable DEF Entries
    <3>. QED  BY <1>1, <1>2, <2>1, <2>3, <3>2
  <2>4. CASE Present(table, k) /\ ~ table.subs[k] \subseteq {s}
    <3>1. table' = Set(table, k, "present", table.subs[k] \ {s})
      BY <2>4 DEF DropSubscription, Unsubscribed, k
    <3>2. /\ table' \in Tables
          /\ table'.entry = [table.entry EXCEPT ![k] = "present"]
          /\ table'.subs = [table.subs EXCEPT ![k] = table.subs[k] \ {s}]
      BY <1>1, <1>2, <3>1, SetTable DEF Entries
    <3>. QED  BY <1>1, <1>2, <2>1, <2>4, <3>2
  <2>. QED  BY <2>2, <2>3, <2>4
<1>5. TypeOK'
  BY <1>1, <1>3, <1>4 DEF DropSubscription, TypeOK
<1>6. dropped' = dropped \cup {s}
  BY DEF DropSubscription
<1>7. Filed'
  BY <1>1, <1>2, <1>3, <1>4 DEF IInv, Filed
<1>8. Apart'
  BY <1>1, <1>2, <1>3, <1>4, InsertedsAreSubscribers DEF IInv, Filed, Apart, TypeOK
<1>9. Somewhere'
  BY <1>1, <1>2, <1>3, <1>4, <1>6, InsertedsAreSubscribers DEF IInv, Somewhere, TypeOK
<1>10. Entered'
  BY <1>3, <1>4 DEF IInv, Entered, Present
<1>. QED  BY <1>5, <1>7, <1>8, <1>9, <1>10 DEF IInv

(* A key whose subscribers go with a call: retain keeps them, remove       *)
(* expels them.                                                            *)
LEMMA BeginIInv ==
  ASSUME IInv, NEW k \in Keys, BeginRetain(k) \/ BeginRemove(k)
  PROVE  IInv'
<1>1. TypeOK /\ Present(table, k) /\ UNCHANGED <<next, key, active, dropped, held>>
  BY DEF BeginRetain, BeginRemove, IInv
<1>2. table.subs \in [Keys -> SUBSET Subscribers] /\ table.entry \in [Keys -> Entries]
  BY <1>1 DEF TypeOK, Tables
<1>3. PICK op \in {"retain", "remove"} :
        /\ calls' = Append(calls, Call(op, k))
        /\ table' = Set(table, k, IF op = "retain" THEN "taken" ELSE "absent", {})
        /\ expelled' = IF op = "retain" THEN expelled ELSE expelled \cup table.subs[k]
  BY DEF BeginRetain, BeginRemove, Taken, Removed
<1>4. Call(op, k) \in Calls /\ Call(op, k).op = op /\ Call(op, k).key = k
      /\ Call(op, k).kept = table.subs[k]
  BY <1>2 DEF Call, Calls
<1>5. /\ calls' \in Seq(Calls) /\ Len(calls') = Len(calls) + 1
      /\ Len(calls) + 1 \notin Retains
      /\ Retains' = Retains \cup (IF op = "retain" THEN {Len(calls) + 1} ELSE {})
      /\ calls'[Len(calls) + 1] = Call(op, k)
      /\ \A i \in Retains : calls'[i] = calls[i]
  BY <1>1, <1>3, <1>4, Pushed
<1>6. /\ table' \in Tables
      /\ table'.entry = [table.entry EXCEPT ![k] = IF op = "retain" THEN "taken" ELSE "absent"]
      /\ table'.subs = [table.subs EXCEPT ![k] = {}]
  <2>1. (IF op = "retain" THEN "taken" ELSE "absent") \in Entries /\ {} \in SUBSET Subscribers
    BY DEF Entries
  <2>2. table' = Set(table, k, IF op = "retain" THEN "taken" ELSE "absent", {})
    BY <1>3
  <2>. QED  BY ONLY <1>1, <2>1, <2>2, k \in Keys, SetTable
<1>7. Inserteds' = Inserteds
  BY <1>1 DEF Inserteds
<1>8. TypeOK'
  <2>1. Len(calls) < MaxDepth /\ Len(calls) \in Nat
    BY <1>1 DEF BeginRetain, BeginRemove, TypeOK
  <2>2. Len(calls') <= MaxDepth
    BY <1>5, <2>1, BoundsAssumption
  <2>3. expelled' \subseteq Subscribers
    BY <1>1, <1>2, <1>3 DEF TypeOK
  <2>. QED  BY <1>1, <1>5, <1>6, <1>7, <2>2, <2>3 DEF TypeOK
<1>9. Filed'
  BY <1>1, <1>2, <1>4, <1>5, <1>6, <1>7 DEF IInv, Filed
<1>10. Apart'
  BY <1>1, <1>2, <1>4, <1>5, <1>6 DEF IInv, Filed, Apart
<1>11. Somewhere'
  <2>1. SUFFICES ASSUME NEW s \in Inserteds \ (dropped \cup expelled)',
                        s \notin (table.subs[key[s]])'
                 PROVE  \E i \in Retains' : s \in (calls')[i].kept
    BY <1>7 DEF Somewhere
  <2>2. s \in Inserteds \ (dropped \cup expelled) /\ key[s] \in Keys
    BY <1>1, <1>3, <2>1, InsertedsAreSubscribers DEF TypeOK
  <2>3. CASE s \in table.subs[key[s]]
    <3>1. key[s] = k /\ op = "retain"
      BY <1>1, <1>2, <1>3, <1>6, <2>1, <2>2, <2>3
    <3>. QED  BY <1>4, <1>5, <2>3, <3>1
  <2>4. CASE s \notin table.subs[key[s]]
    BY <1>5, <2>2, <2>4 DEF IInv, Somewhere
  <2>. QED  BY <2>3, <2>4
<1>12. Entered'
  BY <1>2, <1>4, <1>5, <1>6 DEF IInv, Entered, Present
<1>. QED  BY <1>8, <1>9, <1>10, <1>11, <1>12 DEF IInv

LEMMA RemoveTakenIInv ==
  ASSUME IInv, NEW k \in Keys, RemoveTaken(k)
  PROVE  IInv'
<1>1. TypeOK /\ table.entry[k] = "taken"
      /\ UNCHANGED <<next, key, active, dropped, held, calls, expelled>>
  BY DEF RemoveTaken, IInv
<1>2. table.subs \in [Keys -> SUBSET Subscribers] /\ table.entry \in [Keys -> Entries]
  BY <1>1 DEF TypeOK, Tables
<1>3. /\ table' \in Tables
      /\ table'.entry = [table.entry EXCEPT ![k] = "absent"]
      /\ table'.subs = [table.subs EXCEPT ![k] = {}]
  BY <1>1, SetTable DEF RemoveTaken, Removed, Entries
<1>4. table'.subs = table.subs
  <2>1. table.subs[k] = {}
    BY <1>1 DEF IInv, Entered, Present
  <2>. QED  BY <1>2, <1>3, <2>1
<1>5. Retains' = Retains /\ Inserteds' = Inserteds
  BY <1>1 DEF Retains, Inserteds
<1>6. TypeOK'
  BY <1>1, <1>3, <1>5 DEF TypeOK
<1>. QED  BY <1>1, <1>2, <1>3, <1>4, <1>5, <1>6
          DEF IInv, Filed, Apart, Somewhere, Entered, Present

(* The innermost call goes on; of those it keeps, it may let go of one     *)
(* that was dropped or expelled.                                           *)
LEMMA StepIInv ==
  ASSUME IInv, calls # <<>>, NEW call \in Calls, call.op = Top.op, call.key = Top.key,
         Replace(call), UNCHANGED <<table, next, key, active, dropped, held>>,
         expelled' \subseteq Subscribers, expelled \subseteq expelled',
         call.kept \subseteq Top.kept,
         Top.kept \ call.kept \subseteq dropped \cup expelled'
  PROVE  IInv'
<1>1. TypeOK
  BY DEF IInv
<1>2. /\ calls' \in Seq(Calls) /\ Len(calls') = Len(calls)
      /\ Retains' = Retains
      /\ calls'[Len(calls)] = call
      /\ \A i \in Retains : i # Len(calls) => calls'[i] = calls[i]
  BY <1>1, Replaced
<1>3. Inserteds' = Inserteds /\ Top = calls[Len(calls)]
  BY DEF Inserteds, Top
<1>4. TypeOK'
  BY <1>1, <1>2, <1>3 DEF TypeOK
<1>5. \A i \in Retains : /\ calls'[i].key = calls[i].key
                         /\ calls'[i].kept \subseteq calls[i].kept
                         /\ calls[i].kept \ calls'[i].kept \subseteq dropped \cup expelled'
  BY <1>2, <1>3
<1>. QED  BY <1>2, <1>3, <1>4, <1>5 DEF IInv, Filed, Apart, Somewhere, Entered, Present

LEMMA VisitRetainedIInv ==
  ASSUME IInv, VisitRetained
  PROVE  IInv'
<1>. DEFINE s == Min(Top.todo)
            left == [Top EXCEPT !.todo = @ \ {s}]
<1>1. TypeOK /\ calls # <<>> /\ Top \in Calls /\ Top.op = "retain"
      /\ UNCHANGED <<table, next, key, active, dropped, held, expelled>>
      /\ expelled \subseteq Subscribers
  BY TopIsCall DEF IInv, VisitRetained, TypeOK
<1>2. s \in Subscribers
  BY <1>1, MinIsMember DEF VisitRetained, Calls
<1>. HIDE DEF s
<1>3. CASE s \notin active
  <2>1. Replace(left) /\ left \in Calls
    BY <1>1, <1>3 DEF VisitRetained, s, Calls
  <2>. QED  BY <1>1, <2>1, StepIInv DEF Calls
<1>4. CASE s \in active /\ s \in dropped
  <2>. DEFINE call == [Top EXCEPT !.todo = @ \ {s}, !.kept = @ \ {s}]
  <2>1. Replace(call) /\ call \in Calls
    BY <1>1, <1>4 DEF VisitRetained, s, Calls
  <2>2. call.op = Top.op /\ call.key = Top.key /\ call.kept = Top.kept \ {s}
    BY <1>1 DEF Calls
  <2>. HIDE DEF call
  <2>. QED  BY <1>1, <1>4, <2>1, <2>2, StepIInv
<1>5. CASE s \in active /\ s \notin dropped
  <2>. DEFINE call == [Top EXCEPT !.todo = @ \ {s}, !.running = s]
  <2>1. Replace(call) /\ call \in Calls
    BY <1>1, <1>2, <1>5 DEF VisitRetained, s, Calls
  <2>2. call.op = Top.op /\ call.key = Top.key /\ call.kept = Top.kept
    BY <1>1 DEF Calls
  <2>. HIDE DEF call
  <2>. QED  BY <1>1, <2>1, <2>2, StepIInv
<1>. QED  BY <1>3, <1>4, <1>5

LEMMA ReturnRetainedIInv ==
  ASSUME IInv, NEW keep \in BOOLEAN, ReturnRetained(keep)
  PROVE  IInv'
<1>. DEFINE s == Top.running
            call == [Top EXCEPT !.running = 0,
                                !.kept = IF keep /\ s \notin dropped THEN @ ELSE @ \ {s}]
<1>1. TypeOK /\ calls # <<>> /\ Top \in Calls /\ Top.op = "retain" /\ Replace(call)
      /\ expelled' = (IF keep THEN expelled ELSE expelled \cup {s})
      /\ UNCHANGED <<table, next, key, active, dropped, held>>
      /\ s \in Subscribers /\ expelled \subseteq Subscribers
  <2>1. TypeOK /\ calls # <<>> /\ s # 0
    BY DEF IInv, ReturnRetained
  <2>2. Top \in Calls /\ s \in Subscribers
    BY <2>1, TopIsCall DEF Calls
  <2>. QED  BY <2>1, <2>2 DEF ReturnRetained, TypeOK
<1>2. call \in Calls /\ call.op = Top.op /\ call.key = Top.key
      /\ call.kept = IF keep /\ s \notin dropped THEN Top.kept ELSE Top.kept \ {s}
  BY <1>1 DEF Calls
<1>. HIDE DEF s, call
<1>. QED  BY <1>1, <1>2, StepIInv

LEMMA RemoveStepIInv ==
  ASSUME IInv, VisitRemoved \/ ReturnRemoved
  PROVE  IInv'
<1>1. TypeOK /\ calls # <<>> /\ Top \in Calls
      /\ UNCHANGED <<table, next, key, active, dropped, held, expelled>>
      /\ expelled \subseteq Subscribers
  BY TopIsCall DEF IInv, VisitRemoved, ReturnRemoved, TypeOK
<1>2. PICK todo \in SUBSET Subscribers, running \in Subscribers \cup {0} :
        Replace([Top EXCEPT !.todo = todo, !.running = running])
  <2>1. CASE VisitRemoved
    <3>. DEFINE s == Min(Top.todo)
    <3>1. s \in Subscribers /\ Top.todo \subseteq Subscribers
      BY <1>1, <2>1, MinIsMember DEF VisitRemoved, Calls
    <3>2. Replace([Top EXCEPT !.todo = @ \ {s}, !.running = IF s \in active THEN s ELSE 0])
      BY <2>1 DEF VisitRemoved
    <3>. HIDE DEF s
    <3>. QED  BY <3>1, <3>2
  <2>2. CASE ReturnRemoved
    <3>1. Replace([Top EXCEPT !.running = 0])
      BY <2>2 DEF ReturnRemoved
    <3>2. [Top EXCEPT !.running = 0] = [Top EXCEPT !.todo = Top.todo, !.running = 0]
      BY <1>1 DEF Calls
    <3>3. Top.todo \in SUBSET Subscribers
      BY <1>1 DEF Calls
    <3>. QED  BY <3>1, <3>2, <3>3
  <2>. QED  BY <2>1, <2>2
<1>. DEFINE call == [Top EXCEPT !.todo = todo, !.running = running]
<1>3. call \in Calls /\ call.op = Top.op /\ call.key = Top.key /\ call.kept = Top.kept
  BY <1>1 DEF Calls
<1>4. Replace(call)
  BY <1>2
<1>. HIDE DEF call
<1>. QED  BY <1>1, <1>3, <1>4, StepIInv

LEMMA EndRetainIInv ==
  ASSUME IInv, EndRetain
  PROVE  IInv'
<1>. DEFINE k == Top.key
            n == Len(calls)
<1>1. TypeOK /\ calls # <<>> /\ Top \in Calls /\ Top = calls[n] /\ n \in Retains /\ Pop
      /\ UNCHANGED <<next, key, active, dropped, held, expelled>>
  BY TopIsCall DEF IInv, EndRetain, Retains
<1>2. table.subs \in [Keys -> SUBSET Subscribers] /\ table.entry \in [Keys -> Entries]
      /\ k \in Keys
  BY <1>1 DEF TypeOK, Tables, Calls
<1>3. /\ calls' \in Seq(Calls) /\ Len(calls') = n - 1
      /\ Retains' = Retains \ {n}
      /\ \A i \in Retains' : calls'[i] = calls[i]
  BY <1>1, Popped
<1>. DEFINE all == Top.kept \cup table.subs[k]
<1>4. /\ table' \in Tables
      /\ table'.entry = [table.entry EXCEPT ![k] = IF all = {} THEN "absent" ELSE "present"]
      /\ table'.subs = [table.subs EXCEPT ![k] = all]
  <2>1. table' = Set(table, k, IF all = {} THEN "absent" ELSE "present", all)
    BY DEF EndRetain, PutBack
  <2>2. all \in SUBSET Subscribers /\ (IF all = {} THEN "absent" ELSE "present") \in Entries
    BY <1>1, <1>2 DEF Calls, Entries
  <2>. HIDE DEF all, k
  <2>. QED  BY <1>1, <1>2, <2>1, <2>2, SetTable
<1>5. Inserteds' = Inserteds
  BY <1>1 DEF Inserteds
<1>. HIDE DEF k, n
<1>6. TypeOK'
  <2>1. Len(calls') <= MaxDepth
    BY <1>1, <1>3, TopIsCall, BoundsAssumption DEF TypeOK, n
  <2>. QED  BY <1>1, <1>3, <1>4, <1>5, <2>1 DEF TypeOK
<1>7. Filed'
  BY <1>1, <1>2, <1>3, <1>4, <1>5 DEF IInv, Filed, k
<1>8. Apart'
  <2>1. ASSUME NEW i \in Retains', NEW s \in calls'[i].kept
        PROVE  s \notin table'.subs[key[s]]
    <3>1. i \in Retains /\ i # n /\ s \in calls[i].kept
      BY <1>3, <2>1
    <3>2. s \notin table.subs[key[s]] /\ s \notin calls[n].kept /\ key[s] \in Keys
      BY <1>1, <3>1, InsertedsAreSubscribers DEF IInv, Apart, Filed, TypeOK
    <3>. QED  BY <1>1, <1>2, <1>4, <3>2
  <2>. QED  BY <1>1, <1>3, <2>1 DEF IInv, Apart
<1>9. Somewhere'
  <2>1. SUFFICES ASSUME NEW s \in Inserteds \ (dropped \cup expelled),
                        \A i \in Retains' : s \notin calls'[i].kept
                 PROVE  s \in table'.subs[key[s]]
    BY <1>1, <1>5 DEF Somewhere
  <2>2. key[s] \in Keys
    BY <1>1, InsertedsAreSubscribers DEF TypeOK
  <2>3. s \in table.subs[key[s]] \/ s \in calls[n].kept
    BY <1>3, <2>1 DEF IInv, Somewhere
  <2>4. s \in calls[n].kept => key[s] = k
    BY <1>1 DEF IInv, Filed, k
  <2>. QED  BY <1>1, <1>2, <1>4, <2>2, <2>3, <2>4
<1>10. Entered'
  <2>1. \A j \in Keys : table'.entry[j] = "taken" =>
          j # k /\ table.entry[j] = "taken"
    BY <1>2, <1>4
  <2>2. \A i \in Retains : calls[i].key # k => i \in Retains'
    BY <1>1, <1>3 DEF k
  <2>3. \A j \in Keys : table'.entry[j] = "present" <=> table'.subs[j] # {}
    <3>. HIDE DEF all
    <3>. QED  BY <1>2, <1>4 DEF IInv, Entered, Present
  <2>. QED  BY <1>3, <2>1, <2>2, <2>3 DEF IInv, Entered, Present
<1>. QED  BY <1>6, <1>7, <1>8, <1>9, <1>10 DEF IInv

LEMMA EndRemoveIInv ==
  ASSUME IInv, EndRemove
  PROVE  IInv'
<1>1. TypeOK /\ calls # <<>> /\ Top.op = "remove" /\ Pop
      /\ UNCHANGED <<table, next, key, active, dropped, held, expelled>>
  BY DEF IInv, EndRemove
<1>2. /\ calls' \in Seq(Calls) /\ Len(calls') = Len(calls) - 1
      /\ Retains' = Retains \ {Len(calls)}
      /\ \A i \in Retains' : calls'[i] = calls[i]
  BY <1>1, Popped
<1>3. Retains' = Retains /\ Inserteds' = Inserteds
  BY <1>1, <1>2 DEF Retains, Top, Inserteds
<1>4. TypeOK'
  <2>1. Len(calls') <= MaxDepth
    BY <1>1, <1>2, TopIsCall, BoundsAssumption DEF TypeOK
  <2>. QED  BY <1>1, <1>2, <1>3, <2>1 DEF TypeOK
<1>. QED  BY <1>1, <1>2, <1>3, <1>4 DEF IInv, Filed, Apart, Somewhere, Entered, Present

LEMMA NextIInv ==
  ASSUME IInv, [Next]_vars
  PROVE  IInv'
<1>1. CASE UNCHANGED vars
  <2>1. /\ UNCHANGED <<table, next, key, active, dropped, held, calls, expelled>>
        /\ active \subseteq Inserteds
    BY <1>1 DEF vars, IInv, TypeOK
  <2>. QED  BY <2>1, MarksIInv
<1>2. CASE Insert
  BY <1>2, InsertIInv
<1>3. CASE \E s \in Subscribers : Activate(s) \/ Detach(s)
  <2>1. active' \subseteq Inserteds /\ held' \subseteq held
        /\ UNCHANGED <<table, next, key, dropped, calls, expelled>>
    BY <1>3 DEF Activate, Detach, IInv, TypeOK
  <2>. QED  BY <2>1, MarksIInv
<1>4. CASE \E s \in Subscribers : DropSubscription(s)
  BY <1>4, DropIInv
<1>5. CASE \E k \in Keys : BeginRetain(k) \/ BeginRemove(k)
  BY <1>5, BeginIInv
<1>6. CASE \E k \in Keys : RemoveTaken(k)
  BY <1>6, RemoveTakenIInv
<1>7. CASE VisitRetained
  BY <1>7, VisitRetainedIInv
<1>8. CASE \E keep \in BOOLEAN : ReturnRetained(keep)
  BY <1>8, ReturnRetainedIInv
<1>9. CASE EndRetain
  BY <1>9, EndRetainIInv
<1>10. CASE VisitRemoved \/ ReturnRemoved
  BY <1>10, RemoveStepIInv
<1>11. CASE EndRemove
  BY <1>11, EndRemoveIInv
<1>. QED  BY <1>1, <1>2, <1>3, <1>4, <1>5, <1>6, <1>7, <1>8, <1>9, <1>10, <1>11 DEF Next

LEMMA Inductive == Spec => []IInv
BY InitIInv, NextIInv, PTL DEF Spec
-----------------------------------------------------------------------------
(* The state of the set keeps its type, for any keys, subscribers and      *)
(* depth of re-entrancy: a visit always finds the next subscriber.         *)
THEOREM TypeCorrect == Spec => []TypeOK
<1>1. IInv => TypeOK
  BY DEF IInv
<1>. QED  BY <1>1, Inductive, PTL

(* However insert, drop, retain and remove re-enter each other, a          *)
(* subscriber that nobody ended is in exactly one place, and no key is     *)
(* left taken.                                                             *)
THEOREM NobodyIsLost == Spec => []NoneLostNorDoubled
<1>1. ASSUME IInv  PROVE NoneLostNorDoubled
  <2>1. ASSUME NEW s \in Inserteds
        PROVE  Places(s) <= 1 /\ (s \notin dropped \cup expelled => Places(s) = 1)
    <3>. DEFINE Keeping == {i \in Retaining(key[s]) : s \in calls[i].kept}
    <3>1. \A i \in Retains : s \in calls[i].kept => i \in Keeping
      BY <1>1 DEF Retains, Retaining, IInv, Filed
    <3>2. \A i \in Keeping : i \in Retains /\ s \in calls[i].kept
      BY DEF Retains, Retaining
    <3>3. CASE Keeping = {}
      <4>1. Cardinality(Keeping) = 0
        BY <3>3, FS_EmptySet
      <4>2. s \notin dropped \cup expelled => s \in table.subs[key[s]]
        BY <1>1, <3>1, <3>3 DEF IInv, Somewhere
      <4>. QED  BY <4>1, <4>2 DEF Places
    <3>4. CASE Keeping # {}
      <4>1. PICK i \in Keeping : TRUE
        BY <3>4
      <4>2. Keeping = {i}
        BY <1>1, <3>2 DEF IInv, Apart
      <4>3. Cardinality(Keeping) = 1
        BY <4>2, FS_Singleton
      <4>4. s \notin table.subs[key[s]]
        BY <1>1, <3>2, <4>1 DEF IInv, Apart
      <4>. QED  BY <4>3, <4>4 DEF Places
    <3>. QED  BY <3>3, <3>4
  <2>2. \A k \in Keys : /\ table.entry[k] = "taken" => Retaining(k) # {}
                        /\ Present(table, k) <=> table.subs[k] # {}
    BY <1>1 DEF IInv, Entered, Retains, Retaining
  <2>. QED  BY <2>1, <2>2 DEF NoneLostNorDoubled
<1>. QED  BY <1>1, Inductive, PTL

(* Once a Subscription is dropped, no retain invokes its callback, were it *)
(* one that was already under way.                                         *)
THEOREM DroppedStaySilent == Spec => RetainHonoursDrop
<1>1. ASSUME TypeOK, [Next]_vars
      PROVE  [Invoked("retain") \cap dropped = {}]_vars
  <2>1. SUFFICES ASSUME Next, calls # <<>>, Len(calls') = Len(calls),
                        calls'[Len(calls)].op = "retain",
                        calls'[Len(calls)].running \notin {Top.running, 0}
                 PROVE  calls'[Len(calls)].running \notin dropped
    BY <1>1 DEF Invoked
  <2>2. Len(calls) \in DOMAIN calls /\ Len(calls) \in Nat /\ Top = calls[Len(calls)]
        /\ Top \in Calls
    BY <1>1, <2>1, TopIsCall
  <2>3. ASSUME NEW call, Replace(call)
        PROVE  calls'[Len(calls)] = call
    BY <2>2, <2>3 DEF Replace
  <2>4. CASE VisitRetained
    <3>. DEFINE s == Min(Top.todo)
    <3>1. s \in Subscribers
      BY <2>2, <2>4, MinIsMember DEF VisitRetained, Calls
    <3>. HIDE DEF s
    <3>2. calls'[Len(calls)].running \in {Top.running, s}
          /\ (s \in dropped => calls'[Len(calls)].running = Top.running)
      <4>1. CASE s \notin active
        <5>1. Replace([Top EXCEPT !.todo = @ \ {s}])
          BY <2>4, <4>1 DEF VisitRetained, s
        <5>2. calls'[Len(calls)] = [Top EXCEPT !.todo = @ \ {s}]
          BY <2>3, <5>1
        <5>. QED  BY <2>2, <5>2 DEF Calls
      <4>2. CASE s \in active /\ s \in dropped
        <5>1. Replace([Top EXCEPT !.todo = @ \ {s}, !.kept = @ \ {s}])
          BY <2>4, <4>2 DEF VisitRetained, s
        <5>2. calls'[Len(calls)] = [Top EXCEPT !.todo = @ \ {s}, !.kept = @ \ {s}]
          BY <2>3, <5>1
        <5>. QED  BY <2>2, <5>2 DEF Calls
      <4>3. CASE s \in active /\ s \notin dropped
        <5>1. Replace([Top EXCEPT !.todo = @ \ {s}, !.running = s])
          BY <2>4, <4>3 DEF VisitRetained, s
        <5>2. calls'[Len(calls)] = [Top EXCEPT !.todo = @ \ {s}, !.running = s]
          BY <2>3, <5>1
        <5>. QED  BY <2>2, <4>3, <5>2 DEF Calls
      <4>. QED  BY <4>1, <4>2, <4>3
    <3>. QED  BY <2>1, <3>2
  <2>5. CASE \E keep \in BOOLEAN : ReturnRetained(keep)
    <3>1. PICK kept : Replace([Top EXCEPT !.running = 0, !.kept = kept])
      BY <2>5 DEF ReturnRetained
    <3>2. calls'[Len(calls)] = [Top EXCEPT !.running = 0, !.kept = kept]
      BY <2>3, <3>1
    <3>. QED  BY <2>1, <2>2, <3>2 DEF Calls
  <2>6. CASE VisitRemoved \/ ReturnRemoved
    <3>1. PICK todo, running : Replace([Top EXCEPT !.todo = todo, !.running = running])
                               \/ Replace([Top EXCEPT !.running = running])
      BY <2>6 DEF VisitRemoved, ReturnRemoved
    <3>2. \/ calls'[Len(calls)] = [Top EXCEPT !.todo = todo, !.running = running]
          \/ calls'[Len(calls)] = [Top EXCEPT !.running = running]
      BY <2>3, <3>1
    <3>3. Top.op = "remove"
      BY <2>6 DEF VisitRemoved, ReturnRemoved
    <3>. QED  BY <2>1, <2>2, <3>2, <3>3 DEF Calls
  <2>7. CASE EndRetain \/ EndRemove
    BY <1>1, <2>1, <2>7, Popped DEF EndRetain, EndRemove
  <2>8. CASE \E k \in Keys : BeginRetain(k) \/ BeginRemove(k)
    <3>1. \E call : calls' = Append(calls, call)
      BY <2>8 DEF BeginRetain, BeginRemove
    <3>. QED  BY <1>1, <2>1, <2>2, <3>1 DEF TypeOK
  <2>9. CASE UNCHANGED calls
    BY <2>1, <2>2, <2>9
  <2>. QED  BY <2>1, <2>4, <2>5, <2>6, <2>7, <2>8, <2>9
            DEF Next, Insert, Activate, DropSubscription, Detach, RemoveTaken
<1>. QED  BY <1>1, TypeCorrect, PTL DEF Spec, RetainHonoursDrop
-----------------------------------------------------------------------------
(* The inductive invariant: CountIsHandles and DeadIsRecordedOnce, with    *)
(* what they rest on.                                                      *)

HandlesCounted ==
  \A e \in Ids :
    /\ IsFiniteSet(HandlesTo(e))
    /\ slot[e] # "counted" => HandlesTo(e) = {}

ReleasedIsRemoved == \A e \in Ids : box[e] = "released" => slot[e] = "removed"

LeaseHoldsHandle ==
  \A e \in Ids : borrowed[e] # NoHandle => target[borrowed[e]] = e

(* The shared lock keeps the key in place between the load and the         *)
(* exchange, and a thread only exchanges a count it saw nonzero.           *)
CasIsLocked ==
  \A t \in Threads : pc[t] = "cas" =>
    arg[t] \in Ids /\ slot[arg[t]] = "counted" /\ loaded[t] # 0

DropNamesEntity == \A t \in Threads : pc[t] \in {"last", "upgrade"} => arg[t] \in Ids

CountInv ==
  /\ EntityTypeOK
  /\ CountIsHandles
  /\ HandlesCounted
  /\ ReleasedIsRemoved
  /\ LeaseHoldsHandle
  /\ CasIsLocked
  /\ DropNamesEntity
  /\ DeadIsRecordedOnce

-----------------------------------------------------------------------------
(* How the handles of an entity change when one is made or dropped. *)

LEMMA HandlesGained ==
  ASSUME EntityTypeOK, NEW h \in Handles, NEW e \in Ids, target[h] = NoId,
         target' = [target EXCEPT ![h] = e]
  PROVE  /\ h \notin HandlesTo(e)
         /\ HandlesTo(e)' = HandlesTo(e) \cup {h}
         /\ \A f \in Ids \ {e} : HandlesTo(f)' = HandlesTo(f)
  BY NoneAssumption DEF EntityTypeOK, HandlesTo

LEMMA HandlesLost ==
  ASSUME EntityTypeOK, NEW h \in Handles, NEW e \in Ids, target[h] = e,
         target' = [target EXCEPT ![h] = NoId]
  PROVE  /\ h \in HandlesTo(e)
         /\ HandlesTo(e)' = HandlesTo(e) \ {h}
         /\ \A f \in Ids \ {e} : HandlesTo(f)' = HandlesTo(f)
  BY NoneAssumption DEF EntityTypeOK, HandlesTo

(* An entity that a live handle points to is counted, and not dead. *)
LEMMA LiveIsCounted ==
  ASSUME CountInv, NEW h \in Handles, Live(h)
  PROVE  /\ target[h] \in Ids
         /\ slot[target[h]] = "counted"
         /\ count[target[h]] \in Nat
         /\ count[target[h]] > 0
<1> DEFINE e == target[h]
<1>1. e \in Ids
  BY DEF CountInv, EntityTypeOK, Live
<1>2. h \in HandlesTo(e)
  BY DEF HandlesTo
<1>3. slot[e] = "counted" /\ IsFiniteSet(HandlesTo(e))
  BY <1>1, <1>2 DEF CountInv, HandlesCounted
<1>4. Cardinality(HandlesTo(e)) # 0
  BY <1>2, <1>3, FS_EmptySet
<1>5. count[e] = Cardinality(HandlesTo(e)) /\ count[e] \in Nat
  BY <1>1, <1>3 DEF CountInv, CountIsHandles, EntityTypeOK
<1>. QED  BY <1>1, <1>3, <1>4, <1>5

(* An action that neither touches the list nor makes an entity die. *)
LEMMA DeadUnmoved ==
  ASSUME DeadIsRecordedOnce, UNCHANGED droppedIds,
         \A t \in Threads, e \in Ids : Dropping(t, e)' <=> Dropping(t, e),
         \A e \in Ids : (slot[e] = "counted" /\ count[e] = 0)'
                          <=> (slot[e] = "counted" /\ count[e] = 0)
  PROVE  DeadIsRecordedOnce'
<1>1. \A e \in Ids : IsDropped(e)' <=> IsDropped(e)
  BY DEF IsDropped
<1>. QED  BY <1>1 DEF DeadIsRecordedOnce

(* A counted entity without handles has a zero count, and conversely. *)
LEMMA DeadHasNoHandle ==
  ASSUME CountInv, NEW e \in Ids, slot[e] = "counted"
  PROVE  count[e] = 0 <=> HandlesTo(e) = {}
  BY FS_EmptySet DEF CountInv, CountIsHandles, HandlesCounted

-----------------------------------------------------------------------------
(* One lemma per action that touches the counts, the handles or the list. *)

LEMMA ReserveStep ==
  ASSUME CountInv, NEW h \in Handles, NEW e \in Ids, Reserve(h, e)
  PROVE  CountInv'
<1> USE DEF CountInv, Reserve, Make, Live, boxes, locals
<1>1. EntityTypeOK'
  BY MainAssumption DEF EntityTypeOK, Slots
<1>2. HandlesTo(e) = {} /\ IsFiniteSet(HandlesTo(e))
  BY DEF HandlesCounted
<1>3. HandlesTo(e)' = HandlesTo(e) \cup {h} /\ h \notin HandlesTo(e)
  BY HandlesGained
<1>4. \A f \in Ids \ {e} : HandlesTo(f)' = HandlesTo(f)
  BY HandlesGained
<1>5. IsFiniteSet(HandlesTo(e)') /\ Cardinality(HandlesTo(e)') = 1
  <2>1. HandlesTo(e)' = {h}
    BY <1>2, <1>3
  <2>. QED  BY ONLY <2>1, FS_Singleton
<1>6. CountIsHandles'
  BY <1>4, <1>5 DEF CountIsHandles, EntityTypeOK
<1>7. HandlesCounted'
  BY <1>4, <1>5 DEF HandlesCounted, EntityTypeOK
<1>8. ReleasedIsRemoved' /\ CasIsLocked' /\ DropNamesEntity'
  BY DEF ReleasedIsRemoved, CasIsLocked, DropNamesEntity, EntityTypeOK
<1>9. LeaseHoldsHandle'
  BY NoneAssumption DEF LeaseHoldsHandle, EntityTypeOK
<1>10. DeadIsRecordedOnce'
  <2>1. \A t \in Threads, f \in Ids : Dropping(t, f)' <=> Dropping(t, f)
    BY DEF Dropping
  <2>2. \A f \in Ids : (slot[f] = "counted" /\ count[f] = 0)'
                          <=> (slot[f] = "counted" /\ count[f] = 0)
    BY DEF EntityTypeOK
  <2>. QED  BY <2>1, <2>2, DeadUnmoved
<1>. QED  BY <1>1, <1>6, <1>7, <1>8, <1>9, <1>10

(* Clone and Exchange alike add a handle to an entity that has one. *)
LEMMA CountUp ==
  ASSUME CountInv, NEW h \in Handles, NEW e \in Ids, NEW t \in Threads,
         slot[e] = "counted", count[e] # 0, Make(h, e, t),
         count' = [count EXCEPT ![e] = @ + 1],
         UNCHANGED <<slot, droppedIds, boxes>>
  PROVE  /\ count' \in [Ids -> Nat]
         /\ target' \in [Handles -> Ids \cup {NoId}]
         /\ owner' \in [Handles -> Threads]
         /\ CountIsHandles'
         /\ HandlesCounted'
         /\ ReleasedIsRemoved'
         /\ LeaseHoldsHandle'
<1> USE DEF CountInv, Make, Live, boxes
<1>1. HandlesTo(e)' = HandlesTo(e) \cup {h} /\ h \notin HandlesTo(e)
  BY HandlesGained
<1>2. \A f \in Ids \ {e} : HandlesTo(f)' = HandlesTo(f)
  BY HandlesGained
<1>3. IsFiniteSet(HandlesTo(e)) /\ Cardinality(HandlesTo(e)) = count[e]
  BY DEF HandlesCounted, CountIsHandles
<1>4. IsFiniteSet(HandlesTo(e)') /\ Cardinality(HandlesTo(e)') = count[e] + 1
  BY <1>1, <1>3, FS_AddElement
<1>5. CountIsHandles'
  BY <1>2, <1>4 DEF CountIsHandles, EntityTypeOK
<1>6. HandlesCounted'
  BY <1>2, <1>4 DEF HandlesCounted
<1>7. LeaseHoldsHandle'
  BY NoneAssumption DEF LeaseHoldsHandle, EntityTypeOK
<1>. QED  BY <1>5, <1>6, <1>7 DEF ReleasedIsRemoved, EntityTypeOK

LEMMA CloneStep ==
  ASSUME CountInv, NEW t \in Threads, NEW h \in Handles, NEW new \in Handles,
         Clone(t, h, new)
  PROVE  CountInv'
<1> DEFINE e == target[h]
<1>1. e \in Ids /\ slot[e] = "counted" /\ count[e] \in Nat /\ count[e] # 0
  BY LiveIsCounted DEF Clone, Owns
<1>2. /\ count' \in [Ids -> Nat]
      /\ target' \in [Handles -> Ids \cup {NoId}]
      /\ owner' \in [Handles -> Threads]
      /\ CountIsHandles' /\ HandlesCounted' /\ ReleasedIsRemoved' /\ LeaseHoldsHandle'
  BY <1>1, CountUp DEF Clone
<1>3. EntityTypeOK' /\ CasIsLocked' /\ DropNamesEntity'
  BY <1>2 DEF CountInv, EntityTypeOK, CasIsLocked, DropNamesEntity, Clone, boxes, locals
<1>4. DeadIsRecordedOnce'
  <2>1. \A u \in Threads, f \in Ids : Dropping(u, f)' <=> Dropping(u, f)
    BY DEF Dropping, Clone, locals
  <2>2. \A f \in Ids : (slot[f] = "counted" /\ count[f] = 0)'
                          <=> (slot[f] = "counted" /\ count[f] = 0)
    BY <1>1 DEF CountInv, EntityTypeOK, Clone
  <2>. QED  BY <2>1, <2>2, DeadUnmoved DEF CountInv, Clone
<1>. QED  BY <1>2, <1>3, <1>4 DEF CountInv

LEMMA ExchangeStep ==
  ASSUME CountInv, NEW t \in Threads, NEW h \in Handles, Exchange(t, h)
  PROVE  CountInv'
<1> DEFINE e == arg[t]
<1>1. e \in Ids /\ slot[e] = "counted" /\ count[e] = loaded[t] /\ count[e] # 0
  BY DEF CountInv, CasIsLocked, Exchange
<1>2. count' = [count EXCEPT ![e] = @ + 1]
  BY <1>1 DEF Exchange
<1>3. /\ count' \in [Ids -> Nat]
      /\ target' \in [Handles -> Ids \cup {NoId}]
      /\ owner' \in [Handles -> Threads]
      /\ CountIsHandles' /\ HandlesCounted' /\ ReleasedIsRemoved' /\ LeaseHoldsHandle'
  BY <1>1, <1>2, CountUp DEF Exchange
<1>4. EntityTypeOK'
  BY <1>3 DEF CountInv, EntityTypeOK, Exchange, boxes, Steps
<1>5. CasIsLocked' /\ DropNamesEntity'
  BY DEF CountInv, EntityTypeOK, CasIsLocked, DropNamesEntity, Exchange
<1>6. \A u \in Threads, f \in Ids : Dropping(u, f)' <=> Dropping(u, f)
  BY DEF CountInv, EntityTypeOK, Exchange, Dropping
<1>7. DeadIsRecordedOnce'
  <2>1. \A f \in Ids : (slot[f] = "counted" /\ count[f] = 0)'
                          <=> (slot[f] = "counted" /\ count[f] = 0)
    BY <1>1, <1>2 DEF CountInv, EntityTypeOK, Exchange
  <2>. QED  BY <1>6, <2>1, DeadUnmoved DEF CountInv, Exchange
<1>. QED  BY <1>3, <1>4, <1>5, <1>7 DEF CountInv

LEMMA RetryStep ==
  ASSUME CountInv, NEW t \in Threads, Retry(t)
  PROVE  CountInv'
<1> USE DEF CountInv, Retry, boxes, handles
<1>1. EntityTypeOK'
  BY DEF EntityTypeOK, CasIsLocked, Steps
<1>5. HandlesCounted' /\ CountIsHandles'
  BY DEF HandlesCounted, CountIsHandles, HandlesTo
<1>2. ReleasedIsRemoved' /\ LeaseHoldsHandle' /\ DropNamesEntity' /\ CasIsLocked'
  <2>1. ReleasedIsRemoved' /\ LeaseHoldsHandle'
    BY DEF EntityTypeOK, ReleasedIsRemoved, LeaseHoldsHandle
  <2>2. DropNamesEntity'
    BY DEF EntityTypeOK, DropNamesEntity
  <2>3. CasIsLocked'
    BY DEF EntityTypeOK, CasIsLocked
  <2>. QED  BY <2>1, <2>2, <2>3
<1>3. \A u \in Threads, f \in Ids : Dropping(u, f)' <=> Dropping(u, f)
  BY DEF EntityTypeOK, Dropping
<1>4. DeadIsRecordedOnce'
  BY <1>3, DeadUnmoved
<1>. QED  BY <1>1, <1>2, <1>4, <1>5

LEMMA LoadStep ==
  ASSUME CountInv, NEW t \in Threads, NEW e \in Ids, Load(t, e)
  PROVE  CountInv'
<1> USE DEF CountInv, Load, boxes, handles
<1>1. EntityTypeOK'
  BY DEF EntityTypeOK, Steps
<1>5. HandlesCounted' /\ CountIsHandles'
  BY DEF HandlesCounted, CountIsHandles, HandlesTo
<1>2. ReleasedIsRemoved' /\ LeaseHoldsHandle' /\ DropNamesEntity' /\ CasIsLocked'
  <2>1. ReleasedIsRemoved' /\ LeaseHoldsHandle'
    BY DEF EntityTypeOK, ReleasedIsRemoved, LeaseHoldsHandle
  <2>2. DropNamesEntity'
    BY DEF EntityTypeOK, DropNamesEntity
  <2>3. CasIsLocked'
    BY DEF EntityTypeOK, CasIsLocked
  <2>. QED  BY <2>1, <2>2, <2>3
<1>3. \A u \in Threads, f \in Ids : Dropping(u, f)' <=> Dropping(u, f)
  BY DEF EntityTypeOK, Dropping
<1>4. DeadIsRecordedOnce'
  BY <1>3, DeadUnmoved
<1>. QED  BY <1>1, <1>2, <1>4, <1>5

LEMMA DropStep ==
  ASSUME CountInv, NEW t \in Threads, NEW h \in Handles, Drop(t, h)
  PROVE  CountInv'
<1>1. PICK e \in Ids : /\ target[h] = e /\ slot[e] = "counted"
                      /\ count[e] \in Nat /\ count[e] > 0
  BY LiveIsCounted DEF Drop, Owns
<1>2. /\ target' = [target EXCEPT ![h] = NoId]
      /\ count' = [count EXCEPT ![e] = @ - 1]
      /\ UNCHANGED <<slot, droppedIds, box, borrowed, owner, loaded>>
  BY <1>1 DEF Drop, boxes
<1>16. /\ pc[t] = "idle"
       /\ \/ /\ count[e] = 1
             /\ pc' = [pc EXCEPT ![t] = "last"] /\ arg' = [arg EXCEPT ![t] = e]
          \/ count[e] # 1 /\ pc' = pc /\ arg' = arg
  BY <1>1 DEF Drop
<1>3. HandlesTo(e)' = HandlesTo(e) \ {h} /\ h \in HandlesTo(e)
  BY <1>1, <1>2, HandlesLost DEF CountInv
<1>4. \A f \in Ids \ {e} : HandlesTo(f)' = HandlesTo(f)
  BY <1>1, <1>2, HandlesLost DEF CountInv
<1>5. IsFiniteSet(HandlesTo(e)) /\ Cardinality(HandlesTo(e)) = count[e]
  BY <1>1 DEF CountInv, HandlesCounted, CountIsHandles
<1>6. IsFiniteSet(HandlesTo(e)') /\ Cardinality(HandlesTo(e)') = count[e] - 1
  BY <1>3, <1>5, FS_RemoveElement
<1>7. EntityTypeOK'
  <2>1. count' \in [Ids -> Nat] /\ target' \in [Handles -> Ids \cup {NoId}]
    BY <1>1, <1>2 DEF CountInv, EntityTypeOK
  <2>2. pc' \in [Threads -> Steps] /\ arg' \in [Threads -> Ids \cup {NoId}]
    BY <1>1 DEF CountInv, EntityTypeOK, Drop, Steps
  <2>. QED  BY <1>2, <2>1, <2>2 DEF CountInv, EntityTypeOK
<1>8. CountIsHandles' /\ HandlesCounted'
  BY <1>1, <1>2, <1>4, <1>6 DEF CountInv, EntityTypeOK, CountIsHandles, HandlesCounted
<1>9. ReleasedIsRemoved'
  BY <1>2 DEF CountInv, ReleasedIsRemoved
<1>10. LeaseHoldsHandle'
  BY <1>2 DEF CountInv, EntityTypeOK, LeaseHoldsHandle, Drop, Borrowed
<1>11. CasIsLocked' /\ DropNamesEntity'
  <2>1. \A u \in Threads : \/ pc'[u] = pc[u] /\ arg'[u] = arg[u]
                           \/ pc'[u] = "last" /\ arg'[u] = e
    BY <1>16 DEF CountInv, EntityTypeOK
  <2>2. CasIsLocked'
    BY <1>2, <2>1 DEF CountInv, CasIsLocked
  <2>3. DropNamesEntity'
    BY <2>1 DEF CountInv, DropNamesEntity
  <2>. QED  BY <2>2, <2>3
<1>12. \A u \in Threads, f \in Ids : ~Dropping(u, f)
  BY DEF Drop, NoUpgradable, Dropping
<1>13. ~IsDropped(e)
  BY <1>1 DEF CountInv, DeadIsRecordedOnce
<1>14. CASE count[e] = 1
  <2>1. \A u \in Threads, f \in Ids : Dropping(u, f)' <=> (u = t /\ f = e)
    BY <1>1, <1>12, <1>14, <1>16 DEF CountInv, EntityTypeOK, Dropping
  <2>2. count'[e] = 0 /\ \A f \in Ids \ {e} : count'[f] = count[f]
    BY <1>1, <1>2, <1>14 DEF CountInv, EntityTypeOK
  <2>3. \A f \in Ids : IsDropped(f)' <=> IsDropped(f)
    BY <1>2 DEF IsDropped
  <2>. QED  BY <1>1, <1>2, <1>12, <1>13, <2>1, <2>2, <2>3, <1>7, <1>8, <1>9, <1>10, <1>11
            DEF CountInv, DeadIsRecordedOnce
<1>15. CASE count[e] # 1
  <2>1. \A u \in Threads, f \in Ids : Dropping(u, f)' <=> Dropping(u, f)
    BY <1>15, <1>16 DEF Dropping
  <2>2. count'[e] # 0 /\ \A f \in Ids \ {e} : count'[f] = count[f]
    BY <1>1, <1>2, <1>15 DEF CountInv, EntityTypeOK
  <2>3. \A f \in Ids : IsDropped(f)' <=> IsDropped(f)
    BY <1>2 DEF IsDropped
  <2>. QED  BY <1>1, <1>2, <1>12, <1>13, <2>1, <2>2, <2>3, <1>7, <1>8, <1>9, <1>10, <1>11
            DEF CountInv, DeadIsRecordedOnce
<1>. QED  BY <1>14, <1>15

LEMMA PushDroppedStep ==
  ASSUME CountInv, NEW t \in Threads, PushDropped(t)
  PROVE  CountInv'
<1> USE DEF CountInv, PushDropped, boxes, handles
<1>1. arg[t] \in Ids
  BY DEF DropNamesEntity
<1>2. EntityTypeOK'
  BY <1>1 DEF EntityTypeOK, Steps
<1>3. HandlesCounted' /\ CountIsHandles'
  BY DEF HandlesCounted, CountIsHandles, HandlesTo
<1>4. ReleasedIsRemoved' /\ LeaseHoldsHandle' /\ DropNamesEntity' /\ CasIsLocked'
  BY DEF EntityTypeOK, ReleasedIsRemoved, LeaseHoldsHandle, DropNamesEntity, CasIsLocked
<1>5. Dropping(t, arg[t]) /\ ~IsDropped(arg[t])
  BY <1>1 DEF Dropping, DeadIsRecordedOnce
<1>6. \A u \in Threads, f \in Ids : Dropping(u, f)' <=> Dropping(u, f) /\ u # t
  BY DEF EntityTypeOK, Dropping
<1>7. \A u \in Threads, f \in Ids : Dropping(u, f) => u = t /\ f = arg[t]
  BY <1>1, <1>5 DEF Dropping, DeadIsRecordedOnce
<1>8. /\ Len(droppedIds') = Len(droppedIds) + 1
      /\ \A i \in 1..Len(droppedIds) : droppedIds'[i] = droppedIds[i]
      /\ droppedIds'[Len(droppedIds) + 1] = arg[t]
      /\ Len(droppedIds) \in Nat
  BY <1>1 DEF EntityTypeOK
<1>9. \A f \in Ids : IsDropped(f)' <=> IsDropped(f) \/ f = arg[t]
  <2> SUFFICES ASSUME NEW f \in Ids
               PROVE  (\E i \in 1..Len(droppedIds') : droppedIds'[i] = f)
                        <=> (\E i \in 1..Len(droppedIds) : droppedIds[i] = f) \/ f = arg[t]
    BY DEF IsDropped
  <2>. QED  BY ONLY <1>8
<1>10. \A i, j \in 1..Len(droppedIds') : droppedIds'[i] = droppedIds'[j] => i = j
  <2>1. \A i, j \in 1..Len(droppedIds) : droppedIds[i] = droppedIds[j] => i = j
    BY DEF DeadIsRecordedOnce
  <2>2. \A i \in 1..Len(droppedIds) : droppedIds[i] # arg[t]
    BY <1>5 DEF IsDropped
  <2>. QED  BY ONLY <1>8, <2>1, <2>2
<1>11. DeadIsRecordedOnce'
  <2>1. UNCHANGED <<slot, count>>
    OBVIOUS
  <2>. QED  BY <2>1, <1>1, <1>5, <1>6, <1>7, <1>9, <1>10 DEF DeadIsRecordedOnce
<1>. QED  BY <1>2, <1>3, <1>4, <1>11

LEMMA TakeDroppedStep ==
  ASSUME CountInv, TakeDropped
  PROVE  CountInv'
<1> USE DEF CountInv, TakeDropped, handles, locals
<1>1. \A e \in Ids : IsDropped(e) => slot[e] = "counted" /\ HandlesTo(e) = {}
  BY DeadHasNoHandle DEF DeadIsRecordedOnce
<1>2. EntityTypeOK'
  BY DEF EntityTypeOK, Slots, Boxes
<1>3. \A e \in Ids : HandlesTo(e)' = HandlesTo(e)
  BY DEF HandlesTo
<1>4. HandlesCounted' /\ CountIsHandles'
  BY <1>1, <1>3 DEF HandlesCounted, CountIsHandles, EntityTypeOK
<1>5. ReleasedIsRemoved' /\ LeaseHoldsHandle' /\ DropNamesEntity'
  BY DEF EntityTypeOK, ReleasedIsRemoved, LeaseHoldsHandle, DropNamesEntity
<1>6. CasIsLocked'
  BY DEF CasIsLocked, CanWrite, NoReader
<1>7. \A t \in Threads, e \in Ids : ~Dropping(t, e) /\ ~Dropping(t, e)'
  BY DEF CanWrite, NoUpgradable, Dropping
<1>8. \A e \in Ids : ~IsDropped(e)'
  BY DEF IsDropped
<1>9. \A e \in Ids : ~(slot[e] = "counted" /\ count[e] = 0)'
  BY <1>7 DEF DeadIsRecordedOnce, EntityTypeOK
<1>10. DeadIsRecordedOnce'
  BY <1>7, <1>8, <1>9 DEF DeadIsRecordedOnce
<1>. QED  BY <1>2, <1>4, <1>5, <1>6, <1>10

(* The actions that leave the counts, the handles and the list alone. *)
LEMMA QuietStep ==
  ASSUME CountInv, UNCHANGED <<slot, count, droppedIds, target, loaded>>,
         \/ \E h \in Handles : InsertEntity(h) \/ Lease(h)
         \/ \E e \in Ids : EndLease(e)
         \/ \E t, u \in Threads, h \in Handles : Send(t, h, u)
         \/ \E t \in Threads : UpgradeLock(t)
         \/ UNCHANGED entityVars
  PROVE  CountInv'
<1> USE DEF CountInv, boxes, handles, locals
<1>1. /\ CountIsHandles' /\ HandlesCounted'
      /\ \A e \in Ids : HandlesTo(e)' = HandlesTo(e)
  BY DEF CountIsHandles, HandlesCounted, HandlesTo
<1>2. /\ \A t \in Threads : /\ pc'[t] = "cas" <=> pc[t] = "cas"
                            /\ pc'[t] \in {"last", "upgrade"} <=> pc[t] \in {"last", "upgrade"}
      /\ arg' = arg
  BY DEF InsertEntity, Lease, EndLease, Send, UpgradeLock, entityVars, EntityTypeOK
<1>3. CasIsLocked' /\ DropNamesEntity'
  BY <1>2 DEF CasIsLocked, DropNamesEntity
<1>4. \A t \in Threads, e \in Ids : Dropping(t, e)' <=> Dropping(t, e)
  BY <1>2 DEF Dropping
<1>5. DeadIsRecordedOnce'
  BY <1>4, DeadUnmoved
<1>6. EntityTypeOK' /\ ReleasedIsRemoved' /\ LeaseHoldsHandle'
  <2> USE DEF EntityTypeOK, ReleasedIsRemoved, LeaseHoldsHandle
  <2>1. ASSUME NEW h \in Handles, InsertEntity(h) \/ Lease(h)
        PROVE  EntityTypeOK' /\ ReleasedIsRemoved' /\ LeaseHoldsHandle'
    <3>1. PICK e \in Ids : e = target[h]
      BY <2>1 DEF InsertEntity, Lease, Owns, Live
    <3>2. CASE InsertEntity(h)
      BY <3>1, <3>2 DEF InsertEntity, Boxes
    <3>3. CASE Lease(h)
      BY <3>1, <3>3 DEF Lease, Boxes
    <3>. QED  BY <2>1, <3>2, <3>3
  <2>2. ASSUME NEW e \in Ids, EndLease(e)
        PROVE  EntityTypeOK' /\ ReleasedIsRemoved' /\ LeaseHoldsHandle'
    BY <2>2 DEF EndLease, Boxes
  <2>3. ASSUME NEW t \in Threads, NEW u \in Threads, NEW h \in Handles, Send(t, h, u)
        PROVE  EntityTypeOK' /\ ReleasedIsRemoved' /\ LeaseHoldsHandle'
    BY <2>3 DEF Send
  <2>4. ASSUME NEW t \in Threads, UpgradeLock(t)
        PROVE  EntityTypeOK' /\ ReleasedIsRemoved' /\ LeaseHoldsHandle'
    BY <2>4 DEF UpgradeLock, Steps
  <2>5. CASE UNCHANGED entityVars
    BY <2>5 DEF entityVars
  <2>. QED  BY <2>1, <2>2, <2>3, <2>4, <2>5
<1>. QED  BY <1>1, <1>3, <1>5, <1>6

-----------------------------------------------------------------------------
LEMMA CountInitial == EntityInit => CountInv
<1> SUFFICES ASSUME EntityInit PROVE CountInv
  OBVIOUS
<1> USE DEF EntityInit
<1>1. EntityTypeOK
  BY MainAssumption DEF EntityTypeOK, Slots, Boxes, Steps
<1>2. \A e \in Ids : HandlesTo(e) = {}
  BY NoneAssumption DEF HandlesTo
<1>3. HandlesCounted /\ CountIsHandles
  BY <1>2, FS_EmptySet DEF HandlesCounted, CountIsHandles
<1>4. ReleasedIsRemoved /\ LeaseHoldsHandle /\ CasIsLocked /\ DropNamesEntity
  BY DEF ReleasedIsRemoved, LeaseHoldsHandle, CasIsLocked, DropNamesEntity
<1>5. DeadIsRecordedOnce
  BY DEF DeadIsRecordedOnce, Dropping, IsDropped
<1>. QED  BY <1>1, <1>3, <1>4, <1>5 DEF CountInv

LEMMA CountInductive == CountInv /\ [EntityNext]_entityVars => CountInv'
<1> SUFFICES ASSUME CountInv, [EntityNext]_entityVars PROVE CountInv'
  OBVIOUS
<1>1. CASE UNCHANGED entityVars
  BY <1>1, QuietStep DEF entityVars
<1>2. ASSUME NEW h \in Handles, InsertEntity(h) \/ Lease(h) PROVE CountInv'
  BY <1>2, QuietStep DEF InsertEntity, Lease, handles, locals
<1>3. ASSUME NEW e \in Ids, EndLease(e) PROVE CountInv'
  BY <1>3, QuietStep DEF EndLease, handles, locals
<1>4. ASSUME NEW t \in Threads, NEW u \in Threads, NEW h \in Handles, Send(t, h, u) PROVE CountInv'
  BY <1>4, QuietStep DEF Send, locals
<1>5. ASSUME NEW t \in Threads, UpgradeLock(t) PROVE CountInv'
  BY <1>5, QuietStep DEF UpgradeLock, handles
<1>. QED  BY <1>1, <1>2, <1>3, <1>4, <1>5, ReserveStep, CloneStep, DropStep, PushDroppedStep,
             LoadStep, ExchangeStep, RetryStep, TakeDroppedStep DEF EntityNext

(* What the counts, the handles and the list say of each other holds of    *)
(* every state of the map, at any point of a drop or an upgrade.           *)
THEOREM CountInvariance == EntitySpec => []CountInv
  BY CountInitial, CountInductive, PTL DEF EntitySpec

(* The state of the map and of the threads in it keeps its type: the       *)
(* unsigned count of an entity never falls below zero.                     *)
THEOREM CountTypeCorrect == EntitySpec => []EntityTypeOK
<1>1. CountInv => EntityTypeOK
  BY DEF CountInv
<1>. QED  BY CountInvariance, <1>1, PTL

(* No race between clone, drop and upgrade ever loses a count. *)
THEOREM CountsAreExact == EntitySpec => []CountIsHandles
<1>1. CountInv => CountIsHandles
  BY DEF CountInv
<1>. QED  BY CountInvariance, <1>1, PTL

(* An entity with a live handle is counted and has not been released. *)
THEOREM HandlesKeepEntities == EntitySpec => []HandleKeepsEntity
<1>1. CountInv => HandleKeepsEntity
  <2> SUFFICES ASSUME CountInv, NEW h \in Handles, Live(h)
               PROVE  /\ slot[target[h]] = "counted"
                      /\ count[target[h]] > 0
                      /\ box[target[h]] # "released"
    BY DEF HandleKeepsEntity
  <2>. QED  BY LiveIsCounted DEF CountInv, ReleasedIsRemoved
<1>. QED  BY CountInvariance, <1>1, PTL

(* The list of dropped ids holds the dead entities, each once. *)
THEOREM DeadAreRecordedOnce == EntitySpec => []DeadIsRecordedOnce
<1>1. CountInv => DeadIsRecordedOnce
  BY DEF CountInv
<1>. QED  BY CountInvariance, <1>1, PTL

(* No action gives a handle to an entity that has lost its last one. *)
THEOREM DeadStayDead == EntitySpec => NoResurrection
<1> DEFINE Stays == \A e \in Ids : slot[e] # "unused" /\ HandlesTo(e) = {}
                                      => HandlesTo(e)' = {}
<1>1. CountInv /\ [EntityNext]_entityVars => [Stays]_entityVars
  <2> SUFFICES ASSUME CountInv, EntityNext, NEW e \in Ids, slot[e] # "unused", HandlesTo(e) = {}
               PROVE  HandlesTo(e)' = {}
    OBVIOUS
  <2>1. ASSUME NEW h \in Handles, NEW f \in Ids, Reserve(h, f) PROVE HandlesTo(e)' = {}
    <3>1. e # f /\ target' = [target EXCEPT ![h] = f]
      BY <2>1 DEF Reserve, Make
    <3>. QED  BY <3>1 DEF HandlesTo, CountInv, EntityTypeOK
  <2>2. ASSUME NEW t \in Threads, NEW h \in Handles, NEW new \in Handles, Clone(t, h, new)
        PROVE  HandlesTo(e)' = {}
    <3>1. e # target[h] /\ target' = [target EXCEPT ![new] = target[h]]
      BY <2>2 DEF Clone, Make, HandlesTo
    <3>. QED  BY <3>1 DEF HandlesTo, CountInv, EntityTypeOK
  <2>3. ASSUME NEW t \in Threads, NEW h \in Handles, Exchange(t, h) PROVE HandlesTo(e)' = {}
    <3>1. target' = [target EXCEPT ![h] = arg[t]]
      BY <2>3 DEF Exchange, Make
    <3>2. slot[arg[t]] = "counted" /\ count[arg[t]] # 0 /\ arg[t] \in Ids
      BY <2>3 DEF Exchange, CountInv, CasIsLocked
    <3>3. arg[t] # e
      BY <3>2, DeadHasNoHandle
    <3>. QED  BY <3>1, <3>3 DEF HandlesTo, CountInv, EntityTypeOK
  <2>4. ASSUME NEW t \in Threads, NEW h \in Handles, Drop(t, h) PROVE HandlesTo(e)' = {}
    BY <2>4, NoneAssumption DEF Drop, HandlesTo, CountInv, EntityTypeOK
  <2>5. CASE UNCHANGED target
    BY <2>5 DEF HandlesTo
  <2>. QED  BY <2>1, <2>2, <2>3, <2>4, <2>5
            DEF EntityNext, InsertEntity, Lease, EndLease, Send, UpgradeLock, PushDropped, Load, Retry,
                TakeDropped, handles
<1>. QED  BY CountInvariance, <1>1, PTL DEF EntitySpec, NoResurrection
=============================================================================
