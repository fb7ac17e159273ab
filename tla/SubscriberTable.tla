-------------------------- MODULE SubscriberTable --------------------------
(***************************************************************************)
(* The map inside a SubscriberSet (crates/gpui/src/subscription.rs) and    *)
(* the operations on it, as functions on its value.                        *)
(*                                                                         *)
(* BTreeMap<EmitterKey, Option<BTreeMap<usize, Subscriber>>>: a key is     *)
(* absent, taken (None, while a retain over it runs the callbacks) or      *)
(* present with its subscribers.  The active and dropped flags of a        *)
(* subscriber are shared cells, kept by the modules that use this one.     *)
(***************************************************************************)
CONSTANTS Keys, Subscribers

Entries == {"absent", "taken", "present"}
Tables == [entry : [Keys -> Entries], subs : [Keys -> SUBSET Subscribers]]

EmptyTable == [entry |-> [k \in Keys |-> "absent"], subs |-> [k \in Keys |-> {}]]

Present(tab, k) == tab.entry[k] = "present"

Set(tab, k, entry, subs) ==
  [tab EXCEPT !.entry[k] = entry, !.subs[k] = subs]

(* insert: entry().or_default().get_or_insert_with(): a taken or absent    *)
(* key gets a fresh map.                                                   *)
Inserted(tab, k, s) == Set(tab, k, "present", tab.subs[k] \cup {s})

(* A subscription that is dropped leaves a map that is present, and an     *)
(* emptied map leaves the table.  A taken key is not touched.              *)
Unsubscribed(tab, k, s) ==
  IF ~Present(tab, k) THEN tab
  ELSE IF tab.subs[k] \subseteq {s} THEN Set(tab, k, "absent", {})
  ELSE Set(tab, k, "present", tab.subs[k] \ {s})

(* retain takes the map out, leaving None ... *)
Taken(tab, k) == Set(tab, k, "taken", {})

(* Mutant of PutBack: overwrites what was inserted meanwhile. *)
PutBackOver(tab, k, kept) ==
  IF kept = {} THEN Set(tab, k, "absent", {}) ELSE Set(tab, k, "present", kept)

(* ... and puts what it kept back, with what was inserted meanwhile. *)
PutBack(tab, k, kept) ==
  IF kept \cup tab.subs[k] = {} THEN Set(tab, k, "absent", {})
  ELSE Set(tab, k, "present", kept \cup tab.subs[k])

(* remove *)
Removed(tab, k) == Set(tab, k, "absent", {})
=============================================================================
