------------------------------- MODULE Keymap --------------------------------
(***************************************************************************)
(* The keymap (crates/gpui/src/keymap.rs) and the matching of multi-stroke *)
(* input with it (DispatchTree in key_dispatch.rs), as functions.          *)
(*                                                                         *)
(* A keymap is a sequence of bindings, in the order they were added.  A    *)
(* binding has its keystrokes, the depth at which its predicate matches    *)
(* the contexts of each focus it matches at all, what it does, and its     *)
(* meta: the higher, the weaker the source it is from.                     *)
(***************************************************************************)
EXTENDS Naturals, Sequences, FiniteSets, FiniteSetsExt, SequencesExt

(* What a binding does: <<"act", a>>, <<"none">> or <<"unbind", a>>. *)
NoAction == <<"none">>
IsAction(does) == does[1] = "act"

(* binding_enabled *)
Enabled(b, focus) == focus \in DOMAIN b.depth

Exact(map, input, focus) == {i \in DOMAIN map : Enabled(map[i], focus) /\ map[i].keys = input}
Longer(map, input, focus) ==
  {i \in DOMAIN map : Enabled(map[i], focus) /\ IsStrictPrefix(input, map[i].keys)}

(* Deeper in the tree, or as deep and added later. *)
Outranks(map, i, j, focus) ==
  \/ map[i].depth[focus] > map[j].depth[focus]
  \/ map[i].depth[focus] = map[j].depth[focus] /\ i > j

(* A NoAction hides what it outranks, unless that is from a stronger source, *)
Hidden(map, i, input, focus) ==
  \E j \in Exact(map, input, focus) :
    map[j].does = NoAction /\ Outranks(map, j, i, focus) /\ map[i].meta >= map[j].meta

(* and an Unbind the one action that it names. *)
Unbound(map, i, input, focus) ==
  \E j \in Exact(map, input, focus) :
    /\ map[j].does = <<"unbind", map[i].does[2]>> /\ Outranks(map, j, i, focus)
    /\ ~Hidden(map, j, input, focus)

(* bindings_for_input: what it returns first, *)
Bindings(map, input, focus) ==
  {i \in Exact(map, input, focus) :
     IsAction(map[i].does) /\ ~Hidden(map, i, input, focus) /\ ~Unbound(map, i, input, focus)}

First(map, found, focus) == CHOOSE i \in found : \A j \in found \ {i} : Outranks(map, i, j, focus)

(* and second: a longer binding, added after the one that matches, that is *)
(* not disabled by one added later.                                        *)
Pends(map, input, focus) ==
  LET found == Bindings(map, input, focus)
      ahead == {i \in Longer(map, input, focus) : found = {} \/ First(map, found, focus) <= i} IN
    \E i \in ahead : \A j \in ahead : j >= i /\ map[j].keys = map[i].keys => IsAction(map[j].does)

-----------------------------------------------------------------------------
(* Keystrokes are numbered as they are typed; of[n] is the key of n.       *)
Input(ids, of) == [i \in DOMAIN ids |-> of[ids[i]]]
After(ids, n) == SubSeq(ids, n + 1, Len(ids))

(* replay_prefix: how many keystrokes the next replay stands for. *)
ReplayLength(map, input, focus) ==
  Max({1} \cup {n \in 1..Len(input) : Bindings(map, SubSeq(input, 1, n), focus) # {}})

(* flush_dispatch: the replays, each with the keystrokes it stands for. *)
Flush(map, ids, of, focus) ==
  LET from[i \in 0..Len(ids)] ==
        IF i = Len(ids) THEN <<>>
        ELSE LET n == ReplayLength(map, Input(After(ids, i), of), focus) IN
               <<SubSeq(ids, i + 1, i + n)>> \o from[i + n]
  IN from[0]

(* dispatch_key: keystroke id after those that were pending.  It is to be  *)
(* taken, with the keystrokes of the binding it completes, or else pends.  *)
DispatchKey(map, ids, id, of, focus) ==
  LET from[i \in 0..Len(ids)] ==
        LET all == Append(After(ids, i), id)
            found == Bindings(map, Input(all, of), focus) # {} IN
          IF Pends(map, Input(all, of), focus)
          THEN [replays |-> <<>>, pending |-> all, bound |-> found, taken |-> <<>>]
          ELSE IF found \/ Len(all) = 1
          THEN [replays |-> <<>>, pending |-> <<>>, bound |-> found, taken |-> all]
          ELSE LET n == ReplayLength(map, Input(After(ids, i), of), focus) IN
                 [from[i + n] EXCEPT !.replays = <<SubSeq(ids, i + 1, i + n)>> \o @]
  IN from[0]
=============================================================================
