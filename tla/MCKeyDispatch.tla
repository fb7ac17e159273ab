---------------------------- MODULE MCKeyDispatch ----------------------------
(* KeyDispatch on a small instance: two focuses of one context each, with  *)
(* bindings that continue, disable, unbind and outrank each other.         *)
EXTENDS KeyDispatch

CONSTANTS a, b, f1, f2

Anywhere == [f \in {f1, f2, NoFocus} |-> IF f = NoFocus THEN 0 ELSE 1]
In(f) == [g \in {f} |-> 1]
Binding(keys, depth, does, meta) == [keys |-> keys, depth |-> depth, does |-> does, meta |-> meta]

Short == Binding(<<a>>, Anywhere, <<"act", "x">>, 0)
Middle == Binding(<<a, b>>, In(f1), <<"act", "x">>, 1)
Long == Binding(<<a, b, b>>, Anywhere, <<"act", "y">>, 0)
Null == Binding(<<a, b>>, Anywhere, NoAction, 1)
NotX == Binding(<<a>>, In(f1), <<"unbind", "x">>, 0)

Maps == {<<Short, Middle, Long>>, <<Long, Middle, Null>>, <<Short, NotX, Middle>>}
Pool == {Long, Null}
=============================================================================
