---------------------------- MODULE MCUiActions ----------------------------
(* Small instances of UiActions for TLC.                                       *)
EXTENDS UiActions, TLC
CONSTANTS f1, f2, s1, e1, a1
OneFlow    == {f1}
TwoFlows   == {f1, f2}
OneSession == {s1}
Element    == {e1}
Named      == {a1}
Nobody     == {}
\* The two agent loops are interchangeable: no property tells them apart.
Swap       == Permutations({f1, f2})
Both       == {e1, a1}
============================================================================
