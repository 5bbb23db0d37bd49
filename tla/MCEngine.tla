------------------------------ MODULE MCEngine ------------------------------
(* A small instance of Engine for TLC. *)
EXTENDS Engine, TLC

CONSTANTS f1, f2

FieldSymmetry == Permutations(Fields)

\* A field written atomically, one written by synthetic keys, and one that may
\* show nothing.
MCCaps ==
    {[mode |-> "Popup",   strategy |-> "NativeRangeSet"],
     [mode |-> "Inline",  strategy |-> "SyntheticKeys"],
     [mode |-> "Blocked", strategy |-> "AxSet"]}

MCTexts == {<<"w">>}
MCLists == {<<2, 1>>}
MCSpans == {<<0, 1>>}
=============================================================================
