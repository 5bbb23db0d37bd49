------------------------ MODULE MCSuggestionMachine ------------------------
(* Small instances of SuggestionMachine for TLC. *)
EXTENDS SuggestionRefinement, TLC

CONSTANTS f1, f2

FieldSymmetry == Permutations(Fields)

\* One field of each insertion strategy that behaves differently, and a field
\* that may not show anything.
MCCaps ==
    {[mode |-> "Inline",  strategy |-> "AxSet"],
     [mode |-> "Popup",   strategy |-> "NativeRangeSet"],
     [mode |-> "Inline",  strategy |-> "SyntheticKeys"],
     [mode |-> "Blocked", strategy |-> "AxSet"]}

MCTexts == {<<>>, <<"w", "s">>}
MCLists == {<<1>>, <<2, 1>>}
MCSpans == {<<0, 1>>}
=============================================================================
