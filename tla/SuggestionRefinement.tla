----------------------- MODULE SuggestionRefinement -----------------------
(* SuggestionMachine implements SuggestionContract. *)
EXTENDS SuggestionMachine

waitingKind == IF requested = None THEN "none" ELSE requested.kind

visibleKind == IF showing = None THEN "none" ELSE showing.presentation

Contract == INSTANCE SuggestionContract
                WITH epoch <- snapshot, waiting <- waitingKind,
                     visible <- visibleKind

\* Every behaviour of the machine is one the contract allows: no event ends an
\* epoch halfway, no answer shows after its epoch, no completion is requested
\* behind a visible suggestion.
ImplementsContract == Contract!Spec

=============================================================================
