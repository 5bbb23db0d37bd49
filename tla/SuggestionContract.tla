------------------------ MODULE SuggestionContract ------------------------
(***************************************************************************)
(* What the suggestion core promises its host, without how: time is cut    *)
(* into epochs by the events that invalidate the text; a request and a     *)
(* visible suggestion live inside one epoch and the end of the epoch takes *)
(* both away.  Within an epoch a suggestion appears only as the answer to  *)
(* the one request outstanding, which it uses up, or as a local offer,     *)
(* which cancels the request; a completion is never asked for while        *)
(* something is visible.                                                   *)
(***************************************************************************)
EXTENDS Integers

VARIABLES
    epoch,       \* which stretch of unchanged text this is
    waiting,     \* the kind of the request outstanding, or "none"
    visible      \* the kind of suggestion on screen, or "none"

vars == <<epoch, waiting, visible>>

Kinds == {"Completion", "GrammarFix"}

Presentations == {"Ghost", "Correction", "SelectionReplacement"}

PresentationOf(kind) == IF kind = "Completion" THEN "Ghost" ELSE "Correction"

Init == epoch = 0 /\ waiting = "none" /\ visible = "none"

EndEpoch ==
    /\ epoch' = epoch + 1
    /\ waiting' = "none" /\ visible' = "none"

RequestCompletion ==
    /\ waiting = "none" /\ visible = "none"
    /\ waiting' = "Completion"
    /\ UNCHANGED <<epoch, visible>>

\* A grammar check asked for by hand takes the place of whatever was in flight.
RequestCorrection ==
    /\ waiting' = "GrammarFix"
    /\ UNCHANGED <<epoch, visible>>

Answered ==
    /\ waiting \in Kinds
    /\ waiting' = "none"
    /\ visible' \in {visible, PresentationOf(waiting)}
    /\ UNCHANGED epoch

Offer ==
    /\ visible' \in {"Ghost", "SelectionReplacement"}
    /\ waiting' = "none"
    /\ UNCHANGED epoch

Hide ==
    /\ visible # "none"
    /\ visible' = "none"
    /\ UNCHANGED <<epoch, waiting>>

Next ==
    \/ EndEpoch
    \/ RequestCompletion \/ RequestCorrection \/ Answered
    \/ Offer \/ Hide

Spec == Init /\ [][Next]_vars

=============================================================================
