---------------------------- MODULE FieldTracker ----------------------------
(***************************************************************************)
(* The host's memory of a field (app/src/wiring.rs): the text read last,   *)
(* and the classification of the next read as typing or as a mere move.   *)
(* A text is a sequence of characters and the caret is at its end.         *)
(***************************************************************************)
EXTENDS Naturals, Sequences, FiniteSetsExt, SequencesExt

CONSTANTS Fields, NoField

VARIABLES
    baseline,      \* the text read last and its field, or NoBaseline
    resync         \* the next read is the echo of an edit of the host

trackerVars == <<baseline, resync>>

NoBaseline == [field |-> NoField, text |-> <<>>]

\* An edit reads as an insertion when a middle part of the new text, taken
\* out, leaves the old one; the part is found by the longest common prefix.
InsertedText(old, new) ==
    LET prefix == Max({n \in 0..Len(old) : n <= Len(new) /\ IsPrefix(SubSeq(old, 1, n), new)})
        rest == SubSeq(old, prefix + 1, Len(old))
        tail == SubSeq(new, prefix + 1, Len(new))
    IN  IF Len(new) > Len(old) /\ IsSuffix(rest, tail)
        THEN SubSeq(tail, 1, Len(new) - Len(old))
        ELSE <<>>

Known(f) == baseline.field = f

\* What a read of text in field f is: the echo of an own edit and an unchanged
\* text are moves; what was inserted is known only against a baseline.
IsMove(f, text) == Known(f) /\ (resync \/ baseline.text = text)
Inserted(f, text) == IF Known(f) THEN InsertedText(baseline.text, text) ELSE <<>>

Observe(f, text) ==
    /\ baseline' = [field |-> f, text |-> text]
    /\ resync' = FALSE

ResetTracker ==
    /\ baseline' = NoBaseline
    /\ resync' = FALSE

\* Mutant: the next read is compared with the text that was meant.
AdvanceBaseline(f, written) ==
    /\ baseline' = IF Known(f) THEN [baseline EXCEPT !.text = @ \o written] ELSE baseline
    /\ UNCHANGED resync

\* The baseline takes the text the host means to have written.
ApplySelfInsert(f, written) ==
    IF Known(f) /\ written # <<>>
    THEN /\ baseline' = [baseline EXCEPT !.text = @ \o written]
         /\ resync' = TRUE
    ELSE UNCHANGED trackerVars

InitTracker == baseline = NoBaseline /\ resync = FALSE
=============================================================================
