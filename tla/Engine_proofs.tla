--------------------------- MODULE Engine_proofs ---------------------------
(***************************************************************************)
(* Theorems about SuggestionMachine, and about Engine, which extends it,   *)
(* for every value of their constants.  First the machine on its own.      *)
(***************************************************************************)
EXTENDS Engine, SuggestionRefinement, TLAPS

USE MachineAssumption, NoneAssumption
USE DEF CancelPending, Disarm, Reshow, Moved, DeletesLeftOfCaret

\* The text of a field that has just taken the focus.
LEMMA NoText == <<>> \in Seq({"w", "s"})
OBVIOUS

\* What Present puts on screen is a suggestion with a current candidate.
LEMMA HelperTypes ==
    ASSUME TypeOK, NEW f \in Fields, NEW list \in Seq(Words), list # <<>>,
           NEW left \in Nat, NEW span \in (Nat \X Nat) \cup {None},
           NEW p \in {"Ghost", "Correction", "SelectionReplacement"}
    PROVE  /\ NewShowing(f, list, left, p, span) \in Suggestion
           /\ NewShowing(f, list, left, p, span).index
                \in DOMAIN NewShowing(f, list, left, p, span).candidates
<1>1. snapshot \in Snapshots /\ caret \in Nat
  BY DEF TypeOK
<1>2. DOMAIN list = 1 .. Len(list) /\ Len(list) \in Nat \ {0}
  BY Len(list) \in Nat
<1>3. 1 \in DOMAIN list
  BY <1>2
<1>4. NewShowing(f, list, left, p, span) \in Suggestion
  BY <1>1 DEF NewShowing, Suggestion, Words
<1> QED
  BY <1>3, <1>4 DEF NewShowing

\* What a partial accept leaves on screen.
LEMMA RestIsSuggestion ==
    ASSUME TypeOK, AcceptWord, ~AcceptWhole
    PROVE  /\ showing # None /\ showing' \in Suggestion
           /\ showing'.index \in DOMAIN showing'.candidates
           /\ caret' \in Nat
<1> DEFINE tail == <<Current(showing) - 1>>
           at   == showing.caret + 1
           cut  == [showing EXCEPT !.candidates = tail]
           top  == [cut EXCEPT !.index = 1]
           rest == [top EXCEPT !.caret = at]
<1>1. /\ showing \in Suggestion /\ showing # None
      /\ Current(showing) \in Words \ {1}
      /\ showing' = rest /\ caret' = rest.caret
  BY DEF TypeOK, AcceptWord, IsAccepted, Current, Suggestion
<1>2. tail \in Seq(Words) /\ 1 \in DOMAIN tail /\ 1 \in Words /\ at \in Nat
  BY <1>1 DEF Words, Suggestion
<1> HIDE DEF tail, at
<1>3. rest \in Suggestion /\ rest.index \in DOMAIN rest.candidates
  BY <1>1, <1>2 DEF Suggestion
<1>4. rest.caret \in Nat
  BY <1>3 DEF Suggestion
<1> QED
  BY <1>1, <1>3, <1>4

\* What a rotation leaves on screen.
LEMMA RotationIsSuggestion ==
    ASSUME TypeOK, Cycle
    PROVE  IF showing = None THEN showing' = None
           ELSE /\ showing' \in Suggestion
                /\ showing'.index \in DOMAIN showing'.candidates
<1>1. CASE showing # None /\ Len(showing.candidates) > 1
  <2> DEFINE next == (showing.index % Len(showing.candidates)) + 1
  <2>1. /\ showing \in Suggestion
        /\ showing.index \in Nat
        /\ Len(showing.candidates) \in Nat \ {0}
    BY <1>1 DEF TypeOK, Suggestion, Words
  <2>2. next \in 1 .. Len(showing.candidates)
    BY <2>1
  <2>3. showing' = [showing EXCEPT !.index = next]
    BY <1>1 DEF Cycle
  <2> HIDE DEF next
  <2>4. next \in Words /\ next \in DOMAIN showing.candidates
    BY <2>1, <2>2 DEF Suggestion, Words
  <2>5. showing' \in Suggestion
    BY <2>1, <2>3, <2>4 DEF Suggestion
  <2>6. showing'.index \in DOMAIN showing'.candidates
    BY <2>1, <2>3, <2>4 DEF Suggestion
  <2> QED
    BY <1>1, <2>5, <2>6
<1>2. CASE ~(showing # None /\ Len(showing.candidates) > 1)
  BY <1>2 DEF TypeOK, Cycle
<1> QED
  BY <1>1, <1>2

\* The two halves of the type invariant's induction.
LEMMA TypeInit == Init => TypeOK
<1> SUFFICES ASSUME Init PROVE TypeOK
  OBVIOUS
<1>1. caps \in [mode : UxModes, strategy : Strategies]
  BY DEF Init, Unsupported, UxModes, Strategies
<1>2. value \in Seq({"w", "s"})
  BY NoText DEF Init
<1> QED
  BY <1>1, <1>2 DEF Init, TypeOK

\* Every handler keeps the types.
LEMMA TypeStep == TypeOK /\ [Next]_vars => TypeOK'
<1> SUFFICES ASSUME TypeOK, [Next]_vars PROVE TypeOK'
  OBVIOUS
<1>1. ASSUME NEW f \in Fields, NEW c \in CapSet, Focus(f, c) PROVE TypeOK'
  BY <1>1, NoText DEF TypeOK, Focus, Advance, HideSuperseded
<1>2. ASSUME NEW f \in Fields, NEW text \in Texts, NEW at \in Carets,
             NEW edit \in {"Insert", "Delete", "Unknown"},
             NEW trigger \in {"Automatic", "Manual"}, NEW t \in Times,
             TextChanged(f, text, at, edit, trigger, t)
      PROVE  TypeOK'
  BY <1>2 DEF TypeOK, TextChanged, Advance, HideSuperseded
<1>3. ASSUME NEW f \in Fields, NEW at \in Carets, CaretMoved(f, at)
      PROVE  TypeOK'
  BY <1>3 DEF TypeOK, CaretMoved, Advance, HideSuperseded, statVars
<1>4. ASSUME NEW c \in CapSet, SecureStateChanged(c) PROVE TypeOK'
  BY <1>4 DEF TypeOK, SecureStateChanged, Advance, HideSuperseded, textVars
<1>5. CASE DismissDiscard \/ DismissSuppress \/ Dismiss
  BY <1>5 DEF TypeOK, DismissDiscard, DismissSuppress, Dismiss, Advance,
              HideDismissed, textVars, statVars
<1>6. CASE ClearSelectionReplacement
  BY <1>6 DEF TypeOK, ClearSelectionReplacement, Advance, HideSuperseded, textVars
<1>7. ASSUME NEW t \in Times, Tick(t) PROVE TypeOK'
  BY <1>7 DEF TypeOK, Tick, Request, textVars, statVars
<1>8. ASSUME NEW f \in Fields, ArmGrammar(f) PROVE TypeOK'
  BY <1>8 DEF TypeOK, ArmGrammar, Request, textVars, statVars
<1>9. ASSUME NEW stamp \in Snapshots, NEW f \in Fields,
             NEW list \in Lists \cup {<<>>}, CompletionReady(stamp, f, list)
      PROVE  TypeOK'
  <2>1. CASE list = <<>>
    BY <1>9, <2>1 DEF TypeOK, CompletionReady, textVars, statVars
  <2>2. CASE list # <<>>
    <3>1. list \in Seq(Words)
      BY <2>2
    <3>2. Present(NewShowing(f, list, 0, "Ghost", None))
      BY <1>9, <2>2 DEF CompletionReady
    <3> QED
      BY <1>9, <2>2, <3>1, <3>2, HelperTypes
         DEF TypeOK, CompletionReady, Present, textVars
  <2> QED
    BY <2>1, <2>2
<1>10. ASSUME NEW stamp \in Snapshots, NEW f \in Fields, NEW words \in {0, 1},
              NEW span \in Spans, CorrectionReady(stamp, f, words, span)
       PROVE  TypeOK'
  <2>1. CASE ~(Enabled /\ ~suppressed /\ words > 0 /\ Atomic)
    BY <1>10, <2>1 DEF TypeOK, CorrectionReady, textVars, statVars
  <2>2. CASE Enabled /\ ~suppressed /\ words > 0 /\ Atomic
    <3> DEFINE list == <<words>>
    <3>1. list \in Seq(Words) /\ list # <<>>
      BY <2>2 DEF Words
    <3>2. Present(NewShowing(f, list, 0, "Correction", span))
      BY <1>10, <2>2 DEF CorrectionReady
    <3> HIDE DEF list
    <3> QED
      BY <1>10, <2>2, <3>1, <3>2, HelperTypes
         DEF TypeOK, CorrectionReady, Present, textVars
  <2> QED
    BY <2>1, <2>2
<1>11. ASSUME NEW f \in Fields, NEW list \in Lists, NEW left \in Carets,
              OfferReplacement(f, list, left)
       PROVE  TypeOK'
  <2> DEFINE span == IF caps.strategy = "NativeRangeSet"
                     THEN <<caret - left, caret>> ELSE None
  <2>1. span \in (Nat \X Nat) \cup {None}
    BY <1>11 DEF TypeOK, OfferReplacement
  <2>2. Present(NewShowing(f, list, left, "Ghost", span))
    BY <1>11 DEF OfferReplacement
  <2> HIDE DEF span
  <2> QED
    BY <1>11, <2>1, <2>2, HelperTypes DEF TypeOK, OfferReplacement, Present, textVars
<1>12. ASSUME NEW f \in Fields, NEW list \in Lists, NEW span \in Spans,
              OfferSelectionReplacement(f, list, span)
       PROVE  TypeOK'
  <2>1. Present(NewShowing(f, list, 0, "SelectionReplacement", span))
    BY <1>12 DEF OfferSelectionReplacement
  <2> QED
    BY <1>12, <2>1, HelperTypes
       DEF TypeOK, OfferSelectionReplacement, Present, textVars
<1>13. CASE AcceptWhole
  BY <1>13 DEF TypeOK, AcceptWhole, Advance, textVars, statVars
<1>14. CASE AcceptWord /\ ~AcceptWhole
  BY <1>14, RestIsSuggestion DEF TypeOK, AcceptWord, statVars
<1>15. CASE Cycle
  BY <1>15, RotationIsSuggestion DEF TypeOK, Cycle, textVars
<1>16. CASE ForceShow \/ TakeStatEvents
  BY <1>16 DEF TypeOK, ForceShow, TakeStatEvents, textVars
<1>17. CASE FailedShow
  BY <1>17 DEF TypeOK, FailedShow, CancelLastShown, textVars
<1>18. ASSUME NEW on \in BOOLEAN, SetAllowMidWord(on) PROVE TypeOK'
  BY <1>18 DEF TypeOK, SetAllowMidWord, textVars, statVars
<1>19. CASE Refused \/ UNCHANGED vars
  BY <1>19 DEF TypeOK, Refused, vars, textVars, statVars
<1> QED
  BY <1>1, <1>2, <1>3, <1>4, <1>5, <1>6, <1>7, <1>8, <1>9, <1>10, <1>11, <1>12,
     <1>13, <1>14, <1>15, <1>16, <1>17, <1>18, <1>19
     DEF Next, Boundary, Answer, HostCall, UserKey, Reconciliation, AcceptFull,
         AcceptCorrection

\* The machine's state keeps its type.
THEOREM TypeCorrect == Spec => []TypeOK
BY TypeInit, TypeStep, PTL DEF Spec

----------------------------------------------------------------------------
(* The safety invariants are inductive together, once one knows that the    *)
(* request in flight carries the current stamp.                             *)

RequestIsCurrent ==
    requested # None => requested.snapshot = snapshot /\ requested.field = field

Inductive ==
    /\ RequestIsCurrent
    /\ ShowingIsCurrent
    /\ OneSourceAtATime
    /\ SilencedIsQuiet
    /\ CompletionForCurrentText
    /\ ReplacementInBounds

\* Nothing is armed, requested or shown at first.
LEMMA InductiveInit == Init => Inductive
BY DEF Init, Inductive, RequestIsCurrent, ShowingIsCurrent, OneSourceAtATime,
       SilencedIsQuiet, CompletionForCurrentText,
       CompletionRequested, ReplacementInBounds

\* What ends a boundary leaves nothing behind that an invariant could be about.
LEMMA NothingLeftNext ==
    ASSUME pending' = None, requested' = None, showing' = None
    PROVE  Inductive'
BY DEF Inductive, RequestIsCurrent, ShowingIsCurrent, OneSourceAtATime,
       SilencedIsQuiet, CompletionForCurrentText,
       CompletionRequested, ReplacementInBounds

\* A suggestion that has just been presented, with nothing in flight.
LEMMA PresentedAlone ==
    ASSUME TypeOK, NEW f, NEW list \in Seq(Words), list # <<>>, NEW left \in Nat,
           NEW p \in {"Ghost", "Correction", "SelectionReplacement"},
           NEW span \in (Nat \X Nat) \cup {None},
           f \in Fields, f = field, Enabled, ~suppressed,
           p = "Ghost" /\ left > 0 =>
              /\ left <= caret /\ Atomic
              /\ caps.strategy = "NativeRangeSet" <=> span # None
              /\ span # None => span[2] = caret /\ caret <= Len(value),
           showing' = NewShowing(f, list, left, p, span),
           pending' = None, requested' = None,
           UNCHANGED <<caps, snapshot, textVars, suppressed>>
    PROVE  Inductive'
<1>1. Enabled' /\ (Atomic' <=> Atomic) /\ field' = field /\ caret' = caret /\ value' = value
  BY DEF Enabled, Atomic, textVars
<1>2. /\ showing'.field = f /\ showing'.caret = caret
      /\ showing'.snapshot = snapshot /\ showing'.replaceLeft = left
      /\ showing'.presentation = p /\ showing'.span = span
  BY DEF NewShowing
<1>3. ShowingIsCurrent'
  BY <1>1, <1>2 DEF ShowingIsCurrent
<1>4. ReplacementInBounds'
  BY <1>1, <1>2 DEF ReplacementInBounds
<1> QED
  BY <1>1, <1>3, <1>4
     DEF Inductive, RequestIsCurrent, OneSourceAtATime, SilencedIsQuiet, CompletionForCurrentText, CompletionRequested

\* A matching answer proves that its request is the current one.
LEMMA MatchedRequest ==
    ASSUME TypeOK, RequestIsCurrent, NEW stamp \in Snapshots, NEW f \in Fields,
           NEW kind \in {"Completion", "GrammarFix"}, MatchesRequest(stamp, f, kind)
    PROVE  requested # None /\ requested.kind = kind /\ field = f
<1>1. requested = [snapshot |-> stamp, field |-> f, kind |-> kind]
  BY DEF MatchesRequest
<1>2. requested \in Request
  BY <1>1 DEF Request
<1> QED
  BY <1>1, <1>2 DEF RequestIsCurrent

\* Every handler preserves the inductive invariant.
LEMMA InductiveStep == TypeOK /\ Inductive /\ [Next]_vars => Inductive'
<1> SUFFICES ASSUME TypeOK, Inductive, [Next]_vars PROVE Inductive'
  OBVIOUS
<1>1. ASSUME NEW f \in Fields, NEW c \in CapSet, Focus(f, c) PROVE Inductive'
  BY <1>1, NothingLeftNext DEF Focus, Advance, HideSuperseded
<1>2. ASSUME NEW f \in Fields, NEW text \in Texts, NEW at \in Carets,
             NEW edit \in {"Insert", "Delete", "Unknown"},
             NEW trigger \in {"Automatic", "Manual"}, NEW t \in Times,
             TextChanged(f, text, at, edit, trigger, t)
      PROVE  Inductive'
  <2>1. requested' = None /\ showing' = None /\ ~suppressed' /\ caps' = caps
    BY <1>2 DEF TextChanged, Advance, HideSuperseded
  <2>2. CASE pending' = None
    BY <2>1, <2>2, NothingLeftNext
  <2>3. CASE pending' # None
    <3>1. /\ Enabled /\ PassesGates(text, at, allowMid)
          /\ armed' = [field |-> f, value |-> text, caret |-> at, mid |-> allowMid]
          /\ field' = f /\ value' = text /\ caret' = at
      BY <1>2, <2>3 DEF TextChanged
    <3>2. CompletionForCurrentText'
      BY <2>1, <3>1 DEF CompletionForCurrentText
    <3> QED
      BY <2>1, <3>1, <3>2
         DEF Inductive, RequestIsCurrent, ShowingIsCurrent, OneSourceAtATime,
             SilencedIsQuiet, CompletionRequested,
             ReplacementInBounds, Enabled
  <2> QED
    BY <2>2, <2>3
<1>3. ASSUME NEW f \in Fields, NEW at \in Carets, CaretMoved(f, at)
      PROVE  Inductive'
  <2>1. CASE field # f \/ caret # at
    BY <1>3, <2>1, NothingLeftNext DEF CaretMoved, Advance, HideSuperseded
  <2>2. CASE ~(field # f \/ caret # at)
    BY <1>3, <2>2
       DEF CaretMoved, Inductive, RequestIsCurrent, ShowingIsCurrent,
           OneSourceAtATime, SilencedIsQuiet, Enabled, Atomic,
           CompletionForCurrentText, CompletionRequested, ReplacementInBounds
  <2> QED
    BY <2>1, <2>2
<1>4. ASSUME NEW c \in CapSet, SecureStateChanged(c) PROVE Inductive'
  BY <1>4, NothingLeftNext DEF SecureStateChanged, Advance, HideSuperseded
<1>5. CASE DismissDiscard \/ DismissSuppress
  BY <1>5, NothingLeftNext DEF DismissDiscard, DismissSuppress, Advance, HideDismissed
<1>6. CASE ClearSelectionReplacement
  <2>1. pending' = None
    BY <1>6 DEF Inductive, OneSourceAtATime, ClearSelectionReplacement
  <2> QED
    BY <1>6, <2>1, NothingLeftNext DEF ClearSelectionReplacement, Advance, HideSuperseded
<1>7. ASSUME NEW t \in Times, Tick(t) PROVE Inductive'
  BY <1>7
     DEF Tick, Inductive, RequestIsCurrent, ShowingIsCurrent, OneSourceAtATime,
         SilencedIsQuiet, Enabled, Atomic, textVars,
         CompletionForCurrentText, CompletionRequested, ReplacementInBounds
<1>8. ASSUME NEW f \in Fields, ArmGrammar(f) PROVE Inductive'
  BY <1>8
     DEF ArmGrammar, Inductive, RequestIsCurrent, ShowingIsCurrent, OneSourceAtATime,
         SilencedIsQuiet, Enabled, Atomic, textVars,
         CompletionForCurrentText, CompletionRequested, ReplacementInBounds
<1>9. ASSUME NEW stamp \in Snapshots, NEW f \in Fields,
             NEW list \in Lists \cup {<<>>}, CompletionReady(stamp, f, list)
      PROVE  Inductive'
  <2>1. /\ requested # None /\ requested' = None
        /\ field = f /\ pending = None /\ showing = None /\ Enabled /\ ~suppressed
    BY <1>9, MatchedRequest
       DEF CompletionReady, Inductive, OneSourceAtATime, CompletionRequested,
           SilencedIsQuiet
  <2>2. UNCHANGED <<caps, snapshot, textVars, suppressed, pending>>
    BY <1>9 DEF CompletionReady
  <2>3. CASE list = <<>>
    BY <1>9, <2>1, <2>2, <2>3, NothingLeftNext DEF CompletionReady
  <2>4. CASE list # <<>>
    <3>1. showing' = NewShowing(f, list, 0, "Ghost", None)
      BY <1>9, <2>4 DEF CompletionReady, Present
    <3>2. list \in Seq(Words)
      BY <2>4
    <3>3. pending' = None /\ UNCHANGED <<caps, snapshot, textVars, suppressed>>
      BY <2>1, <2>2
    <3>4. ~("Ghost" = "Ghost" /\ 0 > 0) /\ 0 \in Nat
      OBVIOUS
    <3> QED
      BY <2>1, <2>4, <3>1, <3>2, <3>3, <3>4, PresentedAlone
  <2> QED
    BY <2>3, <2>4
<1>10. ASSUME NEW stamp \in Snapshots, NEW f \in Fields, NEW words \in {0, 1},
              NEW span \in Spans, CorrectionReady(stamp, f, words, span)
       PROVE  Inductive'
  <2>1. /\ requested # None /\ requested' = None
        /\ field = f /\ pending = None
    BY <1>10, MatchedRequest DEF CorrectionReady, Inductive, OneSourceAtATime
  <2>2. UNCHANGED <<caps, snapshot, textVars, suppressed, pending>>
    BY <1>10 DEF CorrectionReady
  <2>3. CASE ~(Enabled /\ ~suppressed /\ words > 0 /\ Atomic)
    <3>1. showing' = showing
      BY <1>10, <2>3 DEF CorrectionReady
    <3> QED
      BY <2>1, <2>2, <3>1
         DEF Inductive, RequestIsCurrent, ShowingIsCurrent, OneSourceAtATime,
             SilencedIsQuiet, Enabled, Atomic, textVars,
             CompletionForCurrentText, CompletionRequested, ReplacementInBounds
  <2>4. CASE Enabled /\ ~suppressed /\ words > 0 /\ Atomic
    <3> DEFINE list == <<words>>
    <3>1. list \in Seq(Words) /\ list # <<>>
      BY <2>4 DEF Words
    <3>2. showing' = NewShowing(f, list, 0, "Correction", span)
      BY <1>10, <2>4 DEF CorrectionReady, Present
    <3> HIDE DEF list
    <3> QED
      BY <2>1, <2>2, <2>4, <3>1, <3>2, PresentedAlone
  <2> QED
    BY <2>3, <2>4
<1>11. ASSUME NEW f \in Fields, NEW list \in Lists, NEW left \in Carets,
              OfferReplacement(f, list, left)
       PROVE  Inductive'
  <2> DEFINE span == IF caps.strategy = "NativeRangeSet"
                     THEN <<caret - left, caret>> ELSE None
  <2>1. /\ span \in (Nat \X Nat) \cup {None}
        /\ caps.strategy = "NativeRangeSet" <=> span # None
        /\ span # None => span[2] = caret /\ caret <= Len(value)
        /\ left <= caret
    BY <1>11 DEF TypeOK, OfferReplacement
  <2>2. showing' = NewShowing(f, list, left, "Ghost", span)
    BY <1>11 DEF OfferReplacement, Present
  <2> HIDE DEF span
  <2> QED
    BY <1>11, <2>1, <2>2, PresentedAlone DEF OfferReplacement
<1>12. ASSUME NEW f \in Fields, NEW list \in Lists, NEW span \in Spans,
              OfferSelectionReplacement(f, list, span)
       PROVE  Inductive'
  <2>1. showing' = NewShowing(f, list, 0, "SelectionReplacement", span)
    BY <1>12 DEF OfferSelectionReplacement, Present
  <2> QED
    BY <1>12, <2>1, PresentedAlone DEF OfferSelectionReplacement
<1>13. CASE AcceptFull \/ AcceptCorrection \/ (AcceptWord /\ AcceptWhole)
  <2>1. AcceptWhole /\ showing # None
    BY <1>13 DEF AcceptFull, AcceptCorrection, AcceptWord, IsAccepted
  <2>2. pending' = None
    BY <2>1 DEF Inductive, OneSourceAtATime, AcceptWhole
  <2> QED
    BY <2>1, <2>2, NothingLeftNext DEF AcceptWhole, Advance
<1>14. CASE AcceptWord /\ ~AcceptWhole
  <2> DEFINE tail == <<Current(showing) - 1>>
             at   == showing.caret + 1
             cut  == [showing EXCEPT !.candidates = tail]
             top  == [cut EXCEPT !.index = 1]
  <2>1. /\ showing \in Suggestion /\ showing # None
        /\ showing' = [top EXCEPT !.caret = at]
        /\ caret' = showing'.caret
        /\ ~(showing.replaceLeft > 0)
    BY <1>14 DEF TypeOK, AcceptWord, IsAccepted
  <2> HIDE DEF tail, at
  <2>2. /\ showing'.field = showing.field /\ showing'.snapshot = showing.snapshot
        /\ showing'.replaceLeft = showing.replaceLeft
    BY <2>1 DEF Suggestion
  <2>3. UNCHANGED <<caps, allowMid, snapshot, field, value, pending, requested,
                    suppressed, armed>>
    BY <1>14 DEF AcceptWord
  <2>4. pending = None /\ ~CompletionRequested /\ Enabled /\ ~suppressed
    BY <2>1 DEF Inductive, OneSourceAtATime, SilencedIsQuiet
  <2>5. ReplacementInBounds'
    BY <2>1, <2>2 DEF ReplacementInBounds
  <2> QED
    BY <2>1, <2>2, <2>3, <2>4, <2>5
       DEF Inductive, RequestIsCurrent, ShowingIsCurrent, OneSourceAtATime,
           SilencedIsQuiet, Enabled,
           CompletionForCurrentText, CompletionRequested
<1>15. CASE Cycle
  <2>1. CASE showing # None /\ Len(showing.candidates) > 1
    <3> DEFINE next == (showing.index % Len(showing.candidates)) + 1
    <3>1. showing \in Suggestion /\ showing' = [showing EXCEPT !.index = next]
      BY <1>15, <2>1 DEF TypeOK, Cycle
    <3> HIDE DEF next
    <3>2. /\ showing'.field = showing.field /\ showing'.snapshot = showing.snapshot
          /\ showing'.caret = showing.caret /\ showing'.span = showing.span
          /\ showing'.replaceLeft = showing.replaceLeft
          /\ showing'.presentation = showing.presentation
      BY <3>1 DEF Suggestion
    <3>3. UNCHANGED <<caps, allowMid, snapshot, textVars, pending, requested,
                      suppressed, armed>>
      BY <1>15 DEF Cycle
    <3> QED
      BY <2>1, <3>2, <3>3
         DEF Inductive, RequestIsCurrent, ShowingIsCurrent, OneSourceAtATime,
             SilencedIsQuiet, Enabled, Atomic, textVars,
             CompletionForCurrentText, CompletionRequested, ReplacementInBounds
  <2>2. CASE ~(showing # None /\ Len(showing.candidates) > 1)
    BY <1>15, <2>2
       DEF Cycle, Inductive, RequestIsCurrent, ShowingIsCurrent, OneSourceAtATime,
           SilencedIsQuiet, Enabled, Atomic, textVars,
           CompletionForCurrentText, CompletionRequested, ReplacementInBounds
  <2> QED
    BY <2>1, <2>2
<1>16. CASE Dismiss \/ FailedShow
  BY <1>16
     DEF Dismiss, HideDismissed, FailedShow, Inductive, RequestIsCurrent,
         ShowingIsCurrent, OneSourceAtATime, SilencedIsQuiet,
         Enabled, Atomic, textVars, CompletionForCurrentText, CompletionRequested,
         ReplacementInBounds
<1>17. ASSUME UNCHANGED <<caps, snapshot, textVars, pending, requested, showing,
                          suppressed, armed>>
       PROVE  Inductive'
  BY <1>17
     DEF Inductive, RequestIsCurrent, ShowingIsCurrent, OneSourceAtATime,
         SilencedIsQuiet, Enabled, Atomic, textVars,
         CompletionForCurrentText, CompletionRequested, ReplacementInBounds
<1>18. CASE ForceShow \/ TakeStatEvents \/ Refused \/ UNCHANGED vars
  BY <1>17, <1>18 DEF ForceShow, TakeStatEvents, Refused, vars
<1>19. ASSUME NEW on \in BOOLEAN, SetAllowMidWord(on) PROVE Inductive'
  BY <1>17, <1>19 DEF SetAllowMidWord
<1>20. CASE Boundary
  BY <1>1, <1>2, <1>3, <1>4, <1>5, <1>6, <1>20 DEF Boundary
<1>21. CASE Answer
  BY <1>9, <1>10, <1>21 DEF Answer
<1>22. CASE HostCall
  BY <1>7, <1>8, <1>11, <1>12, <1>18, <1>19, <1>22 DEF HostCall
<1>23. CASE UserKey
  BY <1>13, <1>14, <1>15, <1>18, <1>23 DEF UserKey
<1> QED
  BY <1>16, <1>18, <1>20, <1>21, <1>22, <1>23 DEF Next, Reconciliation

\* The inductive invariant, which the theorems below are read off from.
LEMMA InvariantHolds == Spec => [](TypeOK /\ Inductive)
BY TypeInit, TypeStep, InductiveInit, InductiveStep, PTL DEF Spec

\* No suggestion outlives the field, caret or snapshot it was made for.
THEOREM SuggestionsAreCurrent == Spec => []ShowingIsCurrent
BY InvariantHolds, PTL DEF Inductive

\* The debounce, the model and the screen never overlap.
THEOREM SourcesAreExclusive == Spec => []OneSourceAtATime
BY InvariantHolds, PTL DEF Inductive

\* A silenced field is quiet: the reason on_completion_ready needs no check.
THEOREM SilenceIsQuiet == Spec => []SilencedIsQuiet
BY InvariantHolds, PTL DEF Inductive

\* A completion fires and comes back only for the text it was armed for.
THEOREM CompletionsFitTheText == Spec => []CompletionForCurrentText
BY InvariantHolds, PTL DEF Inductive

\* A replacement stays inside the text at whose caret it was offered.
THEOREM ReplacementsAreBounded == Spec => []ReplacementInBounds
BY InvariantHolds, PTL DEF Inductive

----------------------------------------------------------------------------
(* Action properties and the refinement of SuggestionContract.              *)

\* The fields of a new suggestion that the contract can see.
LEMMA NewShowingFields ==
    ASSUME TypeOK, NEW f \in Fields, NEW list \in Seq(Words), list # <<>>,
           NEW left \in Nat, NEW span \in (Nat \X Nat) \cup {None},
           NEW p \in {"Ghost", "Correction", "SelectionReplacement"}
    PROVE  /\ NewShowing(f, list, left, p, span) # None
           /\ NewShowing(f, list, left, p, span).presentation = p
           /\ NewShowing(f, list, left, p, span).field = f
           /\ NewShowing(f, list, left, p, span).snapshot = snapshot
<1>1. NewShowing(f, list, left, p, span) # None
  BY HelperTypes
<1> QED
  BY <1>1 DEF NewShowing

\* An answer leaves the screen alone or puts its own presentation there, and
\* either way uses up the current request.
LEMMA AnswerEffect ==
    ASSUME TypeOK, RequestIsCurrent, Answer
    PROVE  /\ requested \in Request /\ requested.snapshot = snapshot
           /\ requested' = None
           /\ UNCHANGED snapshot
           /\ \/ showing' = showing
              \/ /\ showing' # None
                 /\ showing'.field = requested.field
                 /\ showing'.snapshot = snapshot
                 /\ showing'.presentation = Contract!PresentationOf(requested.kind)
<1> DEFINE Effect(f, kind) ==
       /\ requested \in Request /\ requested.snapshot = snapshot
       /\ requested.field = f /\ requested.kind = kind
       /\ requested' = None /\ UNCHANGED snapshot
       /\ \/ showing' = showing
          \/ /\ showing' # None
             /\ showing'.field = f /\ showing'.snapshot = snapshot
             /\ showing'.presentation = Contract!PresentationOf(kind)
<1>1. ASSUME NEW stamp \in Snapshots, NEW f \in Fields,
             NEW kind \in {"Completion", "GrammarFix"}, MatchesRequest(stamp, f, kind)
      PROVE  /\ requested \in Request /\ requested.snapshot = snapshot
             /\ requested.field = f /\ requested.kind = kind
  <2>1. requested \in Request /\ requested.kind = kind /\ field = f
    BY <1>1, MatchedRequest DEF TypeOK
  <2> QED
    BY <1>1, <2>1, NoneAssumption DEF RequestIsCurrent
<1>2. ASSUME NEW stamp \in Snapshots, NEW f \in Fields,
             NEW list \in Lists \cup {<<>>}, CompletionReady(stamp, f, list)
      PROVE  Effect(f, "Completion")
  <2>1. requested' = None /\ UNCHANGED snapshot /\ MatchesRequest(stamp, f, "Completion")
    BY <1>2 DEF CompletionReady
  <2>2. CASE list = <<>>
    BY <1>1, <1>2, <2>1, <2>2 DEF CompletionReady
  <2>3. CASE list # <<>>
    <3>1. showing' = NewShowing(f, list, 0, "Ghost", None) /\ list \in Seq(Words)
      BY <1>2, <2>3 DEF CompletionReady, Present
    <3>2. /\ showing' # None /\ showing'.field = f /\ showing'.snapshot = snapshot
          /\ showing'.presentation = "Ghost"
      BY <2>3, <3>1, NewShowingFields
    <3> QED
      BY <1>1, <2>1, <3>2 DEF Contract!PresentationOf
  <2> QED
    BY <2>2, <2>3
<1>3. ASSUME NEW stamp \in Snapshots, NEW f \in Fields, NEW words \in {0, 1},
             NEW span \in Spans, CorrectionReady(stamp, f, words, span)
      PROVE  Effect(f, "GrammarFix")
  <2>1. requested' = None /\ UNCHANGED snapshot /\ MatchesRequest(stamp, f, "GrammarFix")
    BY <1>3 DEF CorrectionReady
  <2>2. CASE ~(Enabled /\ ~suppressed /\ words > 0 /\ Atomic)
    BY <1>1, <1>3, <2>1, <2>2 DEF CorrectionReady
  <2>3. CASE Enabled /\ ~suppressed /\ words > 0 /\ Atomic
    <3> DEFINE list == <<words>>
    <3>1. list \in Seq(Words) /\ list # <<>>
      BY <2>3 DEF Words
    <3>2. showing' = NewShowing(f, list, 0, "Correction", span)
      BY <1>3, <2>3 DEF CorrectionReady, Present
    <3> HIDE DEF list
    <3>3. /\ showing' # None /\ showing'.field = f /\ showing'.snapshot = snapshot
          /\ showing'.presentation = "Correction"
      BY <3>1, <3>2, NewShowingFields
    <3> QED
      BY <1>1, <2>1, <3>3 DEF Contract!PresentationOf
  <2> QED
    BY <2>2, <2>3
<1> QED
  BY <1>2, <1>3 DEF Answer

\* One answer per request, and only a request's own answer reaches the screen.
THEOREM AnswersAreUsedOnce == Spec => AnswerUsedOnce
<1>1. ASSUME TypeOK, Inductive, Answer, showing' # showing
      PROVE  /\ requested # None /\ requested' = None
             /\ showing'.snapshot = requested.snapshot
             /\ showing'.field = requested.field
  BY <1>1, AnswerEffect DEF Inductive
<1> QED
  BY <1>1, InvariantHolds, PTL DEF Spec, AnswerUsedOnce

\* The machine starts where the contract does.
LEMMA RefinesInit == Init => Contract!Init
BY DEF Init, Contract!Init, waitingKind, visibleKind

\* The two shapes most handlers have on the contract's level.
LEMMA EndsEpoch ==
    ASSUME Advance, showing' = None
    PROVE  Contract!EndEpoch
BY DEF Advance, Contract!EndEpoch, waitingKind, visibleKind

\* A handler that touches neither request nor suggestion is invisible.
LEMMA Stutters ==
    ASSUME UNCHANGED <<snapshot, requested, showing>>
    PROVE  UNCHANGED Contract!vars
BY DEF Contract!vars, waitingKind, visibleKind

\* A handler that only takes the suggestion away.
LEMMA Hides ==
    ASSUME UNCHANGED <<snapshot, requested>>, showing' = None
    PROVE  Contract!Hide \/ UNCHANGED Contract!vars
BY DEF Contract!Hide, Contract!vars, waitingKind, visibleKind

\* Every handler is a step of the contract or invisible to it.
LEMMA RefinesStep ==
    TypeOK /\ Inductive /\ [Next]_vars => [Contract!Next]_(Contract!vars)
<1> SUFFICES ASSUME TypeOK, Inductive, [Next]_vars
             PROVE  Contract!Next \/ UNCHANGED Contract!vars
  OBVIOUS
<1> USE DEF Contract!Next
<1>1. CASE Boundary
  BY <1>1, EndsEpoch, Stutters
     DEF Boundary, Focus, TextChanged, CaretMoved, SecureStateChanged, DismissDiscard,
         DismissSuppress, ClearSelectionReplacement, HideSuperseded, HideDismissed
<1>2. CASE Answer
  <2>1. /\ requested \in Request /\ requested' = None /\ UNCHANGED snapshot
        /\ \/ showing' = showing
           \/ /\ showing' # None
              /\ showing'.presentation = Contract!PresentationOf(requested.kind)
    BY <1>2, AnswerEffect DEF Inductive
  <2>2. waitingKind = requested.kind /\ waitingKind \in Contract!Kinds
    BY <2>1 DEF waitingKind, Contract!Kinds, Request
  <2> QED
    BY <2>1, <2>2 DEF Contract!Answered, waitingKind, visibleKind
<1>3. ASSUME NEW t \in Times, Tick(t) PROVE Contract!Next \/ UNCHANGED Contract!vars
  <2>1. CASE UNCHANGED requested
    BY <1>3, <2>1, Stutters DEF Tick
  <2>2. CASE ~UNCHANGED requested
    <3>1. /\ requested = None /\ showing = None
          /\ requested' = [snapshot |-> snapshot, field |-> field,
                           kind |-> "Completion"]
          /\ field \in Fields /\ UNCHANGED <<snapshot, showing>>
      BY <1>3, <2>2 DEF Tick, Inductive, OneSourceAtATime, TypeOK
    <3>2. requested' \in Request
      BY <3>1 DEF Request, TypeOK
    <3>3. requested' # None /\ requested'.kind = "Completion"
      BY <3>1, <3>2
    <3> QED
      BY <3>1, <3>3 DEF Contract!RequestCompletion, waitingKind, visibleKind
  <2> QED
    BY <2>1, <2>2
<1>4. ASSUME NEW f \in Fields, ArmGrammar(f)
      PROVE  Contract!Next \/ UNCHANGED Contract!vars
  <2>1. /\ requested' = [snapshot |-> snapshot, field |-> f, kind |-> "GrammarFix"]
        /\ UNCHANGED <<snapshot, showing>>
    BY <1>4 DEF ArmGrammar
  <2>2. requested' \in Request
    BY <2>1 DEF Request, TypeOK
  <2>3. requested' # None /\ requested'.kind = "GrammarFix"
    BY <2>1, <2>2
  <2> QED
    BY <2>1, <2>3 DEF Contract!RequestCorrection, waitingKind, visibleKind
<1>5. ASSUME NEW f \in Fields, NEW list \in Lists, NEW left \in Carets,
             OfferReplacement(f, list, left)
      PROVE  Contract!Next \/ UNCHANGED Contract!vars
  <2> DEFINE span == IF caps.strategy = "NativeRangeSet"
                     THEN <<caret - left, caret>> ELSE None
  <2>1. /\ span \in (Nat \X Nat) \cup {None}
        /\ list \in Seq(Words) /\ list # <<>> /\ left \in Nat
        /\ showing' = NewShowing(f, list, left, "Ghost", span)
        /\ requested' = None /\ UNCHANGED snapshot
    BY <1>5 DEF TypeOK, OfferReplacement, Present
  <2> HIDE DEF span
  <2>2. showing' # None /\ showing'.presentation = "Ghost"
    BY <2>1, NewShowingFields
  <2> QED
    BY <2>1, <2>2 DEF Contract!Offer, waitingKind, visibleKind
<1>6. ASSUME NEW f \in Fields, NEW list \in Lists, NEW span \in Spans,
             OfferSelectionReplacement(f, list, span)
      PROVE  Contract!Next \/ UNCHANGED Contract!vars
  <2>1. /\ showing' = NewShowing(f, list, 0, "SelectionReplacement", span)
        /\ requested' = None /\ UNCHANGED snapshot
    BY <1>6 DEF OfferSelectionReplacement, Present
  <2>2. showing' # None /\ showing'.presentation = "SelectionReplacement"
    BY <2>1, NewShowingFields
  <2> QED
    BY <2>1, <2>2 DEF Contract!Offer, waitingKind, visibleKind
<1>7. CASE Dismiss \/ FailedShow
  BY <1>7, Hides DEF Dismiss, HideDismissed, FailedShow
<1>8. CASE ForceShow \/ TakeStatEvents \/ Refused \/ UNCHANGED vars
  BY <1>8, Stutters DEF ForceShow, TakeStatEvents, Refused, vars
<1>9. ASSUME NEW on \in BOOLEAN, SetAllowMidWord(on)
      PROVE  Contract!Next \/ UNCHANGED Contract!vars
  BY <1>9, Stutters DEF SetAllowMidWord
<1>10. CASE AcceptWhole
  BY <1>10, EndsEpoch DEF AcceptWhole
<1>11. CASE (AcceptWord /\ ~AcceptWhole) \/ Cycle
  <2>1. UNCHANGED <<snapshot, requested>>
    BY <1>11 DEF AcceptWord, Cycle
  <2>2. visibleKind' = visibleKind
    <3>1. CASE UNCHANGED showing
      BY <3>1 DEF visibleKind
    <3>2. CASE ~UNCHANGED showing
      <4> DEFINE tail == <<Current(showing) - 1>>
                 at   == showing.caret + 1
                 next == (showing.index % Len(showing.candidates)) + 1
                 cut  == [showing EXCEPT !.candidates = tail]
                 top  == [cut EXCEPT !.index = 1]
      <4>1. /\ showing \in Suggestion /\ showing # None
            /\ \/ showing' = [top EXCEPT !.caret = at]
               \/ showing' = [showing EXCEPT !.index = next]
        BY <1>11, <3>2 DEF AcceptWord, Cycle, IsAccepted, TypeOK
      <4>2. showing' # None
        BY <1>11, <4>1, RestIsSuggestion, RotationIsSuggestion
      <4> HIDE DEF tail, at, next
      <4>3. showing'.presentation = showing.presentation
        BY <4>1 DEF Suggestion
      <4> QED
        BY <4>1, <4>2, <4>3 DEF visibleKind
    <3> QED
      BY <3>1, <3>2
  <2> QED
    BY <2>1, <2>2 DEF Contract!vars, waitingKind
<1>12. CASE HostCall
  BY <1>3, <1>4, <1>5, <1>6, <1>8, <1>9, <1>12 DEF HostCall
<1>13. CASE UserKey
  BY <1>8, <1>10, <1>11, <1>13 DEF UserKey, AcceptFull, AcceptCorrection
<1> QED
  BY <1>1, <1>2, <1>7, <1>8, <1>12, <1>13 DEF Next, Reconciliation

\* The machine implements what SuggestionContract promises.
THEOREM MachineImplementsContract == Spec => ImplementsContract
BY InvariantHolds, RefinesInit, RefinesStep, PTL
   DEF Spec, ImplementsContract, Contract!Spec

----------------------------------------------------------------------------
(* The stream of stat events.                                              *)

StatEvents == {"Shown", "Superseded"}

\* The last call told the host to show something.
HasShow == \E i \in DOMAIN cmds : IsShow(cmds[i])

StatTypes == stats \in Seq(StatEvents) /\ lastDrained \in StatEvents \cup {None}

\* Each Superseded ends the Shown before it, which the host may have taken.
Paired ==
    \A i \in DOMAIN stats : stats[i] = "Superseded" =>
        IF i = 1 THEN lastDrained = "Shown" ELSE stats[i - 1] = "Shown"

\* What is on screen is what the last event of the stream counted.
LastIsShown ==
    showing # None =>
        IF stats = <<>> THEN lastDrained = "Shown" ELSE stats[Len(stats)] = "Shown"

\* While a show may still fail, the event a failure takes back is its own and the
\* last one buffered.
RetractsLast ==
    HasShow => /\ retractable <=> ownShown
               /\ ownShown => stats # <<>> /\ stats[Len(stats)] = "Shown"

StatInv == ~lost => StatTypes /\ Paired /\ LastIsShown /\ RetractsLast

\* Below the cap an event is appended.
LEMMA RecordedFits ==
    ASSUME NEW queue \in Seq(StatEvents), NEW event, Len(queue) < StatCap
    PROVE  Recorded(queue, event) = Append(queue, event)
BY DEF Recorded

\* To drop the last of a sequence is to remove at its last position, which is where
\* the last "Shown" is if it is last.
LEMMA LastRemoved ==
    ASSUME NEW queue \in Seq(StatEvents), queue # <<>>, queue[Len(queue)] = "Shown"
    PROVE  LET shown == {i \in DOMAIN queue : queue[i] = "Shown"}
           IN  /\ shown # {} /\ RemoveAt(queue, Max(shown)) = Front(queue)
               /\ Front(queue) \in Seq(StatEvents) /\ Len(Front(queue)) = Len(queue) - 1
               /\ \A i \in DOMAIN Front(queue) : Front(queue)[i] = queue[i]
<1> DEFINE shown == {i \in DOMAIN queue : queue[i] = "Shown"}
           n == Len(queue)
<1>1. n \in Nat \ {0} /\ DOMAIN queue = 1 .. n
  OBVIOUS
<1>2. n \in shown /\ \A i \in shown : i \in Int /\ n >= i
  BY <1>1
<1>3. Max(shown) = n
  BY <1>2 DEF Max
<1>4. Front(queue) \in Seq(StatEvents) /\ Len(Front(queue)) = n - 1
  BY <1>1 DEF Front
<1>5. SubSeq(queue, n + 1, n) = <<>>
  BY <1>1
<1>6. RemoveAt(queue, n) = Front(queue) \o <<>>
  BY <1>1, <1>5 DEF RemoveAt, Front
<1>7. Front(queue) \o <<>> = Front(queue)
  BY <1>4
<1>8. \A i \in DOMAIN Front(queue) : Front(queue)[i] = queue[i]
  BY <1>1, <1>4 DEF Front
<1> QED
  BY <1>2, <1>3, <1>4, <1>6, <1>7, <1>8

\* The shapes handlers have for the stream: no event and nothing new on screen ...
Silent ==
    /\ UNCHANGED <<stats, retractable, lastDrained, ownShown>> /\ (lost' <=> lost)
    /\ showing' # None => showing # None
    /\ HasShow' => HasShow

\* ... a suggestion presented again ...
Reshown ==
    /\ UNCHANGED <<stats, lastDrained, lost>>
    /\ retractable' = FALSE /\ ownShown' = FALSE
    /\ showing' # None => showing # None

\* ... and, of those that record or retract, every other.
Shaped ==
    \/ Silent \/ Reshown
    \/ showing # None /\ HideSuperseded
    \/ \E s : Present(s)
    \/ FailedShow \/ TakeStatEvents

\* Hiding what is not there records nothing.
LEMMA HideShaped ==
    ASSUME HideSuperseded
    PROVE  Shaped
<1>1. CASE showing = None
  <2>1. showing' = None /\ cmds' = <<>> /\ stats' = stats /\ (lost' <=> lost)
    BY <1>1 DEF HideSuperseded, SupersededStats
  <2>2. ~HasShow'
    BY <2>1 DEF HasShow
  <2> QED
    BY <1>1, <2>1, <2>2 DEF HideSuperseded, Shaped, Silent
<1> QED
  BY <1>1 DEF Shaped

\* Every step has one of the shapes.
LEMMA StepShape == [Next]_vars => Shaped
<1> SUFFICES ASSUME [Next]_vars PROVE Shaped
  OBVIOUS
<1>1. CASE Boundary
  <2>1. CASE HideSuperseded
    BY <2>1, HideShaped
  <2>2. CASE UNCHANGED <<showing, statVars>> /\ cmds' = <<>>
    BY <2>2 DEF Shaped, Silent, statVars, HasShow
  <2>3. CASE HideDismissed
    BY <2>3 DEF HideDismissed, Shaped, Silent, statVars, HasShow, IsShow, Hide
  <2> QED
    BY <1>1, <2>1, <2>2, <2>3
       DEF Boundary, Focus, TextChanged, CaretMoved, SecureStateChanged, DismissDiscard,
           DismissSuppress, ClearSelectionReplacement
<1>2. CASE Answer
  <2>1. CASE cmds' = <<>> /\ UNCHANGED <<showing, statVars>>
    BY <2>1 DEF Shaped, Silent, statVars, HasShow
  <2> QED
    BY <1>2, <2>1 DEF Answer, CompletionReady, CorrectionReady, Shaped
<1>3. CASE HostCall
  <2>1. ASSUME NEW t \in Times, Tick(t) PROVE Shaped
    BY <2>1 DEF Tick, Shaped, Silent, statVars, HasShow, IsShow
  <2>2. ASSUME NEW f \in Fields, ArmGrammar(f) PROVE Shaped
    BY <2>2 DEF ArmGrammar, Shaped, Silent, statVars, HasShow
  <2>3. ASSUME NEW on \in BOOLEAN, SetAllowMidWord(on) PROVE Shaped
    BY <2>3 DEF SetAllowMidWord, Shaped, Silent, statVars, HasShow
  <2>4. CASE Refused
    BY <2>4 DEF Refused, Shaped, Silent, statVars, HasShow
  <2> QED
    BY <1>3, <2>1, <2>2, <2>3, <2>4
       DEF HostCall, OfferReplacement, OfferSelectionReplacement, Shaped
<1>4. CASE UserKey
  <2>1. CASE AcceptWhole
    BY <2>1 DEF AcceptWhole, Shaped, Silent, statVars, HasShow, IsShow, Commit, Command, Hide
  <2>2. CASE AcceptWord /\ ~AcceptWhole
    BY <2>2 DEF AcceptWord, IsAccepted, Shaped, Silent, statVars, HasShow, IsShow, Command
  <2>3. CASE Cycle \/ ForceShow
    BY <2>3 DEF Cycle, ForceShow, Shaped, Reshown
  <2> QED
    BY <1>4, <2>1, <2>2, <2>3 DEF UserKey, AcceptFull, AcceptCorrection
<1>5. CASE Reconciliation
  BY <1>5 DEF Reconciliation, Dismiss, HideDismissed, Shaped, Silent, statVars, HasShow, IsShow, Hide
<1>6. CASE UNCHANGED vars
  BY <1>6 DEF vars, Shaped, Silent, statVars, HasShow
<1> QED
  BY <1>1, <1>2, <1>3, <1>4, <1>5, <1>6 DEF Next

\* An event appended to a paired stream, of which a Superseded follows its Shown.
LEMMA AppendPairs ==
    ASSUME NEW queue \in Seq(StatEvents), NEW drained, NEW event \in StatEvents,
           \A i \in DOMAIN queue : queue[i] = "Superseded" =>
               IF i = 1 THEN drained = "Shown" ELSE queue[i - 1] = "Shown",
           event = "Superseded" =>
               IF queue = <<>> THEN drained = "Shown" ELSE queue[Len(queue)] = "Shown"
    PROVE  LET longer == Append(queue, event)
           IN  /\ longer \in Seq(StatEvents) /\ longer # <<>>
               /\ longer[Len(longer)] = event
               /\ \A i \in DOMAIN longer : longer[i] = "Superseded" =>
                      IF i = 1 THEN drained = "Shown" ELSE longer[i - 1] = "Shown"
<1> DEFINE n == Len(queue)
           longer == Append(queue, event)
<1>1. n \in Nat /\ DOMAIN queue = 1 .. n
  OBVIOUS
<1>2. /\ longer \in Seq(StatEvents) /\ Len(longer) = n + 1 /\ DOMAIN longer = 1 .. n + 1
      /\ longer[n + 1] = event /\ \A i \in 1 .. n : longer[i] = queue[i]
  BY <1>1
<1>3. queue = <<>> <=> n = 0
  BY <1>1
<1> HIDE DEF longer
<1>4. ASSUME NEW i \in DOMAIN longer, longer[i] = "Superseded"
      PROVE  IF i = 1 THEN drained = "Shown" ELSE longer[i - 1] = "Shown"
  <2>1. CASE i = n + 1
    BY <1>1, <1>2, <1>3, <1>4, <2>1
  <2>2. CASE i \in 1 .. n
    <3>1. IF i = 1 THEN drained = "Shown" ELSE queue[i - 1] = "Shown"
      BY <1>1, <1>2, <1>4, <2>2
    <3>2. i # 1 => i - 1 \in 1 .. n
      BY <1>1, <2>2
    <3> QED
      BY <1>2, <3>1, <3>2
  <2> QED
    BY <1>1, <1>2, <2>1, <2>2
<1>5. longer # <<>> /\ longer[Len(longer)] = event
  BY <1>1, <1>2
<1> QED
  BY <1>2, <1>4, <1>5 DEF longer

\* Every shape keeps the stream's invariant.
LEMMA StatStep ==
    ASSUME StatInv, Shaped
    PROVE  StatInv'
<1> SUFFICES ASSUME ~lost' PROVE (StatTypes /\ Paired /\ LastIsShown /\ RetractsLast)'
  BY DEF StatInv
<1>1. ~lost
  BY DEF Shaped, Silent, Reshown, HideSuperseded, Present, FailedShow, CancelLastShown,
         TakeStatEvents
<1>2. StatTypes /\ Paired /\ LastIsShown /\ RetractsLast
  BY <1>1 DEF StatInv
<1> USE DEF StatTypes, StatEvents
<1>3. CASE Silent
  BY <1>2, <1>3 DEF Silent, Paired, LastIsShown, RetractsLast
<1>4. CASE Reshown
  BY <1>2, <1>4 DEF Reshown, Paired, LastIsShown, RetractsLast
<1>5. ASSUME showing # None, Len(stats) < StatCap
      PROVE  /\ SupersededStats \in Seq(StatEvents) /\ SupersededStats # <<>>
             /\ \A i \in DOMAIN SupersededStats : SupersededStats[i] = "Superseded" =>
                    IF i = 1 THEN lastDrained = "Shown" ELSE SupersededStats[i - 1] = "Shown"
  <2>1. SupersededStats = Append(stats, "Superseded")
    BY <1>2, <1>5, RecordedFits DEF SupersededStats
  <2> QED
    BY <1>2, <1>5, <2>1, AppendPairs DEF Paired, LastIsShown
<1>6. CASE showing # None /\ HideSuperseded
  <2>1. /\ stats' = SupersededStats /\ showing' = None
        /\ lastDrained' = lastDrained /\ cmds' = <<Hide>>
    BY <1>6 DEF HideSuperseded
  <2>3. Len(stats) < StatCap
    <3>1. ~(Len(stats) >= StatCap)
      BY <1>6, Zenon DEF HideSuperseded
    <3>2. Len(stats) \in Nat
      BY <1>2
    <3> QED
      BY <3>1, <3>2
  <2>2. ~HasShow'
    BY <2>1 DEF HasShow, IsShow, Hide
  <2> QED
    BY <1>2, <1>5, <1>6, <2>1, <2>2, <2>3 DEF Paired, LastIsShown, RetractsLast
<1>7. ASSUME NEW s, Present(s)
      PROVE  (StatTypes /\ Paired /\ LastIsShown /\ RetractsLast)'
  <2>1. /\ Len(SupersededStats) < StatCap /\ stats' = Recorded(SupersededStats, "Shown")
        /\ lastDrained' = lastDrained /\ retractable' = TRUE /\ ownShown' = TRUE
    BY <1>7 DEF Present
  <2>2. /\ SupersededStats \in Seq(StatEvents)
        /\ \A i \in DOMAIN SupersededStats : SupersededStats[i] = "Superseded" =>
               IF i = 1 THEN lastDrained = "Shown" ELSE SupersededStats[i - 1] = "Shown"
    <3>1. CASE showing = None
      BY <1>2, <3>1 DEF SupersededStats, Paired
    <3>2. CASE showing # None /\ Len(stats) < StatCap
      BY <1>5, <3>2
    <3>3. CASE showing # None /\ ~(Len(stats) < StatCap)
      BY <1>2, <2>1, <3>3 DEF SupersededStats, Recorded
    <3> QED
      BY <3>1, <3>2, <3>3
  <2>3. stats' = Append(SupersededStats, "Shown")
    BY <2>1, <2>2, RecordedFits
  <2>4. /\ stats' \in Seq(StatEvents) /\ stats' # <<>> /\ stats'[Len(stats')] = "Shown"
        /\ \A i \in DOMAIN stats' : stats'[i] = "Superseded" =>
               IF i = 1 THEN lastDrained = "Shown" ELSE stats'[i - 1] = "Shown"
    BY <2>2, <2>3, AppendPairs
  <2> QED
    BY <1>2, <2>1, <2>4 DEF Paired, LastIsShown, RetractsLast
<1>8. CASE FailedShow
  <2>1. HasShow /\ showing' = None /\ cmds' = <<Hide>> /\ lastDrained' = lastDrained
    BY <1>8 DEF FailedShow, HasShow, CancelLastShown
  <2>2. ~HasShow'
    BY <2>1 DEF HasShow, IsShow, Hide
  <2>3. CASE ~ownShown
    BY <1>2, <1>8, <2>1, <2>2, <2>3
       DEF FailedShow, CancelLastShown, Paired, LastIsShown, RetractsLast
  <2>4. CASE ownShown
    <3>1. stats # <<>> /\ stats[Len(stats)] = "Shown" /\ retractable
      BY <1>2, <2>1, <2>4 DEF RetractsLast
    <3>2. /\ stats' = Front(stats) /\ Front(stats) \in Seq(StatEvents)
          /\ Len(Front(stats)) = Len(stats) - 1
          /\ \A i \in DOMAIN Front(stats) : Front(stats)[i] = stats[i]
      BY <1>2, <1>8, <3>1, LastRemoved DEF FailedShow, CancelLastShown
    <3>3. Paired'
      BY <1>2, <2>1, <3>2 DEF Paired
    <3> QED
      BY <1>2, <2>1, <2>2, <3>2, <3>3 DEF LastIsShown, RetractsLast
  <2> QED
    BY <2>3, <2>4
<1>9. CASE TakeStatEvents
  <2>1. /\ stats # <<>> /\ stats' = <<>> /\ lastDrained' = stats[Len(stats)]
        /\ cmds' = <<>> /\ showing' = showing
    BY <1>9 DEF TakeStatEvents, Last
  <2>2. ~HasShow'
    BY <2>1 DEF HasShow
  <2> QED
    BY <1>2, <2>1, <2>2 DEF Paired, LastIsShown, RetractsLast
<1> QED
  BY <1>3, <1>4, <1>6, <1>7, <1>8, <1>9 DEF Shaped

\* The stream's invariant holds throughout.
LEMMA StreamHolds == Spec => []StatInv
<1>1. Init => StatInv
  BY DEF Init, StatInv, StatTypes, StatEvents, Paired, LastIsShown, RetractsLast, HasShow
<1> QED
  BY <1>1, StepShape, StatStep, PTL DEF Spec

\* Every Superseded the host is told of ends the Shown before it, and the last Shown
\* is that of the suggestion on screen.
THEOREM StreamTellsOneLifecycle == Spec => []StatsTellOneLifecycle
<1>1. ASSUME StatInv PROVE StatsTellOneLifecycle
  <2> SUFFICES ASSUME ~lost PROVE StatsTellOneLifecycle
    BY DEF StatsTellOneLifecycle
  <2>1. StatTypes /\ Paired /\ LastIsShown
    BY <1>1 DEF StatInv
  <2>2. CASE lastDrained = None
    BY <2>1, <2>2 DEF StatsTellOneLifecycle, StatTypes, StatEvents, Paired, LastIsShown, Last
  <2>3. CASE lastDrained # None
    <3> DEFINE stream == <<lastDrained>> \o stats
               n == Len(stats)
    <3>1. n \in Nat /\ DOMAIN stats = 1 .. n /\ lastDrained \in StatEvents
      BY <2>1, <2>3 DEF StatTypes
    <3>2. /\ stream \in Seq(StatEvents) /\ Len(stream) = n + 1 /\ stream[1] = lastDrained
          /\ \A i \in 1 .. n : stream[i + 1] = stats[i]
      BY <2>1, <3>1 DEF StatTypes
    <3> HIDE DEF stream
    <3>3. ASSUME NEW i \in DOMAIN stream, stream[i] = "Superseded", i > 1
          PROVE  stream[i - 1] = "Shown"
      <4>1. i - 1 \in 1 .. n /\ stats[i - 1] = "Superseded"
        BY <3>1, <3>2, <3>3
      <4>2. CASE i = 2
        <5>1. stats[1] = "Superseded" /\ 1 \in DOMAIN stats
          BY <3>1, <4>1, <4>2
        <5>2. lastDrained = "Shown"
          BY <2>1, <5>1 DEF Paired
        <5>3. i - 1 = 1
          BY <4>2
        <5> QED
          BY <3>2, <5>2, <5>3
      <4>3. CASE i # 2
        <5> DEFINE j == i - 1
        <5>1. j \in 1 .. n /\ j # 1 /\ j - 1 \in 1 .. n /\ stats[j] = "Superseded"
          BY <3>1, <3>2, <4>1, <4>3
        <5>2. (j - 1) + 1 = j
          BY <3>1, <5>1
        <5> HIDE DEF j
        <5>3. stats[j - 1] = "Shown"
          BY <2>1, <3>1, <5>1 DEF Paired
        <5>4. stream[j] = "Shown"
          BY <3>2, <5>1, <5>2, <5>3
        <5> QED
          BY <5>4 DEF j
      <4> QED
        BY <4>2, <4>3
    <3>4. showing # None => stream # <<>> /\ Last(stream) = "Shown"
      BY <2>1, <3>1, <3>2 DEF LastIsShown, Last, StatTypes
    <3> QED
      BY <2>3, <3>2, <3>3, <3>4 DEF StatsTellOneLifecycle, stream
  <2> QED
    BY <2>2, <2>3
<1> QED
  BY <1>1, StreamHolds, PTL

\* A failed show takes back the Shown it buffered itself.
THEOREM FailedShowsRetractThemselves == Spec => FailedShowRetractsItself
<1>1. ASSUME StatInv, FailedShow, ~lost
      PROVE  stats' = IF ownShown THEN Front(stats) ELSE stats
  <2>1. StatTypes /\ (retractable <=> ownShown)
        /\ (ownShown => stats # <<>> /\ stats[Len(stats)] = "Shown")
    BY <1>1 DEF StatInv, RetractsLast, FailedShow, HasShow
  <2> QED
    BY <1>1, <2>1, LastRemoved DEF FailedShow, CancelLastShown, StatTypes
<1> QED
  BY <1>1, StreamHolds, PTL DEF Spec, FailedShowRetractsItself

\* What an accept commits is what the preview gave just before.
THEOREM PreviewsAreCommitted == Spec => PreviewIsCommitted
<1>1. ASSUME NEW action \in {"Full", "Word", "Correction"}, TypeOK,
             \/ action = "Full" /\ AcceptFull
             \/ action = "Word" /\ AcceptWord
             \/ action = "Correction" /\ AcceptCorrection
      PROVE  Head(cmds').text = Preview(action)
  <2>1. /\ showing # None /\ showing.replaceLeft \in Nat
        /\ action = "Full" => showing.presentation \in {"Ghost", "SelectionReplacement"}
        /\ action = "Word" => showing.presentation \in {"Ghost", "SelectionReplacement"}
        /\ action = "Correction" => showing.presentation = "Correction"
    BY <1>1 DEF AcceptFull, AcceptWord, AcceptCorrection, IsAccepted, TypeOK, Suggestion
  <2>2. CASE AcceptWhole
    <3>1. Head(cmds').text = Current(showing)
      BY <2>2 DEF AcceptWhole, Commit, Command
    <3>2. action = "Word" => \/ showing.presentation = "SelectionReplacement"
                             \/ showing.replaceLeft > 0 \/ Current(showing) = 1
      BY <1>1, <2>1, <2>2 DEF AcceptWord, AcceptWhole, Advance, TypeOK
    <3> QED
      BY <2>1, <3>1, <3>2 DEF Preview, TakesWhole
  <2>3. CASE AcceptWord /\ ~AcceptWhole
    BY <1>1, <2>1, <2>3 DEF AcceptFull, AcceptCorrection, AcceptWord, Command, Preview, TakesWhole
  <2> QED
    BY <1>1, <2>2, <2>3 DEF AcceptFull, AcceptCorrection
<1>2. ASSUME TypeOK
      PROVE  \A action \in {"Full", "Word", "Correction"} :
               LET accepts == \/ action = "Full" /\ AcceptFull
                              \/ action = "Word" /\ AcceptWord
                              \/ action = "Correction" /\ AcceptCorrection
               IN  accepts => Head(cmds').text = Preview(action)
  BY <1>1, <1>2
<1> QED
  BY <1>2, InvariantHolds, PTL DEF Spec, PreviewIsCommitted

----------------------------------------------------------------------------
(***************************************************************************)
(* The engine: the machine with the screen, the tap and the field.         *)
(***************************************************************************)

HIDE DEF CancelPending, Disarm, Reshow, Moved
USE ScreenAssumption

dispatch == <<vars, engineVars>>

\* The host's events and keys: the steps of the machine a call can make.
HostStep == Boundary \/ Answer \/ HostCall \/ UserKey

\* A step of the engine is one of the machine's, or changes nothing of it: that is
\* how the actions are written, and what carries TypeOK into the engine.
LEMMA EngineStepsMachine == [EngineNext]_dispatch => [Next]_vars
<1> SUFFICES ASSUME EngineNext PROVE [Next]_vars
  BY DEF dispatch
<1>1. CASE OnEvent
  BY <1>1 DEF OnEvent, Call, Next, UserKey
<1>2. CASE OnAccept
  BY <1>2 DEF OnAccept, Call, Next, UserKey
<1>3. CASE RequestCompletion
  BY <1>3 DEF RequestCompletion
<1>4. CASE ShowSuggestion \/ SetAcceptAction \/ SetSuggestionVisible
  BY <1>4 DEF ShowSuggestion, SetAcceptAction, SetSuggestionVisible, Fail,
              DropFailedShow, Next, Reconciliation
<1>5. CASE UpdateGhost
  BY <1>5 DEF UpdateGhost, UpdateFails, Fail, Next, Reconciliation
<1>6. CASE WriteField
  BY <1>6 DEF WriteField, Fail, Next, Reconciliation
<1>7. CASE HideSuggestion
  BY <1>7 DEF HideSuggestion
<1>8. CASE DismissUnplaced
  BY <1>8 DEF DismissUnplaced, DropFailedShow, Next, Reconciliation
<1>9. CASE HideTimerFires
  BY <1>9 DEF HideTimerFires
<1> QED
  BY <1>1, <1>2, <1>3, <1>4, <1>5, <1>6, <1>7, <1>8, <1>9 DEF EngineNext, Execute

----------------------------------------------------------------------------
(* What a machine step returns. *)

\* The model offers one correction at a time, so Cycle never rotates one.
OneCorrection ==
    showing # None /\ showing.presentation = "Correction" =>
        Len(showing.candidates) = 1

ReturnsNothing == cmds' = <<>> /\ showing' = showing
ReturnsRequest ==
    /\ showing' = showing
    /\ \E f : cmds' = <<[op |-> "RequestCompletion", field |-> f, text |-> 0,
                         action |-> "Full"]>>
ReturnsHide   == showing' = None /\ cmds' = <<Hide>>
ReturnsShow   == showing' # None /\ cmds' = <<Show(showing')>>
ReturnsUpdate ==
    /\ showing # None /\ showing' # None
    /\ showing.presentation = "Ghost" /\ showing'.presentation = "Ghost"
    /\ cmds' = <<Command("UpdateGhost", showing')>>

\* The commands of an accept, as a function of what is on screen before it.
PartWritten == [Command("Insert", showing) EXCEPT !.text = 1]
ReturnsPart ==
    /\ showing # None /\ showing' # None
    /\ showing.presentation = "Ghost" /\ showing'.presentation = "Ghost"
    /\ cmds' = <<PartWritten, Command("UpdateGhost", showing')>>
ReturnsWhole ==
    /\ showing # None /\ showing' = None
    /\ cmds' = <<Commit(showing), Hide>>

Unwritten ==
    ReturnsNothing \/ ReturnsRequest \/ ReturnsHide \/ ReturnsShow \/ ReturnsUpdate

\* Present shows what it is given.
LEMMA PresentReturns == ASSUME NEW s \in Suggestion, Present(s)
                        PROVE  ReturnsShow /\ showing' = s
BY DEF Present, ReturnsShow

\* So does what a handler builds, which is one correction at most.
LEMMA BuiltReturns ==
    ASSUME TypeOK, NEW f \in Fields, NEW list \in Seq(Words), list # <<>>,
           NEW left \in Nat, NEW span \in (Nat \X Nat) \cup {None},
           NEW p \in {"Ghost", "Correction", "SelectionReplacement"},
           p = "Correction" => Len(list) = 1,
           Present(NewShowing(f, list, left, p, span))
    PROVE  Unwritten /\ OneCorrection'
<1> DEFINE s == NewShowing(f, list, left, p, span)
<1>1. s \in Suggestion /\ s.candidates = list /\ s.presentation = p
  BY HelperTypes DEF NewShowing
<1>2. Present(s)
  OBVIOUS
<1> HIDE DEF s
<1> QED
  BY <1>1, <1>2, PresentReturns DEF OneCorrection, Unwritten

\* Every event of the host returns commands of one of five forms.
LEMMA EventReturns ==
    ASSUME TypeOK, OneCorrection,
           Boundary \/ Answer \/ HostCall \/ Cycle \/ ForceShow
    PROVE  Unwritten /\ OneCorrection'
<1> DEFINE Goal == Unwritten /\ OneCorrection'
<1>1. ASSUME UNCHANGED showing PROVE OneCorrection'
  BY <1>1 DEF OneCorrection
<1>2. ASSUME showing' = None PROVE OneCorrection'
  BY <1>2 DEF OneCorrection
<1>3. CASE HideSuperseded \/ HideDismissed
  BY <1>2, <1>3 DEF HideSuperseded, HideDismissed, Unwritten, ReturnsNothing, ReturnsHide
<1>4. CASE Boundary
  <2>1. ASSUME NEW f \in Fields, NEW at \in Carets, CaretMoved(f, at) PROVE Goal
    <3>1. CASE Moved(f, at)
      BY <1>3, <2>1, <3>1 DEF CaretMoved
    <3>2. CASE ~Moved(f, at)
      BY <1>1, <2>1, <3>2 DEF CaretMoved, Unwritten, ReturnsNothing
    <3> QED
      BY <3>1, <3>2
  <2> QED
    BY <1>3, <1>4, <2>1
       DEF Boundary, Focus, TextChanged, SecureStateChanged, DismissDiscard,
           DismissSuppress, ClearSelectionReplacement
<1>5. CASE Answer
  <2>1. ASSUME NEW stamp \in Snapshots, NEW f \in Fields,
               NEW list \in Lists \cup {<<>>}, CompletionReady(stamp, f, list)
        PROVE  Goal
    <3>1. CASE list = <<>>
      BY <1>1, <2>1, <3>1 DEF CompletionReady, Unwritten, ReturnsNothing
    <3>2. CASE list # <<>>
      <4>1. Present(NewShowing(f, list, 0, "Ghost", None)) /\ list \in Seq(Words)
        BY <2>1, <3>2 DEF CompletionReady
      <4> QED
        BY <3>2, <4>1, BuiltReturns
    <3> QED
      BY <3>1, <3>2
  <2>2. ASSUME NEW stamp \in Snapshots, NEW f \in Fields, NEW words \in {0, 1},
               NEW span \in Spans, CorrectionReady(stamp, f, words, span)
        PROVE  Goal
    <3>1. CASE ~Present(NewShowing(f, <<words>>, 0, "Correction", span))
      BY <1>1, <2>2, <3>1 DEF CorrectionReady, Unwritten, ReturnsNothing
    <3>2. CASE Present(NewShowing(f, <<words>>, 0, "Correction", span))
      <4>1. CASE words > 0
        <5>1. <<words>> \in Seq(Words) /\ <<words>> # <<>> /\ Len(<<words>>) = 1
          BY <4>1 DEF Words
        <5> QED
          BY <3>2, <5>1, BuiltReturns
      <4>2. CASE ~(words > 0)
        BY <1>1, <2>2, <4>2 DEF CorrectionReady, Unwritten, ReturnsNothing
      <4> QED
        BY <4>1, <4>2
    <3> QED
      BY <3>1, <3>2
  <2> QED
    BY <1>5, <2>1, <2>2 DEF Answer
<1>6. CASE HostCall
  <2>1. ASSUME NEW t \in Times, Tick(t) PROVE Goal
    BY <1>1, <2>1 DEF Tick, Unwritten, ReturnsNothing, ReturnsRequest
  <2>2. ASSUME NEW f \in Fields, ArmGrammar(f) PROVE Goal
    BY <1>1, <2>2 DEF ArmGrammar, Unwritten, ReturnsNothing
  <2>3. ASSUME NEW f \in Fields, NEW list \in Lists, NEW left \in Carets,
               OfferReplacement(f, list, left)
        PROVE  Goal
    <3> DEFINE span == IF caps.strategy = "NativeRangeSet"
                       THEN <<caret - left, caret>> ELSE None
    <3>1. /\ Present(NewShowing(f, list, left, "Ghost", span))
          /\ list \in Seq(Words) /\ list # <<>> /\ left \in Nat
          /\ span \in (Nat \X Nat) \cup {None}
      BY <2>3 DEF OfferReplacement, TypeOK
    <3> HIDE DEF span
    <3> QED
      BY <3>1, BuiltReturns
  <2>4. ASSUME NEW f \in Fields, NEW list \in Lists, NEW span \in Spans,
               OfferSelectionReplacement(f, list, span)
        PROVE  Goal
    <3>1. /\ Present(NewShowing(f, list, 0, "SelectionReplacement", span))
          /\ list \in Seq(Words) /\ list # <<>>
          /\ span \in (Nat \X Nat) \cup {None}
      BY <2>4 DEF OfferSelectionReplacement
    <3> QED
      BY <3>1, BuiltReturns
  <2>5. ASSUME NEW on \in BOOLEAN, SetAllowMidWord(on) PROVE Goal
    BY <1>1, <2>5 DEF SetAllowMidWord, Unwritten, ReturnsNothing
  <2>6. CASE TakeStatEvents \/ Refused
    BY <1>1, <2>6 DEF TakeStatEvents, Refused, Unwritten, ReturnsNothing
  <2> QED
    BY <1>6, <2>1, <2>2, <2>3, <2>4, <2>5, <2>6 DEF HostCall
<1>7. CASE Cycle
  <2>1. CASE showing # None /\ Len(showing.candidates) > 1
    <3>1. showing \in Suggestion /\ showing.presentation # "Correction"
      <4>1. showing \in Suggestion
        BY <2>1 DEF TypeOK
      <4>2. showing.candidates \in Seq(Words)
        BY <4>1 DEF Suggestion
      <4> DEFINE n == Len(showing.candidates)
      <4>3. n \in Nat /\ n > 1
        BY <2>1, <4>2
      <4> HIDE DEF n
      <4>4. n # 1
        BY <4>3
      <4>5. showing.presentation # "Correction"
        BY <2>1, <4>4, Zenon DEF OneCorrection, n
      <4> QED
        BY <4>1, <4>5
    <3>2. showing' \in Suggestion /\ showing' # None
      BY <1>7, <2>1, RotationIsSuggestion
    <3>3. showing'.presentation = showing.presentation
      BY <1>7, <2>1, <3>1 DEF Cycle, Suggestion
    <3>4. cmds' = <<IF showing.presentation = "SelectionReplacement"
                    THEN Show(showing') ELSE Command("UpdateGhost", showing')>>
      BY <1>7, <2>1 DEF Cycle
    <3> QED
      BY <2>1, <3>1, <3>2, <3>3, <3>4
         DEF Unwritten, ReturnsShow, ReturnsUpdate, OneCorrection, Suggestion
  <2>2. CASE ~(showing # None /\ Len(showing.candidates) > 1)
    BY <1>1, <1>7, <2>2 DEF Cycle, Unwritten, ReturnsNothing
  <2> QED
    BY <2>1, <2>2
<1>8. CASE ForceShow
  BY <1>1, <1>8 DEF ForceShow, Unwritten, ReturnsNothing, ReturnsShow
<1> QED
  BY <1>4, <1>5, <1>6, <1>7, <1>8

\* An accept returns what it writes and then a Hide, or, when a word is left, an
\* update; and what it writes is what the preview said.
LEMMA AcceptReturns ==
    ASSUME TypeOK, OneCorrection, NEW action \in {"Full", "Word", "Correction"},
           \/ action = "Full" /\ AcceptFull
           \/ action = "Word" /\ AcceptWord
           \/ action = "Correction" /\ AcceptCorrection
    PROVE  /\ ReturnsPart \/ ReturnsWhole
           /\ OneCorrection'
           /\ Head(cmds').text = Preview(action)
<1>1. showing # None /\ showing \in Suggestion
  BY DEF AcceptFull, AcceptWord, AcceptCorrection, IsAccepted, TypeOK
<1>2. CASE AcceptWhole
  <2>1. ReturnsWhole /\ OneCorrection'
    BY <1>1, <1>2 DEF AcceptWhole, ReturnsWhole, OneCorrection
  <2>2. Head(cmds').text = Current(showing)
    BY <1>2 DEF AcceptWhole, Commit, Command
  <2>3. CASE AcceptFull /\ action = "Full"
    BY <1>1, <2>1, <2>2, <2>3 DEF AcceptFull, IsAccepted, Preview, TakesWhole
  <2>4. CASE AcceptCorrection /\ action = "Correction"
    BY <1>1, <2>1, <2>2, <2>4 DEF AcceptCorrection, IsAccepted, Preview
  <2>5. CASE AcceptWord /\ action = "Word"
    <3>1. \/ showing.presentation = "SelectionReplacement"
          \/ showing.replaceLeft > 0
          \/ Current(showing) = 1
      <4> SUFFICES ASSUME ~\/ showing.presentation = "SelectionReplacement"
                           \/ showing.replaceLeft > 0
                           \/ Current(showing) = 1
                   PROVE  FALSE
        OBVIOUS
      <4>1. cmds'[2].op = "UpdateGhost"
        BY <2>5 DEF AcceptWord, Command
      <4>2. cmds'[2].op = "Hide"
        BY <1>2 DEF AcceptWhole, Hide
      <4> QED
        BY <4>1, <4>2
    <3> QED
      BY <1>1, <2>1, <2>2, <2>5, <3>1 DEF AcceptWord, IsAccepted, Preview, TakesWhole
  <2> QED
    BY <2>3, <2>4, <2>5
<1>3. CASE ~AcceptWhole
  <2>1. action = "Word" /\ AcceptWord
    BY <1>3 DEF AcceptFull, AcceptCorrection
  <2>2. showing' \in Suggestion /\ showing' # None
    BY <1>3, <2>1, RestIsSuggestion
  <2>3. /\ showing.presentation = "Ghost"
        /\ showing'.presentation = showing.presentation
        /\ cmds' = <<PartWritten, Command("UpdateGhost", showing')>>
        /\ ~(showing.replaceLeft > 0)
    BY <1>1, <1>3, <2>1 DEF AcceptWord, IsAccepted, PartWritten, Suggestion
  <2>4. ReturnsPart /\ OneCorrection'
    BY <1>1, <2>2, <2>3 DEF ReturnsPart, OneCorrection
  <2>5. PartWritten.text = 1
    BY DEF PartWritten, Command
  <2> QED
    BY <1>1, <2>1, <2>3, <2>4, <2>5 DEF Preview, TakesWhole
<1> QED
  BY <1>2, <1>3

----------------------------------------------------------------------------
(* The invariant of the dispatch. *)

Writes == {"Insert", "Replace", "ReplaceRange"}

\* What the platform shows and catches is what the machine holds, but for an action
\* that a delayed hide took back while it was being armed.
Fits(key) == \/ key = AcceptAction(showing.presentation)
             \/ raced /\ key = "Full"

Agrees ==
    /\ screen = Picture(Show(showing))
    /\ Fits(tap)
    /\ ~hideTimer

Clear ==
    /\ screen = None \/ "screen" \in stuck
    /\ tap = None \/ hideTimer \/ "tap" \in stuck

Settled == IF showing = None THEN Clear ELSE Agrees

\* The command of a suggestion, as the call of the tap that is next.
TapCall(op, command) == [command EXCEPT !.op = op]

\* A word is being accepted, or has been: the key stays armed and the old text is
\* painted until the update.
Shrinking ==
    /\ showing # None /\ showing.presentation = "Ghost"
    /\ screen # None /\ screen.text \in Words
    /\ tap = "Full" /\ ~hideTimer

\* The forms the list of commands takes while it is executed.
Nothing     == todo = <<>> /\ (~placeFailed => Settled)
Asking      == ~placeFailed /\ Settled
               /\ Len(todo) = 1 /\ Head(todo).op = "RequestCompletion"
               /\ Tail(todo) = <<>>
Showing     == ~placeFailed /\ showing # None /\ todo = <<Show(showing)>>
Storing     == /\ ~placeFailed /\ showing # None /\ screen = Picture(Show(showing))
               /\ todo = <<TapCall("SetAction", Show(showing))>>
Revealing   == /\ ~placeFailed /\ showing # None /\ screen = Picture(Show(showing))
               /\ todo = <<TapCall("SetVisible", Show(showing))>>
               /\ IF tap = None THEN raced
                                ELSE tap = AcceptAction(showing.presentation)
Updating    == ~placeFailed /\ Shrinking /\ todo = <<Command("UpdateGhost", showing)>>
Inserting   == /\ ~placeFailed /\ Shrinking
               /\ \E w : /\ w.op = "Insert" /\ w.text = 1
                         /\ todo = <<w, Command("UpdateGhost", showing)>>
Committing  == /\ ~placeFailed /\ showing = None
               /\ \E w : /\ w.op \in Writes /\ w.text \in Words
                         /\ screen # None /\ screen.text = w.text
                         /\ todo = <<w, Hide>>
Hiding      == ~placeFailed /\ showing = None /\ todo = <<Hide>>

Dispatching == Nothing \/ Asking \/ Showing \/ Storing \/ Revealing \/ Updating
               \/ Inserting \/ Committing \/ Hiding

\* What has been written, announced and reported go together.
Accounting ==
    /\ committed \in BOOLEAN /\ failed \in BOOLEAN
    /\ announced \in Nat
    /\ written = IF committed THEN announced ELSE 0
    /\ IF todo # <<>> /\ Head(todo).op \in Writes
       THEN ~committed /\ ~failed /\ Head(todo).text = announced
       ELSE committed \/ announced = 0 \/ (failed /\ Idle)

EngineInvariant ==
    TypeOK /\ OneCorrection /\ Dispatching /\ Accounting

\* Nothing is under way at first.
LEMMA EngineInitially == EngineInit => EngineInvariant
<1> SUFFICES ASSUME EngineInit PROVE EngineInvariant
  OBVIOUS
<1>1. TypeOK
  BY TypeInit DEF EngineInit
<1> QED
  BY <1>1 DEF EngineInit, Init, EngineInvariant, OneCorrection, Dispatching, Nothing,
              Settled, Clear, Accounting

\* A call leaves the commands the machine returned to be executed.
LEMMA CallKeeps ==
    ASSUME EngineInvariant, OnEvent \/ OnAccept
    PROVE  EngineInvariant'
<1>1. /\ Idle /\ todo = <<>> /\ ~placeFailed
      /\ UNCHANGED placeFailed /\ UNCHANGED platformVars
      /\ todo' = cmds' /\ ~committed' /\ ~failed' /\ written' = 0
      /\ committed' \in BOOLEAN /\ failed' \in BOOLEAN
  BY DEF OnEvent, OnAccept, Call, Idle
<1>2. TypeOK /\ TypeOK' /\ OneCorrection
  BY TypeStep DEF EngineInvariant, OnEvent, OnAccept, Call, Next, UserKey
<1>3. Settled /\ ~placeFailed'
  BY <1>1 DEF EngineInvariant, Dispatching, Nothing, Asking, Showing, Storing, Revealing,
              Updating, Inserting,
              Committing, Hiding
<1>4. ASSUME showing # None
      PROVE  /\ showing \in Suggestion /\ Current(showing) \in Words
             /\ screen = Picture(Show(showing))
             /\ screen # None /\ screen.text = Current(showing)
  <2>1. showing \in Suggestion /\ showing.index \in DOMAIN showing.candidates
    BY <1>2, <1>4 DEF TypeOK
  <2>2. Current(showing) \in Words
    BY <2>1 DEF Suggestion, Current
  <2>3. screen = Picture(Show(showing))
    BY <1>3, <1>4 DEF Settled, Agrees
  <2>4. Picture(Show(showing)) \in Painting
    BY <2>2 DEF Picture, Show, Command, Painting, Words
  <2>5. screen.text = Current(showing)
    BY <2>3 DEF Picture, Show, Command
  <2> QED
    BY <2>1, <2>2, <2>3, <2>4, <2>5
<1>5. CASE OnEvent
  <2>1. Unwritten /\ OneCorrection' /\ announced' = 0
    BY <1>1, <1>2, <1>5, EventReturns DEF OnEvent, Call
  <2>2. Accounting'
    BY <1>1, <2>1 DEF Accounting, Unwritten, ReturnsNothing, ReturnsRequest, ReturnsHide,
                      ReturnsShow, ReturnsUpdate, Writes, Hide, Show, Command
  <2>3. Dispatching'
    <3>1. CASE ReturnsNothing
      BY <1>1, <1>3, <3>1 DEF ReturnsNothing, Dispatching, Nothing, Settled, Clear, Agrees,
                        Fits, platformVars
    <3>2. CASE ReturnsRequest
      BY <1>1, <1>3, <3>2 DEF ReturnsRequest, Dispatching, Asking, Settled, Clear, Agrees,
                        Fits, platformVars
    <3>3. CASE ReturnsHide
      BY <1>1, <1>3, <3>3 DEF ReturnsHide, Dispatching, Hiding
    <3>4. CASE ReturnsShow
      BY <1>1, <1>3, <3>4 DEF ReturnsShow, Dispatching, Showing
    <3>5. CASE ReturnsUpdate
      BY <1>1, <1>3, <1>4, <3>5 DEF ReturnsUpdate, Dispatching, Updating, Shrinking, Settled,
                              Agrees, Fits, AcceptAction, platformVars
    <3> QED
      BY <2>1, <3>1, <3>2, <3>3, <3>4, <3>5 DEF Unwritten
  <2> QED
    BY <1>2, <2>1, <2>2, <2>3 DEF EngineInvariant
<1>6. CASE OnAccept
  <2>1. /\ ReturnsPart \/ ReturnsWhole
        /\ OneCorrection'
        /\ announced' = Head(cmds').text
    BY <1>1, <1>2, <1>6, AcceptReturns DEF OnAccept, Call
  <2>2. CASE ReturnsPart
    <3>1. /\ todo' = <<PartWritten, Command("UpdateGhost", showing')>>
          /\ PartWritten.op = "Insert" /\ PartWritten.text = 1
      BY <1>1, <2>2 DEF ReturnsPart, PartWritten, Command
    <3>2. Inserting'
      BY <1>1, <1>3, <1>4, <2>2, <3>1 DEF ReturnsPart, Inserting, Shrinking, Settled, Agrees,
                                    Fits, AcceptAction, platformVars
    <3>3. Accounting'
      BY <1>1, <2>1, <3>1 DEF Accounting, Writes
    <3> QED
      BY <1>2, <2>1, <3>2, <3>3 DEF EngineInvariant, Dispatching
  <2>3. CASE ReturnsWhole
    <3>1. /\ todo' = <<Commit(showing), Hide>>
          /\ Commit(showing).op \in Writes /\ Commit(showing).text = Current(showing)
      BY <1>1, <2>3 DEF ReturnsWhole, Commit, Command, Writes
    <3>2. Committing'
      BY <1>1, <1>3, <1>4, <2>3, <3>1 DEF ReturnsWhole, Committing, platformVars
    <3>3. Accounting'
      BY <1>1, <1>4, <2>1, <2>3, <3>1 DEF Accounting, ReturnsWhole, Words
    <3> QED
      BY <1>2, <2>1, <3>2, <3>3 DEF EngineInvariant, Dispatching
  <2> QED
    BY <2>1, <2>2, <2>3
<1> QED
  BY <1>5, <1>6

\* An abandoned dispatch leaves nothing on the platform that is not accounted for.
LEMMA FailKeeps ==
    ASSUME EngineInvariant, TypeOK', ~placeFailed, showing' = None,
           NEW painted, NEW key, NEW hides \in BOOLEAN, NEW disarms \in BOOLEAN,
           HideOverlay(painted, hides), DisarmTap(key, disarms),
           stuck' = StillOn(hides, disarms), todo' = <<>>, failed' = TRUE,
           UNCHANGED <<placeFailed, committed, announced, written>>
    PROVE  EngineInvariant'
<1>1. Clear'
  BY DEF Clear, StillOn, HideOverlay, DisarmTap
<1>2. Dispatching' /\ OneCorrection'
  BY <1>1 DEF Dispatching, Nothing, Settled, OneCorrection
<1>3. Accounting'
  BY DEF EngineInvariant, Accounting, Idle
<1> QED
  BY <1>2, <1>3 DEF EngineInvariant

\* The head of the list tells which form it has.
LEMMA HeadTells ==
    ASSUME EngineInvariant, todo # <<>>
    PROVE  /\ ~placeFailed
           /\ Head(todo).op = "RequestCompletion" => Asking
           /\ Head(todo).op \in {"ShowGhost", "ShowCorrection"} => Showing
           /\ Head(todo).op = "SetAction" => Storing
           /\ Head(todo).op = "SetVisible" => Revealing
           /\ Head(todo).op = "UpdateGhost" => Updating
           /\ Head(todo).op \in Writes => Inserting \/ Committing
           /\ Head(todo).op = "Hide" => Hiding
BY DEF EngineInvariant, Dispatching, Nothing, Asking, Showing, Storing, Revealing,
       Updating, Inserting, Committing, Hiding, Writes, Show, Command, TapCall, Hide

\* A list of one command stays one.
LEMMA OneCall ==
    ASSUME NEW op, NEW command, NEW list, list = <<command>>
    PROVE  [list EXCEPT ![1].op = op] = <<TapCall(op, command)>>
BY DEF TapCall

\* Each command leaves the rest of its list, or ends the dispatch in order.
LEMMA ExecuteKeeps ==
    ASSUME EngineInvariant, Execute
    PROVE  EngineInvariant'
<1> USE DEF EngineInvariant, NextIs
<1>1. TypeOK' /\ OneCorrection
  BY EngineStepsMachine, TypeStep DEF EngineNext
<1>2. ASSUME UNCHANGED vars PROVE OneCorrection'
  BY <1>2 DEF OneCorrection, vars
<1>3. CASE RequestCompletion
  <2>1. Asking
    BY <1>3, HeadTells DEF RequestCompletion
  <2>2. Nothing'
    BY <1>3, <2>1 DEF RequestCompletion, Asking, Nothing, Settled, Clear, Agrees, Fits, vars,
                      platformVars
  <2>3. Accounting'
    BY <1>3, <2>1 DEF RequestCompletion, Asking, Accounting, Writes, Idle
  <2> QED
    BY <1>1, <1>2, <1>3, <2>2, <2>3 DEF RequestCompletion, Dispatching
<1>4. ASSUME NEW painted, NEW key, Fail(DropFailedShow, painted, key), ~placeFailed
      PROVE  EngineInvariant'
  <2>1. showing' = None
    BY <1>4 DEF Fail, DropFailedShow, FailedShow
  <2>2. PICK hides, disarms \in BOOLEAN :
           /\ HideOverlay(painted, hides) /\ DisarmTap(key, disarms)
           /\ stuck' = StillOn(hides, disarms)
    BY <1>4 DEF Fail
  <2> QED
    BY <1>1, <1>4, <2>1, <2>2, FailKeeps DEF Fail
<1>5. CASE ShowSuggestion
  <2>1. /\ Showing /\ todo # <<>>
        /\ Head(todo) = Show(showing) /\ Tail(todo) = <<>>
    <3>1. NextIs({"ShowGhost", "ShowCorrection"})
      BY <1>5 DEF ShowSuggestion
    <3>2. Showing
      BY <3>1, HeadTells
    <3> QED
      BY <3>2 DEF Showing
  <2>2. Head(todo).op \notin Writes
    BY <2>1 DEF Show, Command, Writes
  <2>3. CASE Fail(DropFailedShow, screen, tap)
    BY <1>4, <2>1, <2>3 DEF Showing
  <2>4. ASSUME placeFailed' = TRUE, todo' = Tail(todo),
               UNCHANGED <<vars, delayHide, committed, failed, platformVars, announced, written>>
        PROVE  EngineInvariant'
    <3>1. Nothing'
      BY <2>1, <2>4 DEF Nothing
    <3>2. Accounting'
      BY <2>1, <2>2, <2>4 DEF Accounting, Idle
    <3> QED
      BY <1>1, <1>2, <2>4, <3>1, <3>2 DEF Dispatching
  <2>5. ASSUME screen' = Picture(Show(showing)),
               NextCall("SetAction"),
               UNCHANGED <<vars, placeFailed, delayHide, committed, failed, announced, written>>
        PROVE  EngineInvariant'
    <3>1. todo' = <<TapCall("SetAction", Show(showing))>>
      BY <2>1, <2>5, OneCall DEF Showing, NextCall
    <3>2. Storing'
      BY <2>1, <2>5, <3>1 DEF Showing, Storing, Picture, Show, Command, TapCall, Current,
                              AcceptAction, vars
    <3>3. Accounting'
      <4>1. Head(todo').op = "SetAction" /\ todo' # <<>>
        BY <3>1 DEF TapCall, Show, Command
      <4> QED
        BY <2>1, <2>2, <2>5, <4>1 DEF EngineInvariant, Accounting, Writes, Idle
    <3> QED
      BY <1>1, <1>2, <2>5, <3>2, <3>3 DEF Dispatching
  <2> QED
    BY <1>5, <2>1, <2>3, <2>4, <2>5 DEF ShowSuggestion
<1>6. CASE SetAcceptAction
  <2>1. Storing
    <3>1. NextIs({"SetAction"})
      BY <1>6 DEF SetAcceptAction
    <3> QED
      BY <3>1, HeadTells
  <2>2. CASE \E key \in {tap, ArmedFor(Head(todo))} : Fail(DropFailedShow, screen, key)
    BY <1>4, <2>1, <2>2 DEF Storing
  <2>3. ASSUME tap' = ArmedFor(Head(todo)),
               NextCall("SetVisible"),
               UNCHANGED <<vars, placeFailed, committed, failed, screen, announced, written>>
        PROVE  EngineInvariant'
    <3>1. todo' = <<TapCall("SetVisible", Show(showing))>>
      <4>1. todo' = <<TapCall("SetVisible", TapCall("SetAction", Show(showing)))>>
        BY <2>1, <2>3, OneCall DEF Storing, NextCall
      <4> QED
        BY <4>1 DEF TapCall, Show, Command
    <3>2. tap' = AcceptAction(showing.presentation)
      BY <2>1, <2>3 DEF Storing, ArmedFor, TapCall, Show, Command
    <3>3. tap' # None
      BY <3>2 DEF AcceptAction
    <3>4. Revealing'
      BY <2>1, <2>3, <3>1, <3>2, <3>3
         DEF Storing, Revealing, Picture, Show, Command, TapCall, Current, AcceptAction, vars
    <3>5. Accounting'
      <4>1. Head(todo).op = "SetAction" /\ Head(todo').op = "SetVisible"
            /\ todo # <<>> /\ todo' # <<>>
        BY <2>1, <3>1 DEF Storing, TapCall, Show, Command
      <4> QED
        BY <2>3, <4>1 DEF EngineInvariant, Accounting, Idle, Writes
    <3> QED
      BY <1>1, <1>2, <2>3, <3>4, <3>5 DEF Dispatching
  <2> QED
    BY <1>6, <2>2, <2>3 DEF SetAcceptAction
<1>7. CASE SetSuggestionVisible
  <2>1. Revealing
    <3>1. NextIs({"SetVisible"})
      BY <1>7 DEF SetSuggestionVisible
    <3> QED
      BY <3>1, HeadTells
  <2>2. CASE \E key \in {tap, Defaulted} : Fail(DropFailedShow, screen, key)
    BY <1>4, <2>1, <2>2 DEF Revealing
  <2>3. ASSUME tap' = Defaulted, hideTimer' = FALSE, todo' = Tail(todo),
               UNCHANGED <<vars, placeFailed, committed, failed, screen, raced,
                           announced, written>>
        PROVE  EngineInvariant'
    <3>1. todo' = <<>> /\ ~placeFailed'
      BY <2>1, <2>3 DEF Revealing
    <3>2. Agrees' /\ showing' # None
      BY <2>1, <2>3 DEF Revealing, Agrees, Fits, Defaulted, Picture, Show, Command, Current,
                        AcceptAction, vars
    <3>3. Accounting'
      <4>1. Head(todo).op = "SetVisible" /\ todo # <<>>
        BY <2>1 DEF Revealing, TapCall, Show, Command
      <4> QED
        BY <2>3, <3>1, <4>1 DEF EngineInvariant, Accounting, Idle, Writes
    <3> QED
      BY <1>1, <1>2, <2>3, <3>1, <3>2, <3>3 DEF Dispatching, Nothing, Settled
  <2> QED
    BY <1>7, <2>2, <2>3 DEF SetSuggestionVisible, CancelHide
<1>8. CASE UpdateGhost
  <2>1. Updating
    BY <1>8, HeadTells DEF UpdateGhost
  <2>2. CASE UpdateFails
    BY <1>1, <2>1, <2>2, FailKeeps DEF Updating, UpdateFails, Fail, Dismiss, HideDismissed
  <2>3. CASE ~UpdateFails
    <3>1. /\ screen' = Picture(Command("UpdateGhost", showing)) /\ todo' = <<>>
          /\ UNCHANGED <<vars, placeFailed, delayHide, committed, failed, tap, hideTimer,
                         stuck, announced, written>>
      BY <1>8, <2>1, <2>3 DEF UpdateGhost, Updating
    <3>2. Agrees' /\ showing' # None
      BY <2>1, <3>1 DEF Updating, Shrinking, Agrees, Fits, Picture, Show, Command, AcceptAction, vars
    <3>3. Accounting'
      BY <1>8, <3>1 DEF UpdateGhost, Accounting, Writes, Idle
    <3> QED
      BY <1>1, <1>2, <3>1, <3>2, <3>3 DEF Dispatching, Nothing, Settled
  <2> QED
    BY <2>2, <2>3
<1>9. CASE WriteField
  <2>1. Inserting \/ Committing
    BY <1>9, HeadTells DEF WriteField, Writes
  <2>2. CASE Fail(Dismiss, screen, tap)
    BY <1>1, <2>1, <2>2, FailKeeps
       DEF Inserting, Committing, Fail, Dismiss, HideDismissed
  <2>3. CASE ~Fail(Dismiss, screen, tap)
    <3>1. /\ written' = written + Head(todo).text /\ committed' = TRUE
          /\ todo' = Tail(todo)
          /\ UNCHANGED <<vars, placeFailed, failed, platformVars, announced>>
      BY <1>9, <2>3 DEF WriteField, RecordWrite
    <3>2. Updating' \/ Hiding'
      <4>1. CASE Inserting
        <5>1. todo' = <<Command("UpdateGhost", showing)>>
          BY <3>1, <4>1 DEF Inserting
        <5>2. showing' = showing /\ todo' = <<Command("UpdateGhost", showing')>>
          BY <3>1, <5>1 DEF vars, Command, Current, AcceptAction
        <5> QED
          BY <3>1, <4>1, <5>2 DEF Inserting, Updating, Shrinking, vars, platformVars
      <4>2. CASE Committing
        BY <3>1, <4>2 DEF Committing, Hiding, Hide, vars
      <4> QED
        BY <2>1, <4>1, <4>2
    <3>3. written' = announced'
      BY <1>9, <3>1 DEF WriteField, Accounting, Writes
    <3>4. Head(todo').op \notin Writes
      BY <3>2 DEF Updating, Hiding, Writes, Command, Hide
    <3>5. Accounting'
      BY <3>1, <3>3, <3>4 DEF Accounting
    <3> QED
      BY <1>1, <1>2, <3>1, <3>2, <3>5 DEF Dispatching
  <2> QED
    BY <2>2, <2>3
<1>10. CASE HideSuggestion
  <2>1. Hiding /\ todo' = <<>>
    <3>1. NextIs({"Hide"}) /\ (todo' = <<>> \/ todo' = Tail(todo))
      BY <1>10, Zenon DEF HideSuggestion
    <3>2. Hiding
      BY <3>1, HeadTells
    <3> QED
      BY <3>1, <3>2 DEF Hiding
  <2>2. Clear' /\ showing' = None /\ ~placeFailed'
    <3>1. PICK hides, disarms \in BOOLEAN :
                 HideOverlay(screen, hides) /\ ReleaseTap(hides, disarms)
      BY <1>10 DEF HideSuggestion
    <3>2. Clear'
      BY <3>1 DEF HideOverlay, ReleaseTap, DisarmSoon, DisarmTap, StillOn, Clear
    <3> QED
      BY <1>10, <2>1, <3>2 DEF HideSuggestion, Hiding, vars
  <2>3. Accounting'
    BY <1>10, <2>1 DEF HideSuggestion, Accounting, Hiding, Hide, Writes, Idle
  <2> QED
    BY <1>1, <1>2, <1>10, <2>1, <2>2, <2>3 DEF HideSuggestion, Dispatching, Nothing, Settled
<1>11. CASE DismissUnplaced
  <2>1. Hiding'
    BY <1>11 DEF DismissUnplaced, DropFailedShow, FailedShow, Hiding
  <2>2. Accounting'
    BY <1>11, <2>1 DEF DismissUnplaced, Accounting, Idle, Hiding, Hide, Writes
  <2> QED
    BY <1>1, <2>1, <2>2 DEF Hiding, Dispatching, OneCorrection
<1> QED
  BY <1>3, <1>5, <1>6, <1>7, <1>8, <1>9, <1>10, <1>11 DEF Execute

\* The delayed disarming finds an overlay that is gone, or a suggestion whose own
\* arming is not complete.
LEMMA TimerKeeps ==
    ASSUME EngineInvariant, HideTimerFires
    PROVE  EngineInvariant'
<1>1. TypeOK' /\ OneCorrection'
  BY EngineStepsMachine, TypeStep
     DEF EngineInvariant, EngineNext, HideTimerFires, OneCorrection, vars
<1>2. Settled => Settled'
  BY DEF Settled, Clear, Agrees, Fits, HideTimerFires, vars
<1>3. Revealing => Revealing'
  <2> SUFFICES ASSUME Revealing PROVE Revealing'
    OBVIOUS
  <2>1. todo # <<>> /\ Head(todo).op = "SetVisible"
    BY DEF Revealing, TapCall, Show, Command
  <2>2. tap' = None /\ raced'
    BY <2>1 DEF HideTimerFires, NextIs
  <2> QED
    BY <2>2 DEF Revealing, HideTimerFires, Picture, Show, Command, TapCall, Current,
                AcceptAction, vars, dispatchVars
<1>4. Dispatching'
  <2>1. CASE Storing
    BY <2>1 DEF Dispatching, Storing, HideTimerFires, Picture, Show, Command, TapCall,
                Current, AcceptAction, vars, dispatchVars
  <2>2. CASE ~Storing
    BY <1>2, <1>3, <2>2 DEF EngineInvariant, Dispatching, Nothing, Asking, Showing,
                Updating, Inserting, Committing, Hiding, Shrinking, HideTimerFires, vars,
                dispatchVars
  <2> QED
    BY <2>1, <2>2
<1>5. Accounting'
  BY DEF EngineInvariant, Accounting, Idle, HideTimerFires, dispatchVars
<1> QED
  BY <1>1, <1>4, <1>5 DEF EngineInvariant

\* The invariant is inductive.
LEMMA EngineInvariantHolds == EngineSpec => []EngineInvariant
<1>1. EngineInvariant /\ [EngineNext]_dispatch => EngineInvariant'
  <2> SUFFICES ASSUME EngineInvariant, [EngineNext]_dispatch PROVE EngineInvariant'
    OBVIOUS
  <2>1. CASE UNCHANGED dispatch
    BY <2>1 DEF dispatch, engineVars, dispatchVars, platformVars, vars, statVars, textVars,
                EngineInvariant, TypeOK, OneCorrection, Enabled, Dispatching, Nothing,
                Asking, Showing, Storing, Revealing, Updating, Inserting, Committing,
                Hiding, Shrinking, Settled, Clear, Agrees, Fits, Accounting, Idle
  <2> QED
    BY <2>1, CallKeeps, ExecuteKeeps, TimerKeeps DEF EngineNext
<1> QED
  BY EngineInitially, <1>1, PTL DEF EngineSpec, dispatch
----------------------------------------------------------------------------

\* What the invariant says between calls.
LEMMA BetweenCalls ==
    EngineInvariant =>
        ShownIsPainted /\ KeyFitsSuggestion /\ NothingLeftBehind /\ CommitIsReported
<1> SUFFICES ASSUME EngineInvariant, Idle
             PROVE  ShownIsPainted /\ KeyFitsSuggestion /\ NothingLeftBehind
                    /\ CommitIsReported
  BY DEF ShownIsPainted, KeyFitsSuggestion, NothingLeftBehind, CommitIsReported
<1>1. Settled
  BY DEF EngineInvariant, Idle, Dispatching, Nothing, Asking, Showing, Storing, Revealing,
         Updating, Inserting, Committing, Hiding
<1>2. ShownIsPainted /\ KeyFitsSuggestion /\ NothingLeftBehind
  BY <1>1 DEF Settled, Agrees, Fits, Clear, ShownIsPainted, KeyFitsSuggestion, NothingLeftBehind
<1>3. CommitIsReported
  BY DEF EngineInvariant, Accounting, Idle, CommitIsReported
<1> QED
  BY <1>2, <1>3

\* Whatever fails, a suggestion the machine holds is on the screen between calls,
\* with the text an accept would write.
THEOREM HeldSuggestionsArePainted == EngineSpec => []ShownIsPainted
BY EngineInvariantHolds, BetweenCalls, PTL

\* The accept key is armed for the suggestion that is shown, and no disarming is on
\* its way; its action is the suggestion's own unless a delayed hide came between
\* the two calls of set_tap_visible.
THEOREM KeysFitSuggestions == EngineSpec => []KeyFitsSuggestion
BY EngineInvariantHolds, BetweenCalls, PTL

\* Nothing stays painted or armed but what the platform refused to take down.
THEOREM NothingIsLeftBehind == EngineSpec => []NothingLeftBehind
BY EngineInvariantHolds, BetweenCalls, PTL

\* An accept reports whether it has written.
THEOREM CommitsAreReported == EngineSpec => []CommitIsReported
BY EngineInvariantHolds, BetweenCalls, PTL

\* An accept writes nothing that is not painted at that moment.
THEOREM OnlyPaintedTextIsWritten == EngineSpec => WritesOnlyWhatIsPainted
<1> DEFINE Painted == written' > written =>
                         screen # None /\ Head(todo).text <= screen.text
<1>1. EngineInvariant /\ [EngineNext]_dispatch => Painted
  <2> SUFFICES ASSUME EngineInvariant, EngineNext PROVE Painted
    BY DEF EngineInvariant, Accounting, dispatch, engineVars
  <2>1. CASE WriteField /\ ~Fail(Dismiss, screen, tap)
    <3>1. NextIs(Writes)
      BY <2>1 DEF WriteField, Writes
    <3>2. Inserting \/ Committing
      BY <3>1, HeadTells DEF NextIs
    <3> QED
      BY <3>2 DEF Inserting, Committing, Shrinking, Words
  <2>2. CASE OnEvent \/ OnAccept
    <3>1. written' = 0
      BY <2>2 DEF OnEvent, OnAccept, Call
    <3> QED
      BY <3>1 DEF EngineInvariant, Accounting
  <2>3. CASE ~(WriteField /\ ~Fail(Dismiss, screen, tap)) /\ ~(OnEvent \/ OnAccept)
    <3>1. UNCHANGED written
      BY <2>3 DEF EngineNext, Execute, RequestCompletion, ShowSuggestion,
                  SetAcceptAction, SetSuggestionVisible, UpdateGhost, UpdateFails, WriteField, HideSuggestion, DismissUnplaced,
                  HideTimerFires, Fail
    <3> QED
      BY <3>1 DEF EngineInvariant, Accounting
  <2> QED
    BY <2>1, <2>2, <2>3
<1>2. EngineInvariant /\ [EngineNext]_dispatch => [Painted]_dispatch
  BY <1>1
<1> QED
  BY EngineInvariantHolds, <1>2, PTL
     DEF EngineSpec, WritesOnlyWhatIsPainted, dispatch
=============================================================================
