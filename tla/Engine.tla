------------------------------- MODULE Engine -------------------------------
(***************************************************************************)
(* The engine, crates/engine/src/lib.rs: the suggestion machine with the   *)
(* overlay that paints, the field that is written and the accept tap that  *)
(* catches the accept key.  A call of the host hands one event to the      *)
(* machine; dispatch_with_commit then carries the returned commands out in *)
(* order, and every call it makes to the platform may fail.                *)
(*                                                                         *)
(* A call of the overlay that fails leaves the screen as it was; one of    *)
(* the tap may have done its work all the same.  What the adapter inserts  *)
(* is all or nothing.  These are external.  Arming the tap is two calls,   *)
(* and a step for each: a delayed hide on another thread may come between. *)
(***************************************************************************)
EXTENDS SuggestionMachine

VARIABLES
    todo,        \* what the call under way has still to do: its commands and,
                 \* while one is shown, the two calls that arm the tap for it
    placeFailed, \* show_failed: there was no place to paint at
    delayHide,   \* delay_next_hide
    committed,   \* committed: the call under way has written the field
    failed,      \* the call under way, or the last one, returned an error
    screen,      \* what the overlay paints
    tap,         \* the action the armed accept key stands for, None unarmed
    hideTimer,   \* a delayed disarming of the tap is scheduled
    announced,   \* history: what preview_accept_* said before this call
    written,     \* history: what this call has written into the field
    stuck,       \* history: which of "screen", "tap" refused to be taken down
    raced        \* history: the last hide that came late came between the two
                 \* calls that arm the tap

Painting == [kind : {"Ghost", "Correction"}, text : Nat]

\* None is neither a painting nor an accept action.
ASSUME ScreenAssumption ==
    None \notin Painting /\ None \notin {"Full", "Word", "Correction"}

dispatchVars == <<todo, placeFailed, delayHide, committed, failed>>
platformVars == <<screen, tap, hideTimer, stuck, raced>>
engineVars   == <<dispatchVars, platformVars, announced, written>>

Idle == todo = <<>> /\ ~placeFailed

Picture(command) ==
    [kind |-> IF command.op = "ShowCorrection" THEN "Correction" ELSE "Ghost",
     text |-> command.text]

----------------------------------------------------------------------------
(* Calls. *)

\* An event handed to the machine.  The commands it returns are dispatched with
\* fresh local flags.
Call(event, preview) ==
    /\ Idle
    /\ event
    /\ todo' = cmds'
    /\ delayHide' = FALSE /\ committed' = FALSE /\ failed' = FALSE
    /\ announced' = preview /\ written' = 0
    /\ UNCHANGED <<placeFailed, platformVars>>

OnEvent == Call(Boundary \/ Answer \/ HostCall \/ Cycle \/ ForceShow, 0)

OnAccept ==
    \/ Call(AcceptFull, Preview("Full"))
    \/ Call(AcceptWord, Preview("Word"))
    \/ Call(AcceptCorrection, Preview("Correction"))

----------------------------------------------------------------------------
(* Commands. *)

NextIs(op) == todo # <<>> /\ Head(todo).op \in op

\* overlay.hide and set_tap_visible(false, None), whether each works or not.
\* The painted and armed arguments are what the overlay and tap are at then.  Of
\* the two calls that disarm, the first releases the key and cancels a delayed
\* hide, so nothing can come between them; the second may fail after it.
HideOverlay(painted, works) ==
    screen' = IF works THEN None ELSE painted

DisarmTap(key, works) ==
    /\ tap' \in IF works THEN {None} ELSE {None, key}
    /\ hideTimer' \in IF works THEN {FALSE} ELSE {FALSE, hideTimer}

StillOn(hides, disarms) ==
    (IF hides THEN {} ELSE {"screen"}) \cup (IF disarms THEN {} ELSE {"tap"})

\* Mutant: the machine keeps the suggestion that could not be placed.
RetractOnly ==
    /\ CancelLastShown
    /\ cmds' = <<>>
    /\ UNCHANGED <<caps, allowMid, snapshot, textVars, pending, requested, showing,
                   suppressed, now, armed>>

\* reconcile_failed_show, its part that concerns the machine.
DropFailedShow == FailedShow

\* fail: overlay and tap are taken down, errors ignored, the machine forgets the
\* suggestion, and the rest of the commands is abandoned.
Fail(reconcile, painted, key) ==
    /\ reconcile
    /\ \E hides, disarms \in BOOLEAN :
          /\ HideOverlay(painted, hides)
          /\ DisarmTap(key, disarms)
          /\ stuck' = StillOn(hides, disarms)
    /\ todo' = <<>> /\ failed' = TRUE
    /\ UNCHANGED <<placeFailed, delayHide, committed, raced, announced, written>>

RequestCompletion ==
    /\ NextIs({"RequestCompletion"})
    /\ todo' = Tail(todo)
    /\ UNCHANGED <<vars, placeFailed, delayHide, committed, failed, platformVars,
                   announced, written>>

ArmedFor(command) == command.action

\* The command stays at the head of the list until its last call is made.
NextCall(op) == todo' = [todo EXCEPT ![1].op = op]

\* ShowGhost and ShowCorrection, up to the overlay.
ShowSuggestion ==
    LET command == Head(todo) IN
    /\ NextIs({"ShowGhost", "ShowCorrection"})
    /\ \/ \* the anchor or the overlay fails
          Fail(DropFailedShow, screen, tap)
       \/ \* there is no anchor
          /\ placeFailed' = TRUE /\ todo' = Tail(todo)
          /\ UNCHANGED <<vars, delayHide, committed, failed, platformVars,
                         announced, written>>
       \/ /\ screen' = Picture(command)
          /\ NextCall("SetAction")
          /\ UNCHANGED <<vars, placeFailed, delayHide, committed, failed, tap,
                         hideTimer, stuck, raced, announced, written>>

\* set_accept_action, the first half of set_tap_visible(true, action).  It arms
\* the key; a delayed hide is still to come.
SetAcceptAction ==
    LET command == Head(todo) IN
    /\ NextIs({"SetAction"})
    /\ \/ \E key \in {tap, ArmedFor(command)} : Fail(DropFailedShow, screen, key)
       \/ /\ tap' = ArmedFor(command)
          /\ raced' = FALSE
          /\ NextCall("SetVisible")
          /\ UNCHANGED <<vars, placeFailed, delayHide, committed, failed, screen,
                         hideTimer, stuck, announced, written>>

\* get_or_insert(Full): an action that a delayed hide has taken back is a full
\* accept from then on.
Defaulted == IF tap = None THEN "Full" ELSE tap

\* Mutant: showing a suggestion leaves a scheduled hide to fire.
LeaveHide == UNCHANGED hideTimer

CancelHide == hideTimer' = FALSE

\* set_suggestion_visible(true), the second half.
SetSuggestionVisible ==
    /\ NextIs({"SetVisible"})
    /\ \/ \E key \in {tap, Defaulted} : Fail(DropFailedShow, screen, key)
       \/ /\ tap' = Defaulted
          /\ CancelHide
          /\ stuck' = {}
          /\ todo' = Tail(todo)
          /\ UNCHANGED <<vars, placeFailed, delayHide, committed, failed, screen,
                         raced, announced, written>>

\* Mutant: the update fails without the machine being told.
UpdateFailsSilently ==
    /\ todo' = <<>> /\ failed' = TRUE
    /\ UNCHANGED <<vars, placeFailed, delayHide, committed, platformVars,
                   announced, written>>

UpdateFails == Fail(Dismiss, screen, tap)

UpdateGhost ==
    /\ NextIs({"UpdateGhost"})
    /\ \/ UpdateFails
       \/ /\ screen' = Picture(Head(todo))
          /\ todo' = Tail(todo)
          /\ UNCHANGED <<vars, placeFailed, delayHide, committed, failed, tap,
                         hideTimer, stuck, raced, announced, written>>

\* Mutant: the flag is not set, so a later failure denies the write.
WriteUnrecorded == UNCHANGED committed

RecordWrite == committed' = TRUE

\* Insert, Replace and ReplaceRange.
WriteField ==
    /\ NextIs({"Insert", "Replace", "ReplaceRange"})
    /\ \/ Fail(Dismiss, screen, tap)
       \/ /\ written' = written + Head(todo).text
          /\ RecordWrite
          /\ delayHide' = (caps.strategy = "SyntheticKeys")
          /\ todo' = Tail(todo)
          /\ UNCHANGED <<vars, placeFailed, failed, platformVars, announced>>

\* After an insertion by synthetic keys the disarming is left to a timer.
DisarmSoon(disarms) ==
    IF delayHide THEN hideTimer' = (hideTimer \/ disarms) /\ UNCHANGED tap
                 ELSE DisarmTap(tap, disarms)

\* Mutant: an overlay that fails to hide ends the command.
ReleaseIfHidden(hides, disarms) ==
    /\ IF hides THEN DisarmSoon(disarms) ELSE UNCHANGED <<tap, hideTimer>>
    /\ stuck' = StillOn(hides, disarms)

\* The tap is taken down whether or not the overlay hid.
ReleaseTap(hides, disarms) ==
    /\ DisarmSoon(disarms)
    /\ stuck' = StillOn(hides, disarms)

HideSuggestion ==
    /\ NextIs({"Hide"})
    /\ \E hides, disarms \in BOOLEAN :
          /\ HideOverlay(screen, hides)
          /\ ReleaseTap(hides, disarms)
          /\ failed' = ~(hides /\ disarms)
    /\ delayHide' = FALSE
    /\ todo' = IF failed' THEN <<>> ELSE Tail(todo)
    /\ UNCHANGED <<vars, placeFailed, committed, raced, announced, written>>

\* After the commands: a suggestion that found no place is dismissed, and the
\* Hide that yields is dispatched in turn.
DismissUnplaced ==
    /\ todo = <<>> /\ placeFailed
    /\ DropFailedShow
    /\ todo' = cmds'
    /\ placeFailed' = FALSE
    /\ UNCHANGED <<delayHide, committed, failed, platformVars, announced, written>>

\* The delayed disarming, on a thread or watchdog of the platform.
HideTimerFires ==
    /\ hideTimer
    /\ tap' = None /\ hideTimer' = FALSE
    /\ raced' = NextIs({"SetVisible"})
    /\ UNCHANGED <<vars, dispatchVars, screen, stuck, announced, written>>

Execute ==
    \/ RequestCompletion
    \/ ShowSuggestion
    \/ SetAcceptAction
    \/ SetSuggestionVisible
    \/ UpdateGhost
    \/ WriteField
    \/ HideSuggestion
    \/ DismissUnplaced

----------------------------------------------------------------------------

EngineInit ==
    /\ Init
    /\ todo = <<>> /\ placeFailed = FALSE /\ delayHide = FALSE
    /\ committed = FALSE /\ failed = FALSE
    /\ screen = None /\ tap = None /\ hideTimer = FALSE
    /\ announced = 0 /\ written = 0 /\ stuck = {} /\ raced = FALSE

EngineNext == OnEvent \/ OnAccept \/ Execute \/ HideTimerFires

EngineSpec == EngineInit /\ [][EngineNext]_<<vars, engineVars>>

----------------------------------------------------------------------------
(* Properties. *)

\* Between calls the machine's idea of the screen is the screen: a suggestion it
\* holds is painted with the very text an accept would use, whichever call to
\* the platform failed before.
ShownIsPainted ==
    Idle /\ showing # None => screen = Picture(Show(showing))

\* Between calls the accept key of a suggestion is armed, and no disarming left
\* over from an earlier accept is about to take it away (set_suggestion_visible).
\* It has the action the suggestion answers to, unless a delayed hide came between
\* the two calls that armed it: then, and only then, a correction stands under the
\* full accept.
KeyFitsSuggestion ==
    Idle /\ showing # None =>
        /\ ~hideTimer
        /\ \/ tap = AcceptAction(showing.presentation)
           \/ raced /\ tap = "Full"

\* Between calls nothing is painted and no key is caught when there is nothing to
\* accept, except what a platform call failed to take down; an overlay that will
\* not hide is no reason to keep the key.
NothingLeftBehind ==
    Idle /\ showing = None =>
        /\ screen = None \/ "screen" \in stuck
        /\ tap = None \/ hideTimer \/ "tap" \in stuck

\* AcceptError.committed tells the truth: after an accept the field holds what
\* the preview announced, unless the call failed and denies having written.
CommitIsReported ==
    Idle => written = IF failed /\ ~committed THEN 0 ELSE announced

\* No phantom accept: what an accept writes is on the screen when it is written.
WritesOnlyWhatIsPainted ==
    [][written' > written =>
         screen # None /\ Head(todo).text <= screen.text]_<<vars, engineVars>>

\* Finding.

\* The comment on set_accept_action in crates/platform/src/lib.rs: what it sets
\* holds for the keystrokes that follow.  Not for a correction whose show a delayed
\* hide comes between.
CorrectionKeepsItsKey ==
    Idle /\ showing # None => tap = AcceptAction(showing.presentation)

=============================================================================
