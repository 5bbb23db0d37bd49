------------------------- MODULE SuggestionMachine -------------------------
(***************************************************************************)
(* The pure suggestion core, crates/engine_core/src/lib.rs.  The machine   *)
(* consumes one event or host call at a time, changes its state and        *)
(* returns commands (the variable cmds holds what the last call returned). *)
(*                                                                         *)
(* Abstractions.  `generation' and `snapshot' only ever move together, in  *)
(* advance_snapshot, so one number stands for both.  A text is a sequence  *)
(* of word characters "w" and separators "s", which is what the trigger    *)
(* gates look at.  A candidate is the number of words it has, and a word   *)
(* is one caret unit wide; candidate lists are injective because both      *)
(* seeds drop duplicates.  A correction range and the original text it     *)
(* guards are always set together, and `span' stands for the pair.         *)
(* trailing_space_single_word only changes the characters an accept        *)
(* inserts and is left out.                                                *)
(***************************************************************************)
EXTENDS Integers, SequencesExt, FiniteSetsExt

CONSTANTS
    None,        \* Option::None
    Fields,      \* field handles
    CapSet,      \* capabilities a field reports: its ux_mode and strategy
    Texts,       \* field values the host reports
    Carets,      \* caret offsets the host reports
    Lists,       \* candidate lists left after shaping and deduplication
    Spans,       \* correction ranges <<start, end>> with their original text
    Snapshots,   \* the stamps a behaviour may use: Nat, or a bounded prefix
    Times,       \* clock readings: Nat, or a bounded prefix
    Debounce,    \* debounce_ms
    MinContext,  \* min_context_chars
    StatCap      \* STAT_EVENTS_CAP

UxModes    == {"Blocked", "Unsupported", "Hotkey", "Inline", "Popup"}
Strategies == {"AxSet", "NativeRangeSet", "SyntheticKeys", "None"}
Words      == Nat \ {0}

Unsupported == [mode |-> "Unsupported", strategy |-> "None"]

ASSUME MachineAssumption ==
    /\ CapSet \subseteq [mode : UxModes, strategy : Strategies]
    /\ Texts \subseteq Seq({"w", "s"})
    /\ Carets \subseteq Nat
    /\ \A l \in Lists : l \in Seq(Words) /\ l # <<>>
    /\ Spans \subseteq Nat \X Nat
    /\ Snapshots \subseteq Nat /\ 0 \in Snapshots
    /\ Times \subseteq Nat /\ 0 \in Times
    /\ Debounce \in Nat /\ MinContext \in Nat /\ StatCap \in Nat

Request == [snapshot : Snapshots, field : Fields,
            kind : {"Completion", "GrammarFix"}]

Suggestion == [field : Fields, snapshot : Snapshots, candidates : Seq(Words),
               index : Words, caret : Nat, replaceLeft : Nat,
               presentation : {"Ghost", "Correction", "SelectionReplacement"},
               span : (Nat \X Nat) \cup {None}]

\* None is outside every type it is an option of.
ASSUME NoneAssumption ==
    /\ None \notin Fields /\ None \notin Nat /\ None \notin Nat \X Nat
    /\ None \notin Request /\ None \notin Suggestion
    /\ None \notin {"Shown", "Superseded"}

VARIABLES
    caps, allowMid, snapshot, field, value, caret, pending, requested, showing,
    suppressed,
    now,          \* the clock of the last timed event
    stats,        \* stat_events
    retractable,  \* retractable_shown
    cmds,         \* the commands the last call returned
    armed,        \* history: the text the debounce or request was armed for
    lastDrained,  \* history: the last stat event the host has taken
    ownShown,     \* history: did the latest presentation buffer a Shown?
    lost          \* history: was a stat event dropped at the cap?

textVars == <<field, value, caret>>
statVars == <<stats, retractable, lastDrained, ownShown, lost>>
vars == <<caps, allowMid, snapshot, textVars, pending, requested, showing,
          suppressed, now, cmds, armed, statVars>>

----------------------------------------------------------------------------
(* Helpers of the handlers. *)

Enabled == caps.mode \in {"Inline", "Popup"}
Atomic  == caps.strategy \in {"AxSet", "NativeRangeSet"}

Current(s) == s.candidates[s.index]

\* left.trim().chars().count(): what lies between the outermost word characters.
TrimmedLength(left) ==
    LET words == {i \in DOMAIN left : left[i] = "w"}
    IN  IF words = {} THEN 0 ELSE Max(words) - Min(words) + 1

\* passes_trigger_gates; a caret past the end is clamped to it.
PassesGates(text, at, mid) ==
    LET cut == IF at > Len(text) THEN Len(text) ELSE at
    IN  /\ TrimmedLength(SubSeq(text, 1, cut)) >= MinContext
        /\ \/ mid
           \/ cut \notin 1 .. Len(text) - 1
           \/ text[cut] # "w"
           \/ text[cut + 1] # "w"

AcceptAction(presentation) ==
    IF presentation = "Correction" THEN "Correction" ELSE "Full"

Command(op, s) ==
    [op |-> op, field |-> s.field, text |-> Current(s),
     action |-> AcceptAction(s.presentation)]

Hide == [op |-> "Hide", field |-> None, text |-> 0, action |-> "Full"]

Show(s) == Command(IF s.presentation = "Ghost" THEN "ShowGhost"
                                               ELSE "ShowCorrection", s)

\* What accepting the whole of s does to the field: local_replacement_command,
\* selection_replacement_command, or the Insert of an append-only completion.
Commit(s) ==
    Command(IF s.span # None THEN "ReplaceRange"
            ELSE IF s.replaceLeft > 0 THEN "Replace" ELSE "Insert", s)


MatchesRequest(stamp, f, kind) ==
    /\ requested = [snapshot |-> stamp, field |-> f, kind |-> kind]
    /\ stamp = snapshot

\* Mutant: the boundary moves but the request in flight survives it.
AdvanceKeepingRequest ==
    /\ snapshot + 1 \in Snapshots
    /\ snapshot' = snapshot + 1
    /\ UNCHANGED requested

\* advance_snapshot: everything in flight becomes stale.
Advance ==
    /\ snapshot + 1 \in Snapshots
    /\ snapshot' = snapshot + 1
    /\ requested' = None

\* record_stat
Recorded(queue, event) ==
    IF Len(queue) < StatCap THEN Append(queue, event) ELSE queue

\* Mutant: Superseded is recorded although nothing was showing.
SupersededAlways == Recorded(stats, "Superseded")

SupersededStats == IF showing = None THEN stats ELSE Recorded(stats, "Superseded")

\* hide_if_showing after an event the user did not cause, and the Superseded
\* event on_event appends for it.
HideSuperseded ==
    /\ showing' = None
    /\ cmds' = IF showing = None THEN <<>> ELSE <<Hide>>
    /\ stats' = SupersededStats
    /\ lost' = (lost \/ (showing # None /\ Len(stats) >= StatCap))
    /\ UNCHANGED <<retractable, lastDrained, ownShown>>

\* hide_if_showing on a dismissal.
HideDismissed ==
    /\ showing' = None
    /\ cmds' = IF showing = None THEN <<>> ELSE <<Hide>>
    /\ UNCHANGED statVars

\* A new suggestion takes the screen, superseding the one that is there.
Present(s) ==
    /\ showing' = s
    /\ cmds' = <<Show(s)>>
    /\ stats' = Recorded(SupersededStats, "Shown")
    /\ LET room == Len(SupersededStats) < StatCap
       IN  /\ retractable' = (retractable \/ room)
           /\ ownShown' = room
           /\ lost' = (lost \/ ~room)
    /\ UNCHANGED lastDrained

\* Mutant: an armed debounce survives the event that should cancel it.
KeepPending == UNCHANGED <<pending, armed>>

\* pending_since = None, what every event that outdates the context does.
CancelPending == pending' = None /\ armed' = None

\* Mutant: an offer cancels the debounce and forgets the request in flight.
DisarmDebounceOnly == pending' = None /\ UNCHANGED <<requested, armed>>

\* An offer preempts the model: neither the debounce nor the request survives.
Disarm == CancelPending /\ requested' = None

\* Mutant: the clear of retractable_shown is forgotten.
ReshowKeepsFlag == UNCHANGED retractable /\ ownShown' = FALSE

\* Cycle and ForceShow re-present a suggestion that is already counted.
Reshow == retractable' = FALSE /\ ownShown' = FALSE

NewShowing(f, list, left, presentation, span) ==
    [field |-> f, snapshot |-> snapshot, candidates |-> list, index |-> 1,
     caret |-> caret, replaceLeft |-> left, presentation |-> presentation,
     span |-> span]

----------------------------------------------------------------------------
(* Events that end the current boundary. *)

Focus(f, c) ==
    /\ Advance
    /\ HideSuperseded
    /\ caps' = c
    /\ field' = f /\ value' = <<>> /\ caret' = 0
    /\ CancelPending
    /\ suppressed' = FALSE
    /\ UNCHANGED <<allowMid, now>>

TextChanged(f, text, at, edit, trigger, t) ==
    LET arms == /\ edit # "Delete"
                /\ Enabled
                /\ trigger = "Automatic"
                /\ PassesGates(text, at, allowMid)
    IN  /\ t >= now
        /\ Advance
        /\ HideSuperseded
        /\ field' = f /\ value' = text /\ caret' = at
        /\ suppressed' = FALSE
        /\ pending' = IF arms THEN t ELSE None
        /\ armed' = IF arms THEN [field |-> f, value |-> text, caret |-> at,
                                  mid |-> allowMid]
                            ELSE None
        /\ now' = t
        /\ UNCHANGED <<caps, allowMid>>

\* Mutant: a caret report from another field with the same offset is no move.
MovedInField(f, at) == caret # at

Moved(f, at) == field # f \/ caret # at

CaretMoved(f, at) ==
    /\ IF Moved(f, at)
       THEN /\ Advance
            /\ HideSuperseded
            /\ CancelPending
       ELSE /\ cmds' = <<>>
            /\ UNCHANGED <<snapshot, requested, showing, pending, armed, statVars>>
    /\ field' = f /\ caret' = at
    /\ UNCHANGED <<caps, allowMid, value, suppressed, now>>

SecureStateChanged(c) ==
    /\ Advance
    /\ HideSuperseded
    /\ caps' = c
    /\ CancelPending
    /\ UNCHANGED <<allowMid, textVars, suppressed, now>>

DismissDiscard ==
    /\ Advance
    /\ HideDismissed
    /\ CancelPending
    /\ UNCHANGED <<caps, allowMid, textVars, suppressed, now>>

DismissSuppress ==
    /\ Advance
    /\ HideDismissed
    /\ suppressed' = TRUE
    /\ CancelPending
    /\ UNCHANGED <<caps, allowMid, textVars, now>>

\* The snapshot-neutral Dismiss: what is in flight stays valid.
Dismiss ==
    /\ HideDismissed
    /\ UNCHANGED <<caps, allowMid, snapshot, textVars, pending, requested,
                   suppressed, now, armed>>

----------------------------------------------------------------------------
(* Requests and their answers. *)

Tick(t) ==
    /\ t >= now
    /\ now' = t
    /\ IF pending # None /\ field # None /\ Enabled /\ t - pending >= Debounce
       THEN /\ requested' = [snapshot |-> snapshot, field |-> field,
                             kind |-> "Completion"]
            /\ pending' = None
            /\ cmds' = <<[op |-> "RequestCompletion", field |-> field,
                          text |-> 0, action |-> "Full"]>>
       ELSE /\ cmds' = <<>>
            /\ UNCHANGED <<requested, pending>>
    /\ UNCHANGED <<caps, allowMid, snapshot, textVars, showing, suppressed,
                   armed, statVars>>

\* arm_manual_grammar_request
ArmGrammar(f) ==
    /\ Enabled /\ ~suppressed /\ field = f
    /\ pending' = None
    /\ requested' = [snapshot |-> snapshot, field |-> f, kind |-> "GrammarFix"]
    /\ armed' = [field |-> field, value |-> value, caret |-> caret,
                 mid |-> allowMid]
    /\ cmds' = <<>>
    /\ UNCHANGED <<caps, allowMid, snapshot, textVars, showing, suppressed, now,
                   statVars>>

\* on_completion_ready; an empty list is one that shaping left nothing of.
CompletionReady(stamp, f, list) ==
    /\ MatchesRequest(stamp, f, "Completion")
    /\ requested' = None /\ armed' = None
    /\ IF list = <<>>
       THEN cmds' = <<>> /\ UNCHANGED <<showing, statVars>>
       ELSE Present(NewShowing(f, list, 0, "Ghost", None))
    /\ UNCHANGED <<caps, allowMid, snapshot, textVars, pending, suppressed, now>>

\* on_correction_ready; the suggestion is empty when the model found no fix.
CorrectionReady(stamp, f, words, span) ==
    /\ MatchesRequest(stamp, f, "GrammarFix")
    /\ requested' = None /\ armed' = None
    /\ IF Enabled /\ ~suppressed /\ words > 0 /\ Atomic
       THEN Present(NewShowing(f, <<words>>, 0, "Correction", span))
       ELSE cmds' = <<>> /\ UNCHANGED <<showing, statVars>>
    /\ UNCHANGED <<caps, allowMid, snapshot, textVars, pending, suppressed, now>>

\* Mutant: the deletion may reach past the start of the text.
AnyDeletion(left) == left > 0

DeletesLeftOfCaret(left) == left \in 1 .. caret

\* offer_replacement_multi: a local replacement preempts the model.
OfferReplacement(f, list, left) ==
    /\ Enabled /\ ~suppressed /\ Atomic
    /\ field = f /\ list # <<>>
    /\ DeletesLeftOfCaret(left)
    /\ caps.strategy = "NativeRangeSet" => caret <= Len(value)
    /\ Present(NewShowing(f, list, left, "Ghost",
                          IF caps.strategy = "NativeRangeSet"
                          THEN <<caret - left, caret>> ELSE None))
    /\ Disarm
    /\ UNCHANGED <<caps, allowMid, snapshot, textVars, suppressed, now>>

\* offer_selection_replacement_multi; the identical offer is not presented again.
OfferSelectionReplacement(f, list, span) ==
    /\ Enabled /\ ~suppressed /\ Atomic
    /\ field = f /\ list # <<>> /\ span[1] < span[2]
    /\ ~ /\ showing # None
         /\ showing.presentation = "SelectionReplacement"
         /\ showing.field = f /\ showing.span = span /\ showing.candidates = list
    /\ Present(NewShowing(f, list, 0, "SelectionReplacement", span))
    /\ Disarm
    /\ UNCHANGED <<caps, allowMid, snapshot, textVars, suppressed, now>>

\* clear_selection_replacement
ClearSelectionReplacement ==
    /\ showing # None /\ showing.presentation = "SelectionReplacement"
    /\ Advance
    /\ HideSuperseded
    /\ armed' = None
    /\ UNCHANGED <<caps, allowMid, textVars, pending, suppressed, now>>

----------------------------------------------------------------------------
(* User keys on the suggestion on screen. *)

\* An accept that uses the suggestion up.
AcceptWhole ==
    /\ Advance
    /\ showing' = None
    /\ cmds' = <<Commit(showing), Hide>>
    /\ armed' = None
    /\ UNCHANGED <<caps, allowMid, textVars, pending, suppressed, now, statVars>>

IsAccepted(presentations) ==
    showing # None /\ showing.presentation \in presentations

AcceptFull ==
    /\ IsAccepted({"Ghost", "SelectionReplacement"})
    /\ AcceptWhole

AcceptCorrection ==
    /\ IsAccepted({"Correction"})
    /\ AcceptWhole

\* A replacement is atomic and a last word leaves nothing: both end the
\* suggestion.  Otherwise one word is inserted, the rest stays on screen under
\* the same snapshot, and the sibling candidates are dropped.
AcceptWord ==
    /\ IsAccepted({"Ghost", "SelectionReplacement"})
    /\ IF \/ showing.presentation = "SelectionReplacement"
          \/ showing.replaceLeft > 0
          \/ Current(showing) = 1
       THEN AcceptWhole
       ELSE LET rest == [showing EXCEPT !.candidates = <<Current(showing) - 1>>,
                                        !.index = 1, !.caret = @ + 1]
            IN  /\ showing' = rest
                /\ caret' = rest.caret
                /\ cmds' = <<[Command("Insert", showing) EXCEPT !.text = 1],
                             Command("UpdateGhost", rest)>>
                /\ UNCHANGED <<caps, allowMid, snapshot, field, value, pending,
                               requested, suppressed, now, armed, statVars>>

\* Mutant: the preview splits a replacement into words.
TakesWholeOnFull(action) == action = "Full"

TakesWhole(action) == showing.replaceLeft > 0 \/ action = "Full"

\* preview_accept_insert and preview_accept_range: the number of words the next
\* accept would put into the field, 0 when it would insert nothing.
Preview(action) ==
    CASE showing = None -> 0
      [] showing # None /\ showing.presentation = "Correction" ->
            IF action = "Correction" THEN Current(showing) ELSE 0
      [] showing # None /\ showing.presentation = "SelectionReplacement" ->
            IF action \in {"Full", "Word"} THEN Current(showing) ELSE 0
      [] OTHER ->
            IF TakesWhole(action) THEN Current(showing)
            ELSE IF action = "Word" THEN 1 ELSE 0

Cycle ==
    /\ Reshow
    /\ IF showing # None /\ Len(showing.candidates) > 1
       THEN /\ showing' = [showing EXCEPT !.index =
                              (@ % Len(showing.candidates)) + 1]
            /\ cmds' = <<IF showing.presentation = "SelectionReplacement"
                         THEN Show(showing') ELSE Command("UpdateGhost", showing')>>
       ELSE cmds' = <<>> /\ UNCHANGED showing
    /\ UNCHANGED <<caps, allowMid, snapshot, textVars, pending, requested,
                   suppressed, now, armed, stats, lastDrained, lost>>

ForceShow ==
    /\ Reshow
    /\ cmds' = IF showing = None THEN <<>> ELSE <<Show(showing)>>
    /\ UNCHANGED <<caps, allowMid, snapshot, textVars, pending, requested, showing,
                   suppressed, now, armed, stats, lastDrained, lost>>

----------------------------------------------------------------------------
(* Host calls. *)

\* cancel_last_shown, then Dismiss: what the host does after a failed show.
CancelLastShown ==
    LET shown == {i \in DOMAIN stats : stats[i] = "Shown"}
    IN  /\ stats' = IF retractable /\ shown # {} THEN RemoveAt(stats, Max(shown))
                    ELSE stats
        /\ retractable' = FALSE /\ ownShown' = FALSE
        /\ UNCHANGED <<lastDrained, lost>>

IsShow(command) == command.op \in {"ShowGhost", "ShowCorrection"}

FailedShow ==
    /\ \E i \in DOMAIN cmds : IsShow(cmds[i])
    /\ CancelLastShown
    /\ showing' = None
    /\ cmds' = <<Hide>>
    /\ UNCHANGED <<caps, allowMid, snapshot, textVars, pending, requested,
                   suppressed, now, armed>>

SetAllowMidWord(on) ==
    /\ allowMid' = on
    /\ cmds' = <<>>
    /\ UNCHANGED <<caps, snapshot, textVars, pending, requested, showing,
                   suppressed, now, armed, statVars>>

TakeStatEvents ==
    /\ stats # <<>>
    /\ stats' = <<>>
    /\ lastDrained' = Last(stats)
    /\ cmds' = <<>>
    /\ UNCHANGED <<caps, allowMid, snapshot, textVars, pending, requested, showing,
                   suppressed, now, armed, retractable, ownShown, lost>>

\* Every handler returns early, with no command, when its guard is false; in
\* each state some call (an accept of the wrong kind, a stale answer) does.
Refused ==
    /\ cmds' = <<>>
    /\ UNCHANGED <<caps, allowMid, snapshot, textVars, pending, requested, showing,
                   suppressed, now, armed, statVars>>

----------------------------------------------------------------------------

Init ==
    /\ caps = Unsupported
    /\ allowMid \in BOOLEAN
    /\ snapshot = 0
    /\ field = None /\ value = <<>> /\ caret = 0
    /\ pending = None /\ requested = None /\ showing = None
    /\ suppressed = FALSE
    /\ now = 0
    /\ stats = <<>> /\ retractable = FALSE
    /\ cmds = <<>>
    /\ armed = None /\ lastDrained = None /\ ownShown = FALSE /\ lost = FALSE

Boundary ==
    \/ \E f \in Fields, c \in CapSet : Focus(f, c)
    \/ \E f \in Fields, text \in Texts, at \in Carets,
          edit \in {"Insert", "Delete", "Unknown"},
          trigger \in {"Automatic", "Manual"}, t \in Times :
            TextChanged(f, text, at, edit, trigger, t)
    \/ \E f \in Fields, at \in Carets : CaretMoved(f, at)
    \/ \E c \in CapSet : SecureStateChanged(c)
    \/ DismissDiscard
    \/ DismissSuppress
    \/ ClearSelectionReplacement

Answer ==
    \/ \E stamp \in Snapshots, f \in Fields, list \in Lists \cup {<<>>} :
            CompletionReady(stamp, f, list)
    \/ \E stamp \in Snapshots, f \in Fields, words \in {0, 1}, span \in Spans :
            CorrectionReady(stamp, f, words, span)

HostCall ==
    \/ \E t \in Times : Tick(t)
    \/ \E f \in Fields : ArmGrammar(f)
    \/ \E f \in Fields, list \in Lists, left \in Carets :
            OfferReplacement(f, list, left)
    \/ \E f \in Fields, list \in Lists, span \in Spans :
            OfferSelectionReplacement(f, list, span)
    \/ \E on \in BOOLEAN : SetAllowMidWord(on)
    \/ TakeStatEvents
    \/ Refused

\* What the host does when it could not carry out a command.
Reconciliation == Dismiss \/ FailedShow

UserKey ==
    \/ AcceptFull \/ AcceptWord \/ AcceptCorrection
    \/ Cycle \/ ForceShow

Next == Boundary \/ Answer \/ HostCall \/ UserKey \/ Reconciliation

Spec == Init /\ [][Next]_vars

----------------------------------------------------------------------------
(* Properties. *)

\* The type of the machine's state.
TypeOK ==
    /\ caps \in [mode : UxModes, strategy : Strategies]
    /\ allowMid \in BOOLEAN /\ suppressed \in BOOLEAN
    /\ snapshot \in Snapshots
    /\ field \in Fields \cup {None}
    /\ value \in Seq({"w", "s"}) /\ caret \in Nat
    /\ pending \in Nat \cup {None}
    /\ requested \in Request \cup {None}
    /\ showing \in Suggestion \cup {None}
    /\ showing # None => showing.index \in DOMAIN showing.candidates
    /\ now \in Nat
    /\ retractable \in BOOLEAN /\ ownShown \in BOOLEAN /\ lost \in BOOLEAN

CompletionRequested == requested # None /\ requested.kind = "Completion"

\* What is on offer always belongs to the field, the caret and the snapshot the
\* machine is at: no event moves one of them and leaves the suggestion behind,
\* the partial accept (which moves the caret of both) included.
ShowingIsCurrent ==
    showing # None =>
        /\ showing.field = field
        /\ showing.caret = caret
        /\ showing.snapshot = snapshot

\* An armed debounce, a completion in flight and a suggestion on screen exclude
\* each other: offers disarm the model, an edit hides the suggestion it outdates,
\* and so a completion never replaces a suggestion the user is looking at.
OneSourceAtATime ==
    /\ pending # None => requested = None /\ showing = None
    /\ CompletionRequested => showing = None

\* Where Esc suppresses, and in a secure, unreadable or unwritable field, nothing
\* is armed, requested or shown.  on_completion_ready checks neither: it relies
\* (comment at its head) on every path into silence ending the epoch, and only
\* Focus and SecureStateChanged look at the capabilities again after an edit.
SilencedIsQuiet ==
    suppressed \/ ~Enabled => pending = None /\ requested = None /\ showing = None

\* The trigger gates are read once, at the edit, and Tick never reads them
\* again; still, what fires or comes back is for the text the machine has now
\* and that text passes the gates (under the mid-word setting of the edit).
CompletionForCurrentText ==
    pending # None \/ CompletionRequested =>
        /\ armed = [field |-> field, value |-> value, caret |-> caret,
                    mid |-> armed.mid]
        /\ PassesGates(value, caret, armed.mid)

\* A local replacement never deletes past the start of the text, and a range
\* replacement in a native field ends at the caret it was offered at.
ReplacementInBounds ==
    showing # None /\ showing.presentation = "Ghost" /\ showing.replaceLeft > 0 =>
        /\ showing.replaceLeft <= caret
        /\ Atomic
        /\ caps.strategy = "NativeRangeSet" <=> showing.span # None
        /\ showing.span # None => showing.span[2] = caret /\ caret <= Len(value)

\* The stream of stat events the host sees is one lifecycle per Superseded: each
\* Superseded follows the Shown of the suggestion it ends, and a suggestion on
\* screen is the one the last Shown counted.  Up to the cap, beyond which the
\* machine drops events by design.
StatsTellOneLifecycle ==
    LET stream == IF lastDrained = None THEN stats ELSE <<lastDrained>> \o stats
    IN  ~lost =>
          /\ \A i \in DOMAIN stream :
                stream[i] = "Superseded" /\ (i > 1 \/ lastDrained = None)
                    => i > 1 /\ stream[i - 1] = "Shown"
          /\ showing # None => stream # <<>> /\ Last(stream) = "Shown"

\* A presentation that failed takes back the Shown it buffered and no other: a
\* failed re-show (Cycle, ForceShow) leaves the earlier presentation counted.
FailedShowRetractsItself ==
    [][FailedShow /\ ~lost =>
         stats' = IF ownShown THEN Front(stats) ELSE stats]_vars

\* The host predicts its own insertion from the preview to absorb the echo: the
\* text an accept commits is the text the preview gave just before.
PreviewIsCommitted ==
    [][\A action \in {"Full", "Word", "Correction"} :
         LET accepts == \/ action = "Full" /\ AcceptFull
                        \/ action = "Word" /\ AcceptWord
                        \/ action = "Correction" /\ AcceptCorrection
         IN  accepts => Head(cmds').text = Preview(action)]_vars

\* The core invariant of the machine's doc comment, for every answer: what an
\* answer puts on screen was asked for the text the machine has at that moment.
RendersForItsText ==
    [][Answer /\ showing' # showing =>
         armed = [field |-> field, value |-> value, caret |-> caret,
                  mid |-> armed.mid]]_vars

\* One request shows at most one suggestion, and only its own: a model answer is
\* presented only while its request is outstanding, and is then used up, so a
\* duplicated or late answer changes nothing.
AnswerUsedOnce ==
    [][Answer /\ showing' # showing =>
         /\ requested # None /\ requested' = None
         /\ showing'.snapshot = requested.snapshot
         /\ showing'.field = requested.field]_vars

=============================================================================
