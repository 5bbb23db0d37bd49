------------------------------- MODULE HostLoop -------------------------------
(***************************************************************************)
(* The turn of the host loop, app/run_loop.rs: events, outcomes, tick,     *)
(* policy, edges, submission and pump, one after the other on one thread,  *)
(* while secure input and the accessibility permission change under it and *)
(* the inference worker answers.                                           *)
(*                                                                         *)
(* Of the engine the loop sees what SuggestionContract promises: a request *)
(* outstanding, a suggestion on screen, an armed debounce, and epochs that *)
(* end all three.  Epochs are not counted: a request kept outside the      *)
(* engine is of the present epoch or stale, and of the requests with the   *)
(* worker only those of the present epoch are kept, because the engine     *)
(* refuses the answer to any other.                                        *)
(***************************************************************************)

CONSTANT None

VARIABLES
    phase,       \* where the turn is
    backlog,     \* host_event_backlog_remaining
    waiting,     \* engine: the kind of the request outstanding
    visible,     \* engine: the kind of suggestion on screen
    pending,     \* engine: the debounce is armed
    suppressed,  \* engine: Esc silences the field
    caps,        \* engine: whether the field may be served, or why not
    focused,     \* focus.current_field is known
    latest,      \* suggestion.latest
    manual,      \* manual_grammar_request
    flying,      \* the kinds of requests of this epoch the worker may answer
    model,       \* inference.is_ready, inference.has_failed
    enabled,     \* flags.enabled
    prevEnabled, \* policy.prev_enabled
    vetoed,      \* the preferences forbid suggestions in the focused field
    secureNow, trustedNow,  \* what the system would say at this moment
    secure, trusted,        \* what it said when the loop last asked
    prevSecure,  \* policy.prev_secure
    allowed,     \* status.suggestions_allowed of this turn
    dark,        \* history: secure input is on since the edge that saw it
    outlived     \* history: latest was kept when its epoch ended

engineVars == <<waiting, visible, pending, suppressed, caps>>
queueVars  == <<latest, manual, flying, outlived>>
policyVars == <<enabled, prevEnabled, vetoed>>
secureVars == <<secure, trusted, prevSecure>>
worldVars  == <<secureNow, trustedNow, dark>>
vars == <<phase, backlog, allowed, engineVars, focused, queueVars, policyVars,
          secureVars, worldVars, model>>

Kinds == {"Completion", "GrammarFix"}

\* "open"; or the field itself may not be served or could not be read, it was
\* read while secure input was on, the edge blocked it.
CapStates == {"open", "closed", "secure", "edge"}

ASSUME NoneAssumption ==
    None \notin Kinds \cup {"Ghost", "Correction", "Selection", "current", "stale"}

----------------------------------------------------------------------------
(* What the calls of the loop do to the engine and to what it has queued. *)

Aged(request) == IF request = None THEN None ELSE "stale"

\* The engine's epoch ends; the answers to its requests will be refused.
EndRequests ==
    /\ waiting' = None /\ flying' = {}
    /\ manual' = Aged(manual)

EndEpoch ==
    /\ EndRequests
    /\ visible' = None /\ pending' = FALSE

\* suggestion.latest.clear()
ClearLatest == latest' = None /\ outlived' = FALSE

\* Mutant: what is queued is left to the submission's own gates.
DismissOnly == EndEpoch /\ UNCHANGED <<latest, outlived>>

\* What every policy that forbids suggestions does at once.
Retract == EndEpoch /\ ClearLatest

\* Mutant: capabilities are cached per field.
CachedCaps == {caps}

\* adapter.capabilities asks the system at that moment.
ReadCaps ==
    IF secureNow THEN {"secure"}
    ELSE {"closed"} \cup (IF trustedNow THEN {"open"} ELSE {})

\* A local offer needs no model, but the same permissions.
MayOffer == enabled /\ ~vetoed' /\ caps = "open"

----------------------------------------------------------------------------
(* 1. Events: a turn handles any number of them. *)

Handling ==
    /\ phase = "events"
    /\ UNCHANGED <<phase, backlog, allowed, prevEnabled, secureVars, worldVars, model>>

\* Another field, perhaps of another app; it clears Esc.
HandleFocus ==
    /\ Handling
    /\ Retract
    /\ caps' \in ReadCaps
    /\ suppressed' = FALSE /\ focused' = TRUE
    /\ vetoed' \in BOOLEAN
    /\ UNCHANGED enabled

\* The context cannot be read under secure input, without permission and at
\* times for no reason.
Unreadable == EndEpoch /\ UNCHANGED <<suppressed, vetoed>>

\* The page under a browser's field may have changed, and its policy with it.
Typed ==
    /\ EndRequests
    /\ suppressed' = FALSE
    /\ vetoed' \in BOOLEAN
    /\ \/ pending' = FALSE /\ visible' = None
       \/ pending' = TRUE /\ visible' = None /\ caps = "open"
       \/ pending' = FALSE /\ visible' \in {"Ghost", "Selection"} /\ MayOffer

Moved ==
    /\ EndRequests
    /\ pending' = FALSE
    /\ UNCHANGED <<suppressed, vetoed>>
    /\ \/ visible' = None
       \/ visible' = "Selection" /\ MayOffer /\ ~suppressed

\* A report of what is known already; a selection may have come or gone.
Echo ==
    /\ UNCHANGED <<suppressed, vetoed>>
    /\ \/ visible' = visible /\ UNCHANGED <<waiting, flying, manual, pending>>
       \/ /\ visible' \in {"Selection", None} /\ MayOffer /\ ~suppressed
          /\ waiting' = None /\ pending' = FALSE
          /\ UNCHANGED <<flying, manual>>
       \/ visible = "Selection" /\ EndEpoch

HandleCaret ==
    /\ Handling
    /\ ClearLatest
    /\ focused' = TRUE
    /\ \/ Unreadable
       \/ ~secureNow /\ trustedNow /\ (Typed \/ Moved \/ Echo)
    /\ UNCHANGED <<caps, enabled>>

\* The whole suggestion; or a word of it, a failure that hides it, a late key.
HandleAccept ==
    /\ Handling
    /\ ClearLatest
    /\ \/ visible # None /\ EndEpoch
       \/ visible' \in {visible, None} /\ UNCHANGED <<waiting, flying, manual, pending>>
    /\ UNCHANGED <<suppressed, caps, focused, enabled, vetoed>>

HandleDismiss ==
    /\ Handling
    /\ Retract
    /\ suppressed' = TRUE
    /\ UNCHANGED <<caps, focused, enabled, vetoed>>

\* Cycle and ForceActivate, whose painting may fail.
HandleShow ==
    /\ Handling
    /\ visible' \in {visible, None}
    /\ UNCHANGED <<waiting, pending, suppressed, caps, focused, queueVars, enabled, vetoed>>

\* The app was enabled before the toggle, or forbidden for another reason too.
ToggleApp ==
    /\ Handling /\ focused
    /\ \/ vetoed' = TRUE /\ Retract
       \/ /\ vetoed' \in {vetoed, FALSE}
          /\ UNCHANGED <<waiting, visible, pending, queueVars>>
    /\ UNCHANGED <<suppressed, caps, focused, enabled>>

ToggleGlobal ==
    /\ Handling
    /\ enabled' = ~enabled
    /\ IF enabled THEN Retract
                  ELSE UNCHANGED <<waiting, visible, pending, queueVars>>
    /\ UNCHANGED <<suppressed, caps, focused, vetoed>>

\* The GrammarCheck shortcut: armed; blocked after the read or not armed; blocked
\* before it.
GrammarCheck ==
    /\ Handling /\ focused
    /\ \/ /\ enabled /\ ~vetoed /\ ~secureNow /\ trustedNow
          /\ caps = "open" /\ ~suppressed
          /\ ClearLatest /\ manual' = "current"
          /\ waiting' = "GrammarFix" /\ pending' = FALSE
       \/ /\ enabled /\ ~vetoed /\ ~secureNow /\ trustedNow
          /\ ClearLatest /\ manual' = None
          /\ UNCHANGED <<waiting, pending>>
       \/ manual' = None /\ UNCHANGED <<latest, outlived, waiting, pending>>
    /\ UNCHANGED <<visible, suppressed, caps, focused, flying, enabled, vetoed>>

Events ==
    \/ HandleFocus \/ HandleCaret \/ HandleAccept \/ HandleDismiss \/ HandleShow
    \/ ToggleApp \/ ToggleGlobal \/ GrammarCheck

----------------------------------------------------------------------------
(* 2 to 4. Outcomes, tick, policy. *)

Follows(here, next) == phase = here /\ phase' = next

EndEvents ==
    /\ Follows("events", IF backlog THEN "tick" ELSE "outcomes")
    /\ UNCHANGED <<backlog, allowed, engineVars, focused, queueVars, policyVars,
                   secureVars, worldVars, model>>

\* An answer shows something or finds nothing to show; any answer but the one the
\* engine waits for is refused.
Outcome(kind) ==
    /\ phase = "outcomes" /\ kind \in flying
    /\ flying' = flying \ {kind}
    /\ waiting' = IF waiting = kind THEN None ELSE waiting
    /\ visible' \in
          {visible} \cup
          (IF waiting # kind THEN {}
           ELSE IF kind = "Completion" THEN {"Ghost"}
           ELSE IF caps = "open" /\ ~suppressed THEN {"Correction", None} ELSE {})
    /\ UNCHANGED <<phase, backlog, allowed, pending, suppressed, caps, focused,
                   latest, manual, outlived, policyVars, secureVars, worldVars, model>>

EndOutcomes ==
    /\ Follows("outcomes", "tick")
    /\ UNCHANGED <<backlog, allowed, engineVars, focused, queueVars, policyVars,
                   secureVars, worldVars, model>>

\* The debounce may have run out.
Tick ==
    /\ Follows("tick", "poll")
    /\ \/ /\ pending /\ caps = "open"
          /\ pending' = FALSE /\ waiting' = "Completion"
          /\ latest' = "current" /\ outlived' = FALSE
       \/ UNCHANGED <<pending, waiting, latest, outlived>>
    /\ UNCHANGED <<backlog, allowed, visible, suppressed, caps, focused, manual,
                   flying, policyVars, secureVars, worldVars, model>>

\* Secure input and permission are asked for every SECURE_POLL_INTERVAL_MS.
Poll ==
    /\ Follows("poll", "signal")
    /\ secure' = secureNow /\ trusted' = trustedNow
    /\ UNCHANGED <<backlog, allowed, engineVars, focused, queueVars, policyVars,
                   prevSecure, worldVars, model>>

Throttled ==
    /\ Follows("poll", "signal")
    /\ UNCHANGED <<backlog, allowed, engineVars, focused, queueVars, policyVars,
                   secureVars, worldVars, model>>

\* SIGUSR1
Signal ==
    /\ Follows("signal", "global")
    /\ \/ enabled' = FALSE /\ enabled /\ Retract
       \/ enabled' \in {enabled, TRUE} /\ UNCHANGED <<waiting, visible, pending, queueVars>>
    /\ UNCHANGED <<backlog, allowed, suppressed, caps, focused, prevEnabled, vetoed,
                   secureVars, worldVars, model>>

\* The tray's "Disable Completions Globally" for good.
GlobalDisable ==
    /\ Follows("global", "veto")
    /\ enabled' \in {enabled, FALSE}
    /\ UNCHANGED <<backlog, allowed, engineVars, focused, queueVars, prevEnabled,
                   vetoed, secureVars, worldVars, model>>

\* Snooze, the app's row in the settings, a deep link, the tray's "Disable in
\* Current App"; or a snooze has run out.
Veto ==
    /\ Follows("veto", "edges")
    /\ \/ vetoed' \in BOOLEAN /\ Retract
       \/ /\ vetoed' \in {vetoed, FALSE}
          /\ UNCHANGED <<waiting, visible, pending, queueVars>>
    /\ UNCHANGED <<backlog, allowed, suppressed, caps, focused, enabled, prevEnabled,
                   secureVars, worldVars, model>>

----------------------------------------------------------------------------
(* Edges, submission and pump. *)

\* flush_monitored_changes_after_secure_recheck asks again when it has something
\* to flush.
Recheck == secure' \in {secure, secureNow}

\* derive_status, where the accessibility subscriptions are up.
Status ==
    CASE ~trusted                           -> "Permission"
      [] trusted /\ secure'                 -> "SecureInput"
      [] trusted /\ ~secure' /\ model # "ready" ->
            IF model = "failed" THEN "ModelUnavailable" ELSE "Loading"
      [] OTHER -> IF enabled THEN "Ready" ELSE "Disabled"

\* status_drops_pending_requests
DropsRequests == Status \notin {"Loading", "Ready"}

\* secure_edge
Entering == ~prevSecure /\ secure'
Clearing == prevSecure /\ ~secure' /\ trusted /\ focused

\* should_dismiss_on_disable
Disabling == prevEnabled /\ ~enabled

\* Mutant: what is on its way to the screen is not invalidated.
HideOnly == visible' = None /\ UNCHANGED <<waiting, pending, flying, manual>>

\* engine.on_secure_state(secure_input_caps())
BlockEngine == EndEpoch

Edges ==
    /\ Follows("edges", "submit")
    /\ Recheck
    /\ IF Entering THEN BlockEngine
       ELSE IF Clearing \/ Disabling THEN EndEpoch
       ELSE UNCHANGED <<waiting, visible, pending, flying, manual>>
    /\ caps' \in IF Entering THEN {"edge"} ELSE IF Clearing THEN ReadCaps ELSE {caps}
    /\ suppressed' = (suppressed /\ ~Clearing)
    /\ latest' = IF Entering \/ Disabling \/ DropsRequests THEN None
                 ELSE IF Clearing THEN Aged(latest) ELSE latest
    /\ outlived' = (latest' # None /\ (outlived \/ Clearing))
    /\ allowed' = (Status = "Ready")
    /\ prevEnabled' = enabled /\ prevSecure' = secure'
    /\ dark' = IF Entering THEN secureNow ELSE dark
    /\ UNCHANGED <<backlog, focused, enabled, vetoed, trusted, secureNow, trustedNow,
                   model>>

\* Mutant: the preferences are asked when the request is armed, not when it is sent.
UngatedSend(kind, request) == IF request = "current" THEN flying \cup {kind} ELSE flying

\* submit_gated_request; the answer to a stale request would be refused.
Send(kind, request) ==
    IF request = "current" /\ ~vetoed THEN flying \cup {kind} ELSE flying

\* Under a backlog all is dropped; a turn that may not submit keeps the latest.
Submit ==
    /\ Follows("submit", "pump")
    /\ \/ /\ backlog
          /\ ClearLatest /\ UNCHANGED flying
       \/ /\ ~backlog /\ allowed
          /\ ClearLatest
          /\ flying' = IF manual # None THEN Send("GrammarFix", manual)
                                        ELSE Send("Completion", latest)
       \/ ~backlog /\ ~allowed /\ UNCHANGED <<latest, outlived, flying>>
    /\ manual' = None /\ allowed' = FALSE /\ backlog' = FALSE
    /\ UNCHANGED <<engineVars, focused, policyVars, secureVars, worldVars, model>>

\* Menu callbacks run while the loop pumps.
TrayToggle ==
    /\ phase = "pump"
    /\ enabled' = ~enabled
    /\ UNCHANGED <<phase, backlog, allowed, engineVars, focused, queueVars, prevEnabled,
                   vetoed, secureVars, worldVars, model>>

StartTurn ==
    /\ Follows("pump", "events")
    /\ backlog' \in BOOLEAN
    /\ IF backlog' THEN ClearLatest ELSE UNCHANGED <<latest, outlived>>
    /\ UNCHANGED <<allowed, engineVars, focused, manual, flying, policyVars, secureVars,
                   worldVars, model>>

----------------------------------------------------------------------------
(* The world.  It changes at any time; changes are left out of the phases  *)
(* after which nothing reads it before the next of these.                  *)

SystemChanges ==
    /\ phase \in {"events", "edges"}
    /\ \/ secureNow' = ~secureNow /\ UNCHANGED trustedNow
       \/ trustedNow' = ~trustedNow /\ UNCHANGED secureNow
    /\ dark' = (dark /\ secureNow')
    /\ UNCHANGED <<phase, backlog, allowed, engineVars, focused, queueVars, policyVars,
                   secureVars, model>>

WorkerChanges ==
    /\ phase = "edges"
    /\ \/ model = "loading" /\ model' \in {"ready", "failed"}
       \/ model = "ready" /\ model' = "failed"
    /\ UNCHANGED <<phase, backlog, allowed, engineVars, focused, queueVars, policyVars,
                   secureVars, worldVars>>

----------------------------------------------------------------------------

Init ==
    /\ phase = "events" /\ backlog = FALSE /\ allowed = FALSE
    /\ waiting = None /\ visible = None /\ pending = FALSE /\ suppressed = FALSE
    /\ caps = "closed" /\ focused = FALSE
    /\ latest = None /\ manual = None /\ flying = {} /\ outlived = FALSE
    /\ model = "loading"
    /\ enabled \in BOOLEAN /\ prevEnabled = enabled /\ vetoed \in BOOLEAN
    /\ secureNow \in BOOLEAN /\ trustedNow \in BOOLEAN
    /\ secure = FALSE /\ trusted = trustedNow /\ prevSecure = FALSE
    /\ dark = FALSE

Turn ==
    \/ EndEvents \/ EndOutcomes \/ Tick \/ Poll \/ Throttled
    \/ Signal \/ GlobalDisable \/ Veto \/ Edges \/ Submit \/ StartTurn

Next ==
    \/ Events
    \/ \E kind \in Kinds : Outcome(kind)
    \/ Turn
    \/ TrayToggle \/ SystemChanges \/ WorkerChanges

Spec == Init /\ [][Next]_vars

\* The batch of a turn is finite, the loop turns for ever, and time passes, so
\* that the system is asked again and again.
FairSpec == Spec /\ WF_vars(Turn) /\ SF_vars(Poll)

----------------------------------------------------------------------------
(* Properties. *)

\* The type of the loop's state.
TypeOK ==
    /\ waiting \in Kinds \cup {None} /\ flying \subseteq Kinds
    /\ visible \in {None, "Ghost", "Correction", "Selection"}
    /\ latest \in {None, "current", "stale"} /\ manual \in {None, "current", "stale"}
    /\ caps \in CapStates /\ pending \in BOOLEAN /\ (pending => caps = "open")
    /\ phase \in {"events", "outcomes", "tick", "poll", "signal", "global", "veto",
                  "edges", "submit", "pump"}

\* The queued request is the one the engine waits for (LatestRequest): none of the
\* events, policies and edges of a turn outdates it and leaves it queued, but for
\* the end of secure input, which keeps a request its own focus makes stale.
LatestIsAwaited ==
    latest # None /\ ~outlived => latest = "current" /\ waiting = "Completion"

\* Where preferences forbid suggestions nothing is on screen, and no answer that
\* could still be shown is on its way (the comments at the snooze and at the
\* app's row: gating alone runs at the submission).  Once the loop has seen
\* completions disabled, no answer to an earlier request can bring a ghost back
\* either (the comment on Engine::on_dismiss).
VetoedIsSilent ==
    /\ vetoed => visible = None /\ flying = {}
    /\ ~enabled /\ ~prevEnabled => flying = {}

\* From the edge at which the loop sees secure input to its end nothing is shown,
\* asked or queued: not by a field that gets the focus in between, nor by
\* an answer or a debounce from before.
SecureIsDark ==
    dark => visible = None /\ flying = {} /\ latest = None /\ ~pending

BlockedByEdge == caps = "edge" /\ prevSecure /\ focused

\* While permission is granted, what the edge of secure input blocked is unblocked
\* after its end without a new focus (SecureEdge::ClearRehydrate), however long
\* the poll is throttled and whatever asks in between.
EdgeIsUndone ==
    ([]trustedNow /\ <>[]~secureNow) => (BlockedByEdge ~> caps # "edge")

\* A finding.

\* The comment in secure_edge: "Cleared-but-untrusted stays blocked by Permission
\* until trust returns".
RevivedWhenTrustReturns ==
    <>[](trustedNow /\ ~secureNow) => (BlockedByEdge ~> caps # "edge")

=============================================================================
