-------------------------- MODULE HostLoop_proofs --------------------------
(***************************************************************************)
(* Theorems about HostLoop: the queued request is the one awaited, and     *)
(* preferences, the global switch and secure input silence what is shown   *)
(* and what is on its way.                                                 *)
(***************************************************************************)
EXTENDS HostLoop, TLAPS

USE NoneAssumption

----------------------------------------------------------------------------
(* The calls. *)

\* A retraction leaves nothing shown, asked, armed or queued for this epoch.
LEMMA Retraction ==
    ASSUME Retract
    PROVE  /\ waiting' = None /\ flying' = {} /\ visible' = None /\ pending' = FALSE
           /\ latest' = None /\ outlived' = FALSE /\ manual' \in {None, "stale"}
PROOF BY DEF Retract, EndEpoch, EndRequests, ClearLatest, Aged

\* The end of an epoch does the same to what the engine knows.
LEMMA EpochEnd ==
    ASSUME EndEpoch
    PROVE  /\ waiting' = None /\ flying' = {} /\ visible' = None /\ pending' = FALSE
           /\ manual' \in {None, "stale"}
PROOF BY DEF EndEpoch, EndRequests, Aged

----------------------------------------------------------------------------
(* Types. *)

\* An event keeps the types.
LEMMA EventTypes ==
    ASSUME TypeOK, Events
    PROVE  TypeOK'
PROOF
  <1> USE DEF Handling
  <1>1. CASE HandleFocus
    <2>1. caps' \in CapStates
      BY <1>1 DEF HandleFocus, ReadCaps, CapStates
    <2> QED BY <1>1, <2>1, Retraction DEF HandleFocus, TypeOK
  <1>2. CASE HandleCaret
    <2>1. latest' = None /\ UNCHANGED <<phase, caps>>
      BY <1>2 DEF HandleCaret, ClearLatest
    <2>2. CASE EndEpoch
      BY <2>1, <2>2, EpochEnd DEF TypeOK
    <2>3. CASE Typed \/ Moved
      BY <2>1, <2>3 DEF Typed, Moved, MayOffer, EndRequests, Aged, TypeOK
    <2>4. CASE UNCHANGED <<visible, waiting, flying, manual, pending>>
      BY <2>1, <2>4 DEF TypeOK
    <2>5. CASE /\ visible' \in {"Selection", None} /\ waiting' = None /\ pending' = FALSE
               /\ UNCHANGED <<flying, manual>>
      BY <2>1, <2>5 DEF TypeOK
    <2> QED BY <1>2, <2>2, <2>3, <2>4, <2>5 DEF HandleCaret, Unreadable, Echo
  <1>3. CASE HandleAccept
    <2>1. latest' = None /\ UNCHANGED <<phase, caps>>
      BY <1>3 DEF HandleAccept, ClearLatest
    <2>2. CASE EndEpoch
      BY <2>1, <2>2, EpochEnd DEF TypeOK
    <2>3. CASE /\ visible' \in {visible, None}
               /\ UNCHANGED <<waiting, flying, manual, pending>>
      BY <2>1, <2>3 DEF TypeOK
    <2> QED BY <1>3, <2>2, <2>3 DEF HandleAccept
  <1>4. CASE HandleDismiss
    BY <1>4, Retraction DEF HandleDismiss, TypeOK
  <1>5. CASE HandleShow
    BY <1>5 DEF HandleShow, queueVars, TypeOK
  <1>6. CASE ToggleApp \/ ToggleGlobal
    <2>1. UNCHANGED <<phase, caps>>
      BY <1>6 DEF ToggleApp, ToggleGlobal
    <2>2. CASE Retract
      BY <2>1, <2>2, Retraction DEF TypeOK
    <2>3. CASE UNCHANGED <<waiting, visible, pending, queueVars>>
      BY <2>1, <2>3 DEF queueVars, TypeOK
    <2> QED BY <1>6, <2>2, <2>3 DEF ToggleApp, ToggleGlobal
  <1>7. CASE GrammarCheck
    <2>1. /\ latest' \in {latest, None} /\ manual' \in {None, "current"}
          /\ UNCHANGED <<phase, visible, caps, flying>>
      BY <1>7 DEF GrammarCheck, ClearLatest
    <2>2. CASE waiting' = "GrammarFix" /\ pending' = FALSE
      BY <2>1, <2>2 DEF Kinds, TypeOK
    <2>3. CASE UNCHANGED <<waiting, pending>>
      BY <2>1, <2>3 DEF TypeOK
    <2> QED BY <1>7, <2>2, <2>3, Zenon DEF GrammarCheck
  <1> QED BY <1>1, <1>2, <1>3, <1>4, <1>5, <1>6, <1>7 DEF Events

\* An answer keeps the types.
LEMMA OutcomeTypes ==
    ASSUME TypeOK, NEW kind \in Kinds, Outcome(kind)
    PROVE  TypeOK'
PROOF
  <1>1. /\ visible' \in {visible, "Ghost", "Correction", None}
        /\ flying' \subseteq flying /\ waiting' \in {waiting, None}
        /\ UNCHANGED <<phase, caps, latest, manual, pending>>
    BY DEF Outcome
  <1> QED BY <1>1 DEF TypeOK

\* A step of the turn keeps the types.
LEMMA TurnTypes ==
    ASSUME TypeOK, Turn
    PROVE  TypeOK'
PROOF
  <1> USE DEF Follows
  <1>1. CASE EndEvents \/ EndOutcomes \/ Poll \/ Throttled \/ GlobalDisable
    <2>1. /\ phase' \in {"outcomes", "tick", "signal", "veto"}
          /\ UNCHANGED <<engineVars, queueVars>>
      BY <1>1 DEF EndEvents, EndOutcomes, Poll, Throttled, GlobalDisable
    <2> QED BY <2>1 DEF engineVars, queueVars, TypeOK
  <1>2. CASE Tick
    <2>1. /\ latest' \in {latest, "current"} /\ phase' = "poll"
          /\ UNCHANGED <<visible, caps, flying, manual>>
      BY <1>2 DEF Tick
    <2>2. CASE waiting' = "Completion" /\ pending' = FALSE
      BY <2>1, <2>2 DEF Kinds, TypeOK
    <2>3. CASE UNCHANGED <<waiting, pending>>
      BY <2>1, <2>3 DEF TypeOK
    <2> QED BY <1>2, <2>2, <2>3, Zenon DEF Tick
  <1>3. CASE Signal \/ Veto
    <2>1. phase' \in {"global", "edges"} /\ UNCHANGED caps
      BY <1>3 DEF Signal, Veto
    <2>2. CASE Retract
      BY <2>1, <2>2, Retraction DEF TypeOK
    <2>3. CASE UNCHANGED <<waiting, visible, pending, queueVars>>
      BY <2>1, <2>3 DEF queueVars, TypeOK
    <2> QED BY <1>3, <2>2, <2>3 DEF Signal, Veto
  <1>4. CASE Edges
    <2>1. phase' = "submit" /\ latest' \in {latest, None, "stale"}
      BY <1>4 DEF Edges, Aged
    <2>2. caps' \in CapStates
      BY <1>4 DEF Edges, ReadCaps, CapStates, TypeOK
    <2>3. CASE EndEpoch
      BY <2>1, <2>2, <2>3, EpochEnd DEF TypeOK
    <2>4. CASE UNCHANGED <<waiting, visible, pending, flying, manual, caps>>
      BY <2>1, <2>4 DEF TypeOK
    <2> QED BY <1>4, <2>3, <2>4 DEF Edges, BlockEngine
  <1>5. CASE Submit
    <2>1. flying' \subseteq Kinds
      BY <1>5 DEF Submit, Send, Kinds, TypeOK
    <2>2. /\ latest' \in {latest, None} /\ manual' = None /\ phase' = "pump"
          /\ UNCHANGED <<waiting, visible, pending, caps>>
      BY <1>5 DEF Submit, ClearLatest, engineVars
    <2> QED BY <2>1, <2>2 DEF TypeOK
  <1>6. CASE StartTurn
    <2>1. /\ latest' \in {latest, None} /\ phase' = "events"
          /\ UNCHANGED <<waiting, visible, pending, caps, flying, manual>>
      BY <1>6 DEF StartTurn, ClearLatest, engineVars
    <2> QED BY <2>1 DEF TypeOK
  <1> QED BY <1>1, <1>2, <1>3, <1>4, <1>5, <1>6 DEF Turn

\* The types of the loop's state.
THEOREM TypeCorrect == Spec => []TypeOK
PROOF
  <1>1. Init => TypeOK
    BY DEF Init, TypeOK, CapStates
  <1>2. ASSUME TypeOK, [Next]_vars
        PROVE  TypeOK'
    <2>1. CASE TrayToggle \/ SystemChanges \/ WorkerChanges \/ UNCHANGED vars
      BY <1>2, <2>1 DEF TrayToggle, SystemChanges, WorkerChanges, vars, engineVars,
                        queueVars, TypeOK
    <2> QED BY <1>2, <2>1, EventTypes, OutcomeTypes, TurnTypes DEF Next
  <1> QED BY <1>1, <1>2, PTL DEF Spec

----------------------------------------------------------------------------
(* The inductive invariant. *)

\* An edit that waits for its debounce has ended the epoch of every request.
PendingIsFirst ==
    pending => flying = {} /\ manual # "current" /\ latest = None

\* A request is queued or with the worker, never both.
QueuedOnce ==
    latest # None /\ ~outlived =>
        latest = "current" /\ waiting = "Completion" /\ "Completion" \notin flying

VetoHolds == vetoed => visible = None /\ flying = {}

\* While the last edge saw completions disabled nothing is sent.
DisabledIsIdle ==
    /\ ~prevEnabled => flying = {}
    /\ allowed => prevEnabled

\* While it is dark the loop has seen secure input, and knows it.
DarkIsSecure ==
    dark => /\ secureNow /\ secure /\ prevSecure
            /\ caps # "open" /\ ~allowed
            /\ visible = None /\ flying = {} /\ latest = None /\ ~pending

Quiet == PendingIsFirst /\ QueuedOnce /\ VetoHolds /\ DisabledIsIdle /\ DarkIsSecure

----------------------------------------------------------------------------
(* Every action keeps it. *)

\* A caret report, whatever it is taken for, keeps the invariant.
LEMMA CaretQuiet ==
    ASSUME Quiet, HandleCaret
    PROVE  Quiet'
PROOF
  <1> USE DEF Quiet, PendingIsFirst, QueuedOnce, VetoHolds, DisabledIsIdle, DarkIsSecure
  <1> USE DEF HandleCaret, Handling, secureVars, worldVars, ClearLatest, EndEpoch,
              EndRequests, Aged, MayOffer
  <1>1. CASE Unreadable
    BY <1>1 DEF Unreadable
  <1>2. CASE Typed /\ ~secureNow
    BY <1>2 DEF Typed
  <1>3. CASE Moved /\ ~secureNow
    BY <1>3 DEF Moved
  <1>4. CASE Echo /\ ~secureNow
    BY <1>4 DEF Echo
  <1> QED BY <1>1, <1>2, <1>3, <1>4 DEF HandleCaret

\* What the batch of a turn holds keeps the invariant.
LEMMA EventsQuiet ==
    ASSUME Quiet, Events
    PROVE  Quiet'
PROOF
  <1> USE DEF Quiet, PendingIsFirst, QueuedOnce, VetoHolds, DisabledIsIdle, DarkIsSecure
  <1> USE DEF Handling, secureVars, worldVars
  <1>1. CASE HandleFocus
    BY <1>1 DEF HandleFocus, ReadCaps, Retract, EndEpoch, EndRequests, ClearLatest, Aged
  <1>2. CASE HandleAccept
    BY <1>2 DEF HandleAccept, EndEpoch, EndRequests, ClearLatest, Aged
  <1>3. CASE HandleDismiss
    BY <1>3 DEF HandleDismiss, Retract, EndEpoch, EndRequests, ClearLatest, Aged
  <1>4. CASE HandleShow
    BY <1>4 DEF HandleShow, queueVars
  <1>5. CASE ToggleApp
    <2>1. CASE Retract
      BY <1>5, <2>1, Retraction DEF ToggleApp
    <2>2. CASE /\ vetoed' \in {vetoed, FALSE}
               /\ UNCHANGED <<waiting, visible, pending, queueVars>>
      <3>1. vetoed' => vetoed
        BY <2>2, Zenon
      <3> QED BY <1>5, <2>2, <3>1 DEF ToggleApp, queueVars
    <2> QED BY <1>5, <2>1, <2>2, Zenon DEF ToggleApp
  <1>6. CASE ToggleGlobal
    BY <1>6 DEF ToggleGlobal, queueVars, Retract, EndEpoch, EndRequests, ClearLatest, Aged
  <1>7. CASE GrammarCheck
    BY <1>7 DEF GrammarCheck, ClearLatest
  <1> QED BY <1>1, <1>2, <1>3, <1>4, <1>5, <1>6, <1>7, CaretQuiet DEF Events

\* An answer keeps the invariant.
LEMMA OutcomeQuiet ==
    ASSUME Quiet, NEW kind \in Kinds, Outcome(kind)
    PROVE  Quiet'
PROOF
  <1> USE DEF Quiet, PendingIsFirst, QueuedOnce, VetoHolds, DisabledIsIdle, DarkIsSecure
  <1> QED BY DEF Outcome, policyVars, secureVars, worldVars

\* The edges keep the invariant: a turn that may submit has seen no secure input.
LEMMA EdgesQuiet ==
    ASSUME Quiet, Edges
    PROVE  Quiet'
PROOF
  <1> USE DEF Quiet, PendingIsFirst, QueuedOnce, VetoHolds, DisabledIsIdle, DarkIsSecure
  <1>1. allowed' => enabled /\ ~secure'
    BY DEF Edges, Status
  <1>2. secure' \in {secure, secureNow}
    BY DEF Edges, Recheck
  <1>3. CASE Entering
    <2>1. /\ EndEpoch /\ latest' = None /\ caps' = "edge" /\ secure'
          /\ dark' = secureNow /\ secureNow' = secureNow
          /\ prevSecure' = secure' /\ prevEnabled' = enabled
      BY <1>3 DEF Edges, BlockEngine, Entering
    <2> QED BY <1>1, <2>1, EpochEnd
  <1>4. CASE ~Entering /\ Clearing
    <2>1. /\ EndEpoch /\ latest' \in {None, Aged(latest)} /\ (latest' # None => outlived')
          /\ dark' = dark /\ ~secure' /\ prevEnabled' = enabled
      BY <1>4 DEF Edges, Clearing
    <2>2. ~dark
      BY <1>2, <2>1
    <2> QED BY <1>1, <2>1, <2>2, EpochEnd
  <1>5. CASE ~Entering /\ ~Clearing /\ Disabling
    <2>1. /\ EndEpoch /\ latest' = None /\ caps' = caps /\ prevSecure' = secure'
          /\ prevEnabled' = enabled /\ UNCHANGED <<dark, secureNow>>
      BY <1>5 DEF Edges, Disabling
    <2> QED BY <1>1, <1>2, <2>1, EpochEnd
  <1>6. CASE ~Entering /\ ~Clearing /\ ~Disabling
    <2>1. /\ latest' \in {None, latest} /\ (latest' # None /\ ~outlived' => ~outlived)
          /\ prevSecure' = secure' /\ prevEnabled' = enabled /\ (prevEnabled => enabled)
          /\ UNCHANGED <<waiting, visible, pending, flying, manual, caps, dark,
                         secureNow, vetoed>>
      BY <1>6 DEF Edges, Disabling
    <2> QED BY <1>1, <1>2, <2>1
  <1> QED BY <1>3, <1>4, <1>5, <1>6

\* Every step of the turn itself keeps the invariant.
LEMMA TurnQuiet ==
    ASSUME Quiet, Turn
    PROVE  Quiet'
PROOF
  <1> USE DEF Quiet, PendingIsFirst, QueuedOnce, VetoHolds, DisabledIsIdle, DarkIsSecure
  <1> USE DEF engineVars, queueVars, policyVars, secureVars, worldVars, Follows
  <1>1. CASE EndEvents \/ EndOutcomes
    BY <1>1 DEF EndEvents, EndOutcomes
  <1>2. CASE Tick
    BY <1>2 DEF Tick
  <1>3. CASE Poll \/ Throttled
    BY <1>3 DEF Poll, Throttled
  <1>4. CASE Signal
    <2>1. CASE Retract
      BY <1>4, <2>1, Retraction DEF Signal
    <2>2. CASE UNCHANGED <<waiting, visible, pending, queueVars>>
      BY <1>4, <2>2 DEF Signal, queueVars
    <2> QED BY <1>4, <2>1, <2>2 DEF Signal
  <1>5. CASE GlobalDisable
    BY <1>5 DEF GlobalDisable
  <1>6. CASE Veto
    <2>1. CASE Retract
      BY <1>6, <2>1, Retraction DEF Veto
    <2>2. CASE /\ vetoed' \in {vetoed, FALSE}
               /\ UNCHANGED <<waiting, visible, pending, queueVars>>
      <3>1. vetoed' => vetoed
        BY <2>2, Zenon
      <3> QED BY <1>6, <2>2, <3>1 DEF Veto, queueVars
    <2> QED BY <1>6, <2>1, <2>2, Zenon DEF Veto
  <1>7. CASE Submit
    BY <1>7 DEF Submit, Send, ClearLatest
  <1>8. CASE StartTurn
    BY <1>8 DEF StartTurn, ClearLatest
  <1> QED BY <1>1, <1>2, <1>3, <1>4, <1>5, <1>6, <1>7, <1>8, EdgesQuiet DEF Turn

\* And so does every step.
LEMMA NextQuiet ==
    ASSUME Quiet, [Next]_vars
    PROVE  Quiet'
PROOF
  <1> USE DEF Quiet, PendingIsFirst, QueuedOnce, VetoHolds, DisabledIsIdle, DarkIsSecure
  <1> USE DEF engineVars, queueVars, policyVars, secureVars, worldVars
  <1>1. CASE TrayToggle
    BY <1>1 DEF TrayToggle
  <1>2. CASE SystemChanges
    BY <1>2 DEF SystemChanges
  <1>3. CASE WorkerChanges
    BY <1>3 DEF WorkerChanges
  <1>4. CASE UNCHANGED vars
    BY <1>4 DEF vars
  <1> QED BY <1>1, <1>2, <1>3, <1>4, EventsQuiet, OutcomeQuiet, TurnQuiet DEF Next

----------------------------------------------------------------------------

\* The invariant is one.
LEMMA Invariance == Spec => []Quiet
PROOF
  <1>1. Init => Quiet
    BY DEF Init, Quiet, PendingIsFirst, QueuedOnce, VetoHolds, DisabledIsIdle, DarkIsSecure
  <1>2. Quiet /\ [Next]_vars => Quiet'
    BY NextQuiet
  <1> QED BY <1>1, <1>2, PTL DEF Spec

\* The queued request is the one the engine waits for: no event, policy or edge
\* outdates it and leaves it queued.
THEOREM QueuedIsAwaited == Spec => []LatestIsAwaited
PROOF
  <1>1. Quiet => LatestIsAwaited
    BY DEF Quiet, QueuedOnce, LatestIsAwaited
  <1> QED BY <1>1, Invariance, PTL

\* Where preferences forbid suggestions nothing is on screen or on its way there,
\* and after the edge that saw completions disabled no earlier answer is.
THEOREM VetoSilences == Spec => []VetoedIsSilent
PROOF
  <1>1. Quiet => VetoedIsSilent
    BY DEF Quiet, VetoHolds, DisabledIsIdle, VetoedIsSilent
  <1> QED BY <1>1, Invariance, PTL

\* From the edge that sees secure input to its end nothing is shown, asked or
\* queued.
THEOREM SecureInputDarkens == Spec => []SecureIsDark
PROOF
  <1>1. Quiet => SecureIsDark
    BY DEF Quiet, DarkIsSecure, SecureIsDark
  <1> QED BY <1>1, Invariance, PTL

=============================================================================
