------------------------------- MODULE X11Tap -------------------------------
(***************************************************************************)
(* The accept tap on Linux: X11AcceptTap in platform_linux/x11_tap.rs, the *)
(* pure rules of x11_keys.rs it decides by, and the live rebind of         *)
(* app/run_loop.rs.  A synchronous passive grab freezes the whole keyboard *)
(* at a grabbed key until the tap allows the event, so four threads share  *)
(* it: the host shows, hides, rebinds and drops the tap; the event thread  *)
(* answers keys and layout changes; the watchdog acts on deadlines; the    *)
(* dispatcher calls the engine.                                            *)
(*                                                                         *)
(* A step is what another thread cannot tell apart: all that is done under *)
(* the lock of `grabbed', one request to the server, one access to an      *)
(* atomic.  A key is a role of a plan: the keycode that chord has in that  *)
(* layout.  A deadline is unset, set, or passed.                           *)
(* Left out: the modifier masks, the release of a key, the always-on       *)
(* shortcuts (a tap of their own) and the installation of the threads.     *)
(***************************************************************************)
EXTENDS Integers, Sequences, FiniteSets, SequencesExt

CONSTANTS
    None,
    Maps, StartMap,        \* the accept chords a user may choose, and the first
    Layouts, StartLayout,  \* the keyboard layouts of the session, and the first
    QueueCap,    \* bound on the X events and controls under way
    MaxShows,    \* bound on shows
    MaxInputs    \* bound on keys, rebinds and layouts together

ASSUME X11Assumption ==
    /\ StartMap \in Maps /\ StartLayout \in Layouts
    /\ None \notin Maps \cup Layouts \cup {"Full", "Correction", "frozen", "replayed"}
    /\ None \notin [map : Maps, layout : Layouts]
    /\ QueueCap \in Nat \ {0}
    /\ MaxShows \in Nat /\ MaxInputs \in Nat

VARIABLES
    keymap,      \* CONFIGURED_MAC_CHORDS
    layout,      \* the server's keyboard mapping
    plan,        \* TapState.plan: chords and layout, or None for the empty plan
    action,      \* TapState.action
    grabbed,     \* TapState.grabbed
    frozenSince, armedSince, hideAt,  \* the deadlines
    stopping,    \* active is its negation
    grabs,       \* server: the plans whose keys are grabbed
    events,      \* server: what the event thread has not finished, oldest first
    event,       \* the event thread
    watchdog,    \* the watchdog thread
    controls,    \* the dispatcher's channel
    shown,       \* what the host has on screen
    todo,        \* the steps of the host's call under way
    excused,     \* history: the suggestion on screen was disarmed for cause
    heard,       \* history: what became of a key the engine heard of, if not eaten
    left         \* the shows and the inputs that are left to make

tapVars    == <<plan, action, grabbed, armedSince, hideAt>>
serverVars == <<layout, grabs, events>>
hostVars   == <<keymap, shown, todo>>
history    == <<excused, heard>>
vars == <<tapVars, frozenSince, stopping, serverVars, event, watchdog, controls,
          hostVars, history, left>>

Roles == {"Full", "GrammarAccept"}   \* the roles of a ghost are alike

Idle == todo = <<>>

Spend(what) == left[what] > 0 /\ left' = [left EXCEPT ![what] = @ - 1]

----------------------------------------------------------------------------
(* The X server.  While a key is frozen no other key is reported, so at most *)
(* one is; allow_events answers for that one, whoever sends it.              *)

KeyEvent(p, role) == [type |-> "key", plan |-> p, role |-> role, fate |-> "frozen"]
Signal(type) == [type |-> type, plan |-> None, role |-> None, fate |-> None]

Frozen == \E i \in DOMAIN events : events[i].fate = "frozen"

\* AsyncKeyboard eats the frozen key, ReplayKeyboard gives it to the application
\* (a key is "thawed" when the watchdog replayed it, and "mistaken" when it got the
\* answer to the key before).
Allow(fate) == [i \in DOMAIN events |->
    IF events[i].fate = "frozen" THEN [events[i] EXCEPT !.fate = fate] ELSE events[i]]

Without(p) == grabs \ {p}
With(p)    == IF p = None THEN grabs ELSE grabs \cup {p}

Queued == Len(events) + Len(controls) < QueueCap

\* A key that is not grabbed goes to the application and concerns nobody here.
Press ==
    /\ Queued /\ ~Frozen
    /\ Spend("inputs")
    /\ \E p \in grabs, role \in Roles : events' = Append(events, KeyEvent(p, role))
    /\ UNCHANGED <<tapVars, frozenSince, stopping, layout, grabs, event, watchdog,
                   controls, hostVars, history>>

ChangeLayout ==
    /\ Queued /\ ~stopping
    /\ Spend("inputs")
    /\ layout' \in Layouts \ {layout}
    /\ events' = Append(events, Signal("mapping"))
    /\ UNCHANGED <<tapVars, frozenSince, stopping, grabs, event, watchdog, controls,
                   hostVars, history>>

\* The connection closes with the last of its users, and the server gives back
\* what the client held.
Disconnect ==
    /\ stopping /\ Idle /\ event.at = "gone" /\ watchdog = "gone"
    /\ grabs # {} \/ events # <<>>
    /\ grabs' = {} /\ events' = <<>>
    /\ UNCHANGED <<tapVars, frozenSince, stopping, layout, event, watchdog, controls,
                   hostVars, history, left>>

----------------------------------------------------------------------------
(* set_action: the action and the grab change under one lock, so that keys   *)
(* are grabbed only while an action is armed.                                *)

\* clear_armed_state
ClearArmed ==
    /\ grabbed' = FALSE /\ action' = None
    /\ armedSince' = "unset" /\ hideAt' = "unset"

\* arm_transition, the grab it asks of the server, and what fails with it.
Grabs(a) ==
    /\ a # None /\ ~grabbed
    /\ action' = a
    /\ grabs' = With(plan) /\ grabbed' = TRUE
    /\ armedSince' = "set"
    /\ UNCHANGED hideAt

GrabFails(a) ==
    /\ a # None /\ ~grabbed /\ plan # None
    /\ ClearArmed
    /\ UNCHANGED grabs

LeavesGrab(a) ==
    \/ /\ a = None /\ grabbed
       /\ grabs' = Without(plan)
       /\ ClearArmed
    \/ /\ (a # None) = grabbed
       /\ action' = a
       /\ UNCHANGED <<grabs, grabbed, armedSince, hideAt>>

----------------------------------------------------------------------------
(* regrab: the plan is built from what the chords and the layout are then,   *)
(* and published later, under both locks.                                    *)

\* build_grab_plan fails when the layout carries none of the chords.
Built == {[map |-> keymap, layout |-> layout], None}

\* Mutant: a regrab without a plan forgets to release the old keys.
ForgetsKeys ==
    /\ plan' = None
    /\ ClearArmed
    /\ UNCHANGED grabs

\* Without a plan everything is released, whatever was armed.
PublishEmpty ==
    /\ plan' = None
    /\ grabs' = IF grabbed THEN Without(plan) ELSE grabs
    /\ ClearArmed

PublishPlan(new) ==
    /\ plan' = new
    /\ grabs' = IF grabbed THEN Without(plan) \cup {new} ELSE grabs
    /\ UNCHANGED <<action, grabbed, armedSince, hideAt>>

\* RestorePreviousPlan: a rebind takes the old keys back, if it can.
RestorePlan ==
    /\ grabbed
    /\ UNCHANGED plan
    /\ \/ UNCHANGED <<grabs, action, grabbed, armedSince, hideAt>>
       \/ grabs' = Without(plan) /\ ClearArmed

\* Disarm: after a change of layout the old keycodes may be other keys.
DisarmPlan(new) ==
    /\ grabbed
    /\ plan' = new /\ grabs' = Without(plan)
    /\ ClearArmed

Succeeds(new) == new # None /\ PublishPlan(new)

\* A suggestion that a regrab disarms has lost its keys for cause.
LosesKeys == excused' = (excused \/ (action # None /\ action' = None))

----------------------------------------------------------------------------
(* The host's calls, as lists of steps. *)

Step(op, arg) == [op |-> op, arg |-> arg]

SetAction(a)  == <<Step("Set", a)>>
SetVisible(v) == <<Step("Read", v)>>

\* set_tap_visible
ShowTap(a) == SetAction(a) \o SetVisible(TRUE)
HideTap    == SetVisible(FALSE) \o SetAction(None)

ActionOf(kind) == IF kind = "Correction" THEN "Correction" ELSE "Full"

Begins(call) ==
    /\ Idle /\ ~stopping
    /\ todo' = call
    /\ UNCHANGED <<plan, action, grabbed, armedSince, frozenSince, serverVars,
                   event, watchdog, controls, heard>>

ShowSuggestion(kind) ==
    /\ Begins(ShowTap(ActionOf(kind)))
    /\ Spend("shows")
    /\ shown' = kind /\ excused' = FALSE
    /\ UNCHANGED <<hideAt, stopping, keymap>>

HideSuggestion ==
    /\ shown # None
    /\ Begins(HideTap)
    /\ shown' = None
    /\ UNCHANGED <<hideAt, stopping, keymap, excused, left>>

\* hide_suggestion_after, what follows an accept by synthetic keys.
HideSuggestionAfter ==
    /\ shown # None
    /\ Begins(<<>>)
    /\ shown' = None
    /\ hideAt' = "set"
    /\ UNCHANGED <<stopping, keymap, excused, left>>

\* apply_live_accept_keymap
Rebind(map) ==
    /\ map # keymap
    /\ Begins(<<Step("Build", keymap)>>)
    /\ Spend("inputs")
    /\ keymap' = map
    /\ UNCHANGED <<hideAt, stopping, shown, excused>>

\* Drop: inactive and stopping first, and the keyboard before any thread.
DropTap ==
    /\ Begins(<<Step("Thaw", None), Step("Ungrab", None), Step("Forget", None)>>)
    /\ stopping' = TRUE
    /\ excused' = FALSE
    /\ left' = [left EXCEPT !.shows = 0]
    /\ UNCHANGED <<hideAt, keymap, shown>>

----------------------------------------------------------------------------
(* The host's steps. *)

NextIs(op) == todo # <<>> /\ Head(todo).op = op

\* A show that cannot be armed is taken back.
Set ==
    LET a == Head(todo).arg IN
    /\ NextIs("Set")
    /\ \/ /\ Grabs(a) \/ LeavesGrab(a)
          /\ todo' = Tail(todo)
          /\ UNCHANGED shown
       \/ /\ GrabFails(a)
          /\ shown' = None
          /\ todo' = HideTap
    /\ UNCHANGED <<plan, frozenSince, stopping, layout, events, event, watchdog,
                   controls, keymap, history, left>>

\* set_suggestion_visible, up to its set_action.
ReadAction ==
    /\ NextIs("Read")
    /\ hideAt' = "unset"   \* any visibility transition invalidates a scheduled hide
    /\ todo' = SetAction(IF ~Head(todo).arg THEN None
                         ELSE IF action = None THEN "Full" ELSE action) \o Tail(todo)
    /\ UNCHANGED <<plan, action, grabbed, armedSince, frozenSince, stopping, serverVars,
                   event, watchdog, controls, keymap, shown, history, left>>

\* rearm, for the new chords ("Build") and for the old ones ("BuildOld").
BuildPlan ==
    /\ NextIs("Build") \/ NextIs("BuildOld")
    /\ \E new \in Built :
          todo' = <<Step(IF NextIs("Build") THEN "Install" ELSE "InstallOld",
                         [new |-> new, old |-> Head(todo).arg])>>
    /\ UNCHANGED <<tapVars, frozenSince, stopping, serverVars, event, watchdog, controls,
                   keymap, shown, history, left>>

\* A rearm that fails puts the old chords back and rearms once more.
InstallPlan ==
    LET built == Head(todo).arg IN
    /\ NextIs("Install") \/ NextIs("InstallOld")
    /\ \/ /\ Succeeds(built.new)
          /\ todo' = <<>>
          /\ UNCHANGED keymap
       \/ /\ IF built.new = None THEN PublishEmpty ELSE RestorePlan
          /\ IF NextIs("Install")
             THEN keymap' = built.old /\ todo' = <<Step("BuildOld", built.old)>>
             ELSE UNCHANGED keymap /\ todo' = <<>>
    /\ LosesKeys
    /\ UNCHANGED <<frozenSince, stopping, layout, events, event, watchdog,
                   controls, shown, heard, left>>

\* Thaw, ungrab, and clear of `grabbed' in Drop; then the event thread is woken.
Dropping ==
    /\ \/ NextIs("Thaw") /\ events' = Allow("replayed") /\ UNCHANGED <<grabs, grabbed>>
       \/ NextIs("Ungrab") /\ grabs' = Without(plan) /\ UNCHANGED <<events, grabbed>>
       \/ /\ NextIs("Forget")
          /\ grabbed' = FALSE /\ events' = Append(events, Signal("wake"))
          /\ UNCHANGED grabs
    /\ todo' = Tail(todo)
    /\ UNCHANGED <<plan, action, armedSince, hideAt, frozenSince, stopping, layout,
                   event, watchdog, controls, keymap, shown, history, left>>

Host ==
    \/ Set \/ ReadAction \/ BuildPlan \/ InstallPlan \/ Dropping

----------------------------------------------------------------------------
(* The event thread.  The event it works on stays at the head of `events'.   *)

At(pc) == event.at = pc

\* The loop looks at `stopping' between two events.
Done == event' = [at |-> IF stopping THEN "thaw" ELSE "wait", consumes |-> FALSE,
                  new |-> None]

KeepHost == UNCHANGED <<keymap, shown, todo, watchdog, stopping, layout, left>>

TakeEvent ==
    /\ At("wait") /\ events # <<>>
    /\ \/ /\ Head(events).type = "key"
          /\ frozenSince' = "set"
          /\ event' = [event EXCEPT !.at = "stored"]
          /\ UNCHANGED events
       \/ /\ Head(events).type = "mapping"
          /\ \E new \in Built : event' = [event EXCEPT !.at = "install", !.new = new]
          /\ events' = Tail(events)
          /\ UNCHANGED frozenSince
       \/ /\ Head(events).type = "wake"
          /\ events' = Tail(events)
          /\ Done
          /\ UNCHANGED frozenSince
    /\ UNCHANGED <<tapVars, grabs, controls, history>> /\ KeepHost

\* key_decision
Answers(role) ==
    \/ action = "Full" /\ role = "Full"
    \/ action = "Correction" /\ role = "GrammarAccept"

\* A keycode of an earlier plan may be any key of this one, or none.
Decide ==
    LET key == Head(events) IN
    /\ At("stored")
    /\ \E role \in IF key.plan = plan THEN {key.role}
                   ELSE IF plan = None THEN {None} ELSE Roles \cup {None} :
          event' = [event EXCEPT !.at = "decided", !.consumes = Answers(role)]
    /\ UNCHANGED <<tapVars, frozenSince, grabs, events, controls, history>> /\ KeepHost

\* The answer goes to the key that is frozen then.  Once the watchdog has thawed the
\* key it is meant for, that is the next one, which is eaten or replayed by mistake.
AnswerTo(key) ==
    IF key.fate # "frozen" THEN "mistaken"
    ELSE IF event.consumes THEN "eaten" ELSE "replayed"

AllowKey ==
    /\ At("decided")
    /\ events' = Allow(AnswerTo(Head(events)))
    /\ event' = [event EXCEPT !.at = "allowed"]
    /\ UNCHANGED <<tapVars, frozenSince, grabs, controls, history>> /\ KeepHost

\* The key is handed to the dispatcher only after the keyboard is free again.
SendControl ==
    /\ At("allowed")
    /\ frozenSince' = "unset"
    /\ controls' = IF event.consumes THEN Append(controls, Head(events).fate) ELSE controls
    /\ events' = Tail(events)
    /\ Done
    /\ UNCHANGED <<tapVars, grabs, history>> /\ KeepHost

InstallLayout ==
    /\ At("install")
    /\ \/ Succeeds(event.new)
       \/ IF event.new = None THEN PublishEmpty ELSE DisarmPlan(event.new)
    /\ LosesKeys
    /\ Done
    /\ UNCHANGED <<frozenSince, events, controls, heard>> /\ KeepHost

\* After the loop: thaw, ungrab, forget the frozen key.
Leave ==
    /\ \/ /\ At("thaw")
          /\ events' = Allow("replayed")
          /\ event' = [event EXCEPT !.at = "ungrab"]
          /\ UNCHANGED <<grabs, frozenSince>>
       \/ /\ At("ungrab")
          /\ grabs' = Without(plan) /\ frozenSince' = "unset"
          /\ event' = [event EXCEPT !.at = "gone"]
          /\ UNCHANGED events
    /\ UNCHANGED <<tapVars, controls, history>> /\ KeepHost

EventThread ==
    TakeEvent \/ Decide \/ AllowKey \/ SendControl \/ InstallLayout \/ Leave

----------------------------------------------------------------------------
(* The watchdog. *)

KeepEvent == UNCHANGED <<keymap, shown, todo, event, controls, stopping, layout, heard,
                        left>>

Due == frozenSince = "passed" \/ armedSince = "passed" \/ hideAt = "passed"

\* The loop looks at `stopping' between two ticks.
Rests == watchdog' = IF stopping THEN "gone" ELSE "sleep"

\* watchdog_action, on deadlines read without a lock.
Tick ==
    /\ watchdog = "sleep" /\ Due
    /\ watchdog' = IF frozenSince = "passed" THEN "thaw" ELSE "disarm"
    /\ UNCHANGED <<tapVars, frozenSince, grabs, events, excused>> /\ KeepEvent

ThawFrozen ==
    /\ watchdog = "thaw"
    /\ events' = Allow("thawed")
    /\ watchdog' = "unset"
    /\ UNCHANGED <<tapVars, frozenSince, grabs, excused>> /\ KeepEvent

ForgetFrozen ==
    /\ watchdog = "unset"
    /\ frozenSince' = "unset"
    /\ watchdog' = "disarmFrozen"
    /\ UNCHANGED <<tapVars, grabs, events, excused>> /\ KeepEvent

\* After a thaw the action is taken back unconditionally.
DisarmFrozen ==
    /\ watchdog = "disarmFrozen"
    /\ LeavesGrab(None)
    /\ excused' = TRUE
    /\ Rests
    /\ UNCHANGED <<plan, frozenSince, events>> /\ KeepEvent

\* Mutant: the decision taken without the lock is carried out.
DueBefore == TRUE

\* watchdog_disarm: the decision is taken again under the lock.
StillDue == Due

Disarm ==
    /\ watchdog = "disarm"
    /\ \/ /\ StillDue
          /\ LeavesGrab(None)
          /\ excused' = (excused \/ frozenSince = "passed" \/ armedSince = "passed")
       \/ /\ ~StillDue
          /\ UNCHANGED <<action, grabbed, armedSince, hideAt, grabs, excused>>
    /\ Rests
    /\ UNCHANGED <<plan, frozenSince, events>> /\ KeepEvent

EndWatch ==
    /\ watchdog = "sleep" /\ stopping /\ ~Due
    /\ Rests
    /\ UNCHANGED <<tapVars, frozenSince, grabs, events, excused>> /\ KeepEvent

Watchdog ==
    \/ Tick \/ ThawFrozen \/ ForgetFrozen \/ DisarmFrozen \/ Disarm
    \/ EndWatch

\* Time: a key frozen for its budget, a grab armed for its cap, a hide that is due.
Passes(deadline) == deadline = "set" /\ deadline' = "passed"

PassTime ==
    /\ \/ Passes(frozenSince) /\ UNCHANGED <<armedSince, hideAt>>
       \/ Passes(armedSince) /\ UNCHANGED <<frozenSince, hideAt>>
       \/ Passes(hideAt) /\ UNCHANGED <<frozenSince, armedSince>>
    /\ UNCHANGED <<plan, action, grabbed, stopping, serverVars, event, watchdog,
                   controls, hostVars, history, left>>

----------------------------------------------------------------------------
(* The dispatcher. *)

\* Mutant: a control sent before the drop is delivered after it.
AlwaysDelivers == TRUE

Delivers == ~stopping

\* A control that finds the tap inactive ends the thread.
Dispatch ==
    /\ controls # <<>>
    /\ IF Delivers
       THEN /\ controls' = Tail(controls)
            /\ heard' = IF Head(controls) = "eaten" THEN heard ELSE Head(controls)
       ELSE controls' = <<>> /\ UNCHANGED heard
    /\ UNCHANGED <<tapVars, frozenSince, stopping, serverVars, event, watchdog, hostVars,
                   excused, left>>

----------------------------------------------------------------------------

Init ==
    /\ keymap = StartMap /\ layout = StartLayout
    /\ plan = [map |-> keymap, layout |-> layout]
    /\ action = None /\ grabbed = FALSE
    /\ frozenSince = "unset" /\ armedSince = "unset" /\ hideAt = "unset"
    /\ stopping = FALSE
    /\ grabs = {} /\ events = <<>> /\ controls = <<>>
    /\ event = [at |-> "wait", consumes |-> FALSE, new |-> None]
    /\ watchdog = "sleep"
    /\ shown = None /\ todo = <<>>
    /\ excused = FALSE /\ heard = None
    /\ left = [shows |-> MaxShows, inputs |-> MaxInputs]

Next ==
    \/ \E kind \in {"Ghost", "Correction"} : ShowSuggestion(kind)
    \/ HideSuggestion
    \/ HideSuggestionAfter
    \/ \E map \in Maps : Rebind(map)
    \/ DropTap
    \/ Host
    \/ EventThread
    \/ Watchdog
    \/ Dispatch
    \/ PassTime
    \/ Press
    \/ ChangeLayout
    \/ Disconnect

Spec == Init /\ [][Next]_vars

\* Threads run and time passes; the host's calls, the user and failures owe nothing.
FairSpec ==
    /\ Spec
    /\ WF_vars(Host) /\ WF_vars(EventThread) /\ WF_vars(Watchdog) /\ WF_vars(Dispatch)
    /\ WF_vars(PassTime) /\ WF_vars(Disconnect)

----------------------------------------------------------------------------
(* Properties. *)

\* Until the tap is dropped, keys are grabbed only while an action is armed, and
\* only those of the plan the next key is decided by (apply_action_locked,
\* regrab).  A suggestion on screen has its keys whichever earlier deadline passes
\* in between (watchdog_disarm), unless a deadline of its own, a frozen key or a
\* failed regrab has disarmed it.
KeysFollowSuggestion ==
    ~stopping =>
        /\ grabs # {} => action # None
        /\ grabs \subseteq {plan}
        /\ Idle /\ shown # None /\ ~excused =>
              /\ grabbed /\ action # None
              /\ shown = "Ghost" => action = "Full"
              /\ grabs = {plan} \ {None}

\* A key the engine has heard of never reached the application, however the drop
\* of the tap and the changes of the plan interleave (Drop's thaw and
\* spawn_dispatcher), but for a key the watchdog replayed (KeysAreHeardOnce) or one
\* that got the answer to such a key (EachAnswerIsItsOwn).
ControlsWereEaten == heard # "replayed"

\* The keyboard is never frozen for good, and keys that nothing on screen answers
\* to are given back, also when the hide comes late or not at all (the watchdog,
\* Drop and the end of the event thread).
KeyboardIsGivenBack ==
    LET Owed == Frozen \/ (grabs # {} /\ (shown = None \/ stopping)) IN
    Owed ~> ~Owed

\* Findings.

\* The comment on set_suggestion_visible: it preserves the action that was set just
\* before, which its own default replaces if the watchdog comes in between.
CorrectionKeepsItsKeys ==
    ~stopping /\ Idle /\ shown = "Correction" /\ ~excused => action = "Correction"

\* The comment at the top of x11_tap.rs: no window where a keystroke is dropped or
\* duplicated.
KeysAreHeardOnce == heard = None

\* The comment on resolve_key_press: it resolves exactly one grabbed keystroke, the
\* one it was called for.
EachAnswerIsItsOwn == \A i \in DOMAIN events : events[i].fate # "mistaken"

\* The comment on TapState.plan: mapping changes and live rebinds swap the plan
\* transactionally.
PlanIsCurrent ==
    Idle /\ At("wait") /\ events = <<>> /\ plan # None =>
        plan = [map |-> keymap, layout |-> layout]

\* The comment on MAX_ARMED_MS: the cap counts from the last visibility transition.
ShowRestartsCap ==
    [][todo # <<>> /\ Idle' /\ shown' # None /\ action' # None => armedSince' # "passed"]_vars

=============================================================================
