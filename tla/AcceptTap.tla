------------------------------ MODULE AcceptTap ------------------------------
(***************************************************************************)
(* The accept tap on macOS: AcceptTapController in platform_macos/lib.rs,  *)
(* the hotkey registry in carbon_registry.rs, the accept keymap, and the   *)
(* live rebind in app/run_loop.rs.  Three threads meet here: the host, on  *)
(* the main thread, shows and hides suggestions; a sleeper thread per      *)
(* delayed hide disarms the tap; and the main queue applies late teardowns *)
(* and delivers keys whenever the host pumps it.                           *)
(*                                                                         *)
(* A call of the host is a list of steps, each of them atomic because of   *)
(* the lock it takes, and the sleepers take the same locks.  Of the consumer*)
(* family of hotkeys only: shortcuts never change.  The subscription lives *)
(* as long as the process.                                                 *)
(***************************************************************************)
EXTENDS Integers, Sequences, FiniteSets

CONSTANTS
    None,
    Keymaps,      \* the accept keymaps a user may choose
    Generations,  \* Nat, or a bounded prefix
    Arms          \* identities of registrations: Nat, or a bounded prefix

ASSUME TapAssumption ==
    /\ Keymaps # {} /\ None \notin Keymaps
    /\ Generations \subseteq Nat /\ 0 \in Generations
    /\ Arms \subseteq Nat /\ 0 \in Arms /\ None \notin Nat
    /\ None \notin {"Full", "Correction", "Ghost", "Consumer", "CorrectionConsumer"}
    /\ None \notin [arm : Nat, kind : {"Consumer", "CorrectionConsumer"}, map : Keymaps]

VARIABLES
    action,      \* accept_action
    tap,         \* consumer_tap: the arm the controller owns
    generation,  \* teardown_generation
    sleepers,    \* the delayed hides under way
    registry,    \* the consumer family of the hotkey registry
    lastArm,     \* allocate_arm_id
    retiring,    \* arms whose token was dropped and not yet retired on main
    keymap,      \* ACCEPT_KEYMAP
    shown,       \* what the host has on screen
    todo,        \* the steps of the host's call under way
    restored,    \* a failed rebind has restored the old keymap since the last show
    pressed      \* history: the last key press and what became of it

tapVars  == <<action, tap, generation, registry, lastArm, retiring>>
hostVars == <<keymap, shown, restored, pressed>>
vars     == <<tapVars, hostVars, sleepers, todo>>

NormalRoles == {"Word", "Full", "Dismiss", "Cycle"}
Roles == NormalRoles \cup {"GrammarAccept"}

\* arm_bindings_for_action, by the kind of the consumer.
BoundRoles(kind) ==
    IF kind = "CorrectionConsumer" THEN {"GrammarAccept"} ELSE NormalRoles

\* accept_consumer_kind_for_action
KindFor(a) == IF a = "Correction" THEN "CorrectionConsumer" ELSE "Consumer"

ActionOf(kind) == IF kind = "Correction" THEN "Correction" ELSE "Full"

Idle == todo = <<>>

Held(lock) == \E s \in sleepers : s.at = lock

----------------------------------------------------------------------------
(* Calls of the host, as lists of steps. *)

Step(op, a) == [op |-> op, arg |-> a]

SetAction(a) == <<Step("Store", a), Step("Settle", a)>>

\* set_tap_visible: set_accept_action, then set_suggestion_visible, or the reverse.
ShowTap(a) == SetAction(a) \o <<Step("Stamp", None), Step("Default", None)>>
HideTap    == <<Step("Stamp", None)>> \o SetAction(None) \o SetAction(None)

\* Identities left for what a call may use.
Room == generation + 2 \in Generations /\ lastArm + 2 \in Arms

ShowSuggestion(kind) ==
    /\ Idle /\ Room
    /\ shown' = kind /\ restored' = FALSE
    /\ todo' = ShowTap(ActionOf(kind))
    /\ UNCHANGED <<tapVars, keymap, pressed, sleepers>>

HideSuggestion ==
    /\ Idle /\ Room /\ shown # None
    /\ shown' = None /\ restored' = FALSE
    /\ todo' = HideTap
    /\ UNCHANGED <<tapVars, keymap, pressed, sleepers>>

\* hide_suggestion_after, what follows an accept by synthetic keys.
HideSuggestionAfter ==
    /\ Idle /\ Room /\ shown # None
    /\ shown' = None /\ restored' = FALSE
    /\ generation' = generation + 1
    /\ sleepers' = sleepers \cup {[generation |-> generation + 1, at |-> "sleep"]}
    /\ UNCHANGED <<action, tap, registry, lastArm, retiring, keymap, pressed, todo>>

\* apply_live_accept_keymap: the map first, the re-arm second.
Rebind(map) ==
    /\ Idle /\ Room /\ map # keymap
    /\ keymap' = map
    /\ todo' = <<Step("Rearm", keymap)>>
    /\ UNCHANGED <<tapVars, shown, restored, pressed, sleepers>>

----------------------------------------------------------------------------
(* Steps. *)

NextIs(op) == todo # <<>> /\ Head(todo).op = op

Store ==
    /\ NextIs("Store") /\ ~Held("action")
    /\ action' = Head(todo).arg
    /\ todo' = Tail(todo)
    /\ UNCHANGED <<tap, generation, registry, lastArm, retiring, hostVars, sleepers>>

\* Mutant: the action is taken as it is found.
AsFound == action

\* get_or_insert(Full)
Defaulted == IF action = None THEN "Full" ELSE action

\* The second half of set_suggestion_visible(true), which sets the action again.
Default ==
    /\ NextIs("Default") /\ ~Held("action")
    /\ action' = Defaulted
    /\ todo' = SetAction(action') \o Tail(todo)
    /\ UNCHANGED <<tap, generation, registry, lastArm, retiring, hostVars, sleepers>>

Stamp ==
    /\ NextIs("Stamp")
    /\ generation' = generation + 1
    /\ todo' = Tail(todo)
    /\ UNCHANGED <<action, tap, registry, lastArm, retiring, hostVars, sleepers>>

Retired == IF tap = None THEN retiring ELSE retiring \cup {tap}

\* The keys of the old arm are unregistered before the first new one is.
Installs(kind) ==
    /\ lastArm' = lastArm + 1
    /\ registry' = [arm |-> lastArm', kind |-> kind, map |-> keymap]
    /\ tap' = lastArm'

\* Mutant: the arm is not taken back when the worker does not adopt its token.
FailsRegistered(kind) ==
    /\ lastArm' = lastArm + 1
    /\ registry' = [arm |-> lastArm', kind |-> kind, map |-> keymap]
    /\ tap' = None

\* The handler cannot be installed and the old arm survives, or a registration or
\* the adoption of the token fails and what was registered is taken back.
FailsClean(kind) ==
    /\ tap' = None
    /\ \/ UNCHANGED <<registry, lastArm>>
       \/ registry' = None /\ lastArm' = lastArm + 1

\* What fail does about a show that could not be armed.
Abandon ==
    /\ shown' = None
    /\ todo' = HideTap

\* The second half of set_accept_action: the keys follow the action.
Settle ==
    LET a == Head(todo).arg
    IN  /\ NextIs("Settle") /\ ~Held("tap")
        /\ \/ /\ a # None /\ tap = None
              /\ \/ /\ Installs(KindFor(a))
                    /\ todo' = Tail(todo)
                    /\ UNCHANGED shown
                 \/ FailsClean(KindFor(a)) /\ Abandon
              /\ UNCHANGED retiring
           \/ /\ a = None
              /\ tap' = None /\ retiring' = Retired
              /\ todo' = Tail(todo)
              /\ UNCHANGED <<registry, lastArm, shown>>
           \/ /\ a # None /\ tap # None
              /\ todo' = Tail(todo)
              /\ UNCHANGED <<tap, retiring, registry, lastArm, shown>>
        /\ UNCHANGED <<action, generation, keymap, restored, pressed, sleepers>>

\* rearm_consumer_tap: nothing unless armed; else drop and install again.
Rearmed  == \/ tap = None /\ UNCHANGED <<tap, registry, lastArm, retiring>>
            \/ tap # None /\ Installs(KindFor(action)) /\ retiring' = Retired
RearmFails == tap # None /\ FailsClean(KindFor(action)) /\ retiring' = Retired

\* The map that was in force when the rebind began.
RevertMap == keymap' = Head(todo).arg

FinishRebind ==
    /\ NextIs("Rearm") /\ ~Held("tap") /\ ~Held("action")
    /\ \/ /\ Rearmed
          /\ todo' = <<>>
          /\ UNCHANGED <<keymap, restored>>
       \/ /\ RearmFails
          /\ RevertMap
          /\ todo' = <<Step("Restore", None)>>
          /\ UNCHANGED restored
    /\ UNCHANGED <<action, generation, shown, pressed, sleepers>>

\* The re-arm that should put the old keys back.  It cannot fail: the one that did
\* has dropped the tap, and without a tap there is nothing to re-arm.
RestoreKeys ==
    /\ NextIs("Restore") /\ ~Held("tap") /\ ~Held("action")
    /\ Rearmed
    /\ restored' = TRUE
    /\ todo' = <<>>
    /\ UNCHANGED <<action, generation, keymap, shown, pressed, sleepers>>

----------------------------------------------------------------------------
(* deactivate_if_generation, on the thread of a sleeper. *)

Moves(s, at) == sleepers' = (sleepers \ {s}) \cup {[s EXCEPT !.at = at]}
Ends(s)      == sleepers' = sleepers \ {s}

Current(s) == s.generation = generation

Wake(s) ==
    /\ s.at = "sleep"
    /\ IF Current(s) THEN Moves(s, "awake") ELSE Ends(s)
    /\ UNCHANGED <<tapVars, hostVars, todo>>

\* clear_accept_action_if_generation; the stamp is read under the lock, but whoever
\* advances it does not take the lock.
LockAction(s) ==
    /\ s.at = "awake" /\ ~Held("action")
    /\ Moves(s, IF Current(s) THEN "action" ELSE "cleared")
    /\ UNCHANGED <<tapVars, hostVars, todo>>

ClearAction(s) ==
    /\ s.at = "action"
    /\ action' = None
    /\ Moves(s, "cleared")
    /\ UNCHANGED <<tap, generation, registry, lastArm, retiring, hostVars, todo>>

\* Mutant: the stamp is not read again before the tap is dropped.
AlwaysDrops(s) == TRUE

StillDrops(s) == Current(s)

LockTap(s) ==
    /\ s.at = "cleared" /\ ~Held("tap")
    /\ IF StillDrops(s) THEN Moves(s, "tap") ELSE Ends(s)
    /\ UNCHANGED <<tapVars, hostVars, todo>>

DropTap(s) ==
    /\ s.at = "tap"
    /\ tap' = None /\ retiring' = Retired
    /\ Ends(s)
    /\ UNCHANGED <<action, generation, registry, lastArm, hostVars, todo>>

Sleeper == \E s \in sleepers :
    Wake(s) \/ LockAction(s) \/ ClearAction(s) \/ LockTap(s) \/ DropTap(s)

----------------------------------------------------------------------------
(* The main queue, while the host pumps it. *)

\* Mutant: a late teardown takes whatever is registered.
RetiresAny(arm) == registry # None

RetiresOwn(arm) == registry # None /\ registry.arm = arm

\* retire
Teardown ==
    /\ Idle
    /\ \E arm \in retiring :
          /\ retiring' = retiring \ {arm}
          /\ registry' = IF RetiresOwn(arm) THEN None ELSE registry
    /\ UNCHANGED <<action, tap, generation, lastArm, hostVars, sleepers, todo>>

\* accept_tap_decision: is the role one the action answers to?
Decides(role) ==
    \/ action = "Correction" /\ role = "GrammarAccept"
    \/ action = "Full" /\ role \in NormalRoles

\* A registered key never reaches the application, whatever the handler decides.
KeyPress(role) ==
    /\ Idle /\ ~Held("action")
    /\ pressed' = [role |-> role, action |-> action,
                   fate |-> IF registry = None \/ role \notin BoundRoles(registry.kind)
                            THEN "passed"
                            ELSE IF Decides(role) THEN "heard" ELSE "swallowed"]
    /\ UNCHANGED <<tapVars, keymap, shown, restored, sleepers, todo>>

----------------------------------------------------------------------------

Init ==
    /\ action = None /\ tap = None /\ generation = 0
    /\ sleepers = {} /\ registry = None /\ lastArm = 0 /\ retiring = {}
    /\ keymap \in Keymaps
    /\ shown = None /\ todo = <<>> /\ restored = FALSE /\ pressed = None

Host ==
    \/ Store \/ Default \/ Stamp \/ Settle \/ FinishRebind \/ RestoreKeys

Next ==
    \/ \E kind \in {"Ghost", "Correction"} : ShowSuggestion(kind)
    \/ HideSuggestion
    \/ HideSuggestionAfter
    \/ \E map \in Keymaps : Rebind(map)
    \/ Host
    \/ Sleeper
    \/ Teardown
    \/ \E role \in Roles : KeyPress(role)

Spec == Init /\ [][Next]_vars

\* Threads run.  The host pumps the main queue once per turn, between its calls, so
\* a posted teardown is applied although calls come in between.
FairSpec == Spec /\ WF_vars(Host) /\ WF_vars(Sleeper) /\ SF_vars(Teardown)

----------------------------------------------------------------------------
(* Properties. *)

\* The type of the tap's state; a step under way is one of the host's.
TypeOK ==
    /\ action \in {None, "Full", "Correction"}
    /\ tap \in Arms \cup {None} /\ lastArm \in Arms /\ retiring \subseteq Arms
    /\ generation \in Generations
    /\ registry \in [arm : Arms, kind : {"Consumer", "CorrectionConsumer"},
                     map : Keymaps] \cup {None}
    /\ sleepers \subseteq
          [generation : Generations,
           at : {"sleep", "awake", "action", "cleared", "tap"}]
    /\ keymap \in Keymaps
    /\ shown \in {None, "Ghost", "Correction"} /\ restored \in BOOLEAN

\* While a suggestion is on screen and no rebind has failed under it, the keys of
\* the tap's own arm are registered, from the keymap in force, and a ghost answers
\* to the full accept: whichever delayed hide of an earlier suggestion clears the
\* action half-way through arming this one, however late an earlier arm is torn
\* down, and after a rebind that failed half-way.
NewestStaysArmed ==
    Idle /\ shown # None /\ ~restored =>
        /\ action # None /\ tap # None
        /\ registry # None /\ registry.arm = tap /\ registry.map = keymap
        /\ shown = "Ghost" => action = "Full"

\* With nothing on screen the keys go back to the application.
KeysAreReleased == (Idle /\ shown = None) ~> (registry = None \/ shown # None)

\* Findings.

\* The comment in accept_tap_decision: while a correction is armed, only the
\* grammar-accept key is consumed and the others pass through.
CorrectionLetsKeysPass ==
    pressed # None /\ pressed.action = "Correction" /\ pressed.role # "GrammarAccept"
        => pressed.fate = "passed"

\* The comment in apply_live_accept_keymap: after a failed re-arm the second one
\* puts the registration of the suggestion on screen back.
RestoredKeysAreRegistered ==
    Idle /\ restored /\ shown # None => registry # None /\ registry.arm = tap

=============================================================================
