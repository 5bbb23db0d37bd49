---------------------------- MODULE AcceptTap_proofs ----------------------------
(***************************************************************************)
(* Theorems about AcceptTap: a suggestion on screen keeps the keys of its  *)
(* own arm, whatever the delayed hides and late teardowns of earlier       *)
(* suggestions do in between.                                              *)
(***************************************************************************)
EXTENDS AcceptTap, SequenceTheorems, TLAPS

USE TapAssumption

Actions == {"Full", "Correction"}

\* What a call of the host may be made of.
Steps ==
    [op : {"Store", "Settle", "Stamp", "Default", "Restore"}, arg : Actions \cup {None}]
    \cup [op : {"Rearm"}, arg : Keymaps]

CallsAreSteps ==
    /\ todo \in Seq(Steps) /\ keymap \in Keymaps /\ action \in Actions \cup {None}
    /\ shown \in {None, "Ghost", "Correction"}

\* A delayed hide bears the stamp it was scheduled with, and no later one.
SleepersAreOld ==
    /\ generation \in Nat
    /\ sleepers \subseteq [generation : 0 .. generation,
                           at : {"sleep", "awake", "action", "cleared", "tap"}]

\* The arm of the tap is not one of those that are torn down late.
ArmsAreFresh ==
    /\ lastArm \in Nat /\ tap \in (0 .. lastArm) \cup {None}
    /\ retiring \subseteq (0 .. lastArm) \ {tap}

\* The tap's own keys are registered, but for a rebind that has yet to re-arm them.
OwnKeys ==
    tap # None =>
        /\ registry # None /\ registry.arm = tap
        /\ registry.map = keymap \/ NextIs("Rearm")

----------------------------------------------------------------------------
(* Calls. *)

\* Two steps and two more.
LEMMA TwoAndTwo ==
    ASSUME NEW a, NEW b, NEW c, NEW d
    PROVE  <<a, b>> \o <<c, d>> = <<a, b, c, d>>
<1> DEFINE S == {a, b, c, d}
           s == <<a, b>> \o <<c, d>>
           t == <<a, b, c, d>>
<1>1. <<a, b>> \in Seq(S) /\ <<c, d>> \in Seq(S) /\ s \in Seq(S) /\ t \in Seq(S)
  OBVIOUS
<1>2. Len(<<a, b>>) = 2 /\ Len(<<c, d>>) = 2
  OBVIOUS
<1>3. Len(s) = 4 /\ Len(t) = 4
  BY <1>1, <1>2
<1>4. \A i \in 1 .. 4 : s[i] = t[i]
  BY <1>1, <1>2, <1>3
<1> HIDE DEF s, t, S
<1>5. s = t
  BY <1>1, <1>3, <1>4, SeqEqual, SMT
<1> QED
  BY <1>5 DEF s, t

\* One step, two and two more.
LEMMA OneTwoTwo ==
    ASSUME NEW a, NEW b, NEW c, NEW d, NEW e
    PROVE  <<a>> \o <<b, c>> \o <<d, e>> = <<a, b, c, d, e>>
<1> DEFINE S == {a, b, c, d, e}
           r == <<a>> \o <<b, c>>
           s == r \o <<d, e>>
           t == <<a, b, c, d, e>>
<1>1. /\ <<a>> \in Seq(S) /\ <<b, c>> \in Seq(S) /\ <<d, e>> \in Seq(S)
      /\ r \in Seq(S) /\ s \in Seq(S) /\ t \in Seq(S)
  OBVIOUS
<1>2. Len(<<a>>) = 1 /\ Len(<<b, c>>) = 2 /\ Len(<<d, e>>) = 2
  OBVIOUS
<1>3. Len(r) = 3 /\ \A i \in 1 .. 3 : r[i] = <<a, b, c>>[i]
  BY <1>1, <1>2
<1>4. Len(s) = 5 /\ Len(t) = 5
  BY <1>1, <1>2, <1>3
<1>5. \A i \in 1 .. 5 : s[i] = t[i]
  BY <1>1, <1>2, <1>3, <1>4
<1> HIDE DEF s, t, S
<1>6. s = t
  BY <1>1, <1>4, <1>5, SeqEqual, SMT
<1> QED
  BY <1>6 DEF s, t

\* The calls, written out.
LEMMA CallShapes ==
    ASSUME NEW a
    PROVE  /\ SetAction(a) = <<Step("Store", a), Step("Settle", a)>>
           /\ ShowTap(a) = <<Step("Store", a), Step("Settle", a),
                             Step("Stamp", None), Step("Default", None)>>
           /\ HideTap = <<Step("Stamp", None), Step("Store", None), Step("Settle", None),
                          Step("Store", None), Step("Settle", None)>>
BY TwoAndTwo, OneTwoTwo DEF SetAction, ShowTap, HideTap

\* Their steps.
LEMMA StepsAreSteps ==
    /\ \A op \in {"Store", "Settle", "Stamp", "Default", "Restore"},
          a \in Actions \cup {None} : Step(op, a) \in Steps
    /\ \A m \in Keymaps : Step("Rearm", m) \in Steps
    /\ \A op, a : Step(op, a).op = op /\ Step(op, a).arg = a
BY DEF Step, Steps

\* Tuples of members.
LEMMA TuplesOf ==
    ASSUME NEW S, NEW a \in S, NEW b \in S, NEW c \in S, NEW d \in S, NEW e \in S
    PROVE  <<a, b>> \in Seq(S) /\ <<a, b, c, d>> \in Seq(S) /\ <<a, b, c, d, e>> \in Seq(S)
OBVIOUS

\* So the calls are made of them.
LEMMA CallsAreMadeOfSteps ==
    /\ HideTap \in Seq(Steps)
    /\ \A a \in Actions : ShowTap(a) \in Seq(Steps) /\ SetAction(a) \in Seq(Steps)
    /\ \A m \in Keymaps : <<Step("Rearm", m)>> \in Seq(Steps)
    /\ <<Step("Restore", None)>> \in Seq(Steps)
<1>1. /\ Step("Stamp", None) \in Steps /\ Step("Store", None) \in Steps
      /\ Step("Settle", None) \in Steps /\ Step("Default", None) \in Steps
      /\ Step("Restore", None) \in Steps
  BY StepsAreSteps
<1>2. HideTap \in Seq(Steps)
  <2>1. <<Step("Stamp", None), Step("Store", None), Step("Settle", None),
          Step("Store", None), Step("Settle", None)>> \in Seq(Steps)
    BY <1>1, TuplesOf
  <2> QED
    BY <2>1, CallShapes, Zenon
<1>3. ASSUME NEW a \in Actions
      PROVE  ShowTap(a) \in Seq(Steps) /\ SetAction(a) \in Seq(Steps)
  <2>1. Step("Store", a) \in Steps /\ Step("Settle", a) \in Steps
    BY StepsAreSteps
  <2>2. <<Step("Store", a), Step("Settle", a), Step("Stamp", None), Step("Default", None)>>
           \in Seq(Steps)
    BY <1>1, <2>1, TuplesOf
  <2>3. <<Step("Store", a), Step("Settle", a)>> \in Seq(Steps)
    BY <2>1, TuplesOf
  <2> QED
    BY <2>2, <2>3, CallShapes, Zenon
<1>4. ASSUME NEW m \in Keymaps
      PROVE  <<Step("Rearm", m)>> \in Seq(Steps)
  <2>1. Step("Rearm", m) \in Steps
    BY StepsAreSteps
  <2> QED
    BY <2>1
<1> QED
  BY <1>1, <1>2, <1>3, <1>4

\* The step under way is one of them.
LEMMA HeadIsStep ==
    ASSUME CallsAreSteps, todo # <<>>
    PROVE  /\ Head(todo) \in Steps /\ Tail(todo) \in Seq(Steps)
           /\ Head(todo).op # "Rearm" => Head(todo).arg \in Actions \cup {None}
           /\ Head(todo).op = "Rearm" => Head(todo).arg \in Keymaps
<1>1. Head(todo) \in Steps /\ Tail(todo) \in Seq(Steps)
  BY DEF CallsAreSteps
<1> QED
  BY <1>1 DEF Steps

\* Every step leaves steps to do.
LEMMA CallsStep ==
    ASSUME CallsAreSteps, [Next]_vars
    PROVE  CallsAreSteps'
<1> USE DEF CallsAreSteps, tapVars, hostVars
<1>1. ASSUME NEW kind \in {"Ghost", "Correction"}, ShowSuggestion(kind)
      PROVE  CallsAreSteps'
  <2>1. ActionOf(kind) \in Actions
    BY DEF ActionOf, Actions
  <2>2. todo' \in Seq(Steps)
    BY <1>1, <2>1, CallsAreMadeOfSteps DEF ShowSuggestion
  <2> QED
    BY <1>1, <2>2 DEF ShowSuggestion
<1>2. CASE HideSuggestion
  <2>1. HideTap \in Seq(Steps)
    BY CallsAreMadeOfSteps
  <2> QED
    BY <1>2, <2>1 DEF HideSuggestion
<1>3. CASE HideSuggestionAfter
  BY <1>3 DEF HideSuggestionAfter
<1>4. ASSUME NEW map \in Keymaps, Rebind(map)
      PROVE  CallsAreSteps'
  <2>1. todo' \in Seq(Steps)
    BY <1>4, CallsAreMadeOfSteps DEF Rebind
  <2> QED
    BY <1>4, <2>1 DEF Rebind
<1>5. CASE Store
  BY <1>5, HeadIsStep DEF Store, NextIs
<1>6. CASE Default
  <2>1. action' \in Actions /\ Tail(todo) \in Seq(Steps)
    BY <1>6, HeadIsStep DEF Default, Defaulted, NextIs, Actions
  <2>2. SetAction(action') \in Seq(Steps)
    BY <2>1, CallsAreMadeOfSteps
  <2>3. todo' \in Seq(Steps)
    BY <1>6, <2>1, <2>2 DEF Default
  <2> QED
    BY <1>6, <2>1, <2>3 DEF Default
<1>7. CASE Stamp
  BY <1>7, HeadIsStep DEF Stamp, NextIs
<1>8. CASE Settle
  <2>1. HideTap \in Seq(Steps)
    BY CallsAreMadeOfSteps
  <2>2. todo' \in Seq(Steps) /\ shown' \in {shown, None}
    BY <1>8, <2>1, HeadIsStep DEF Settle, Abandon, NextIs
  <2> QED
    BY <1>8, <2>2 DEF Settle
<1>9. CASE FinishRebind
  <2>1. keymap' \in Keymaps
    BY <1>9, HeadIsStep DEF FinishRebind, RevertMap, NextIs
  <2>2. todo' \in Seq(Steps)
    <3>1. todo' \in {<<>>, <<Step("Restore", None)>>}
      BY <1>9 DEF FinishRebind
    <3>2. <<>> \in Seq(Steps)
      OBVIOUS
    <3> QED
      BY <3>1, <3>2, CallsAreMadeOfSteps, Zenon
  <2> QED
    BY <1>9, <2>1, <2>2 DEF FinishRebind
<1>10. CASE RestoreKeys
  BY <1>10 DEF RestoreKeys
<1>11. CASE Sleeper
  <2>1. UNCHANGED <<todo, keymap, shown>> /\ action' \in {action, None}
    BY <1>11 DEF Sleeper, Wake, LockAction, ClearAction, LockTap, DropTap
  <2> QED
    BY <2>1
<1>12. CASE Teardown \/ UNCHANGED vars
  BY <1>12 DEF Teardown, vars
<1>13. ASSUME NEW role \in Roles, KeyPress(role)
       PROVE  CallsAreSteps'
  BY <1>13 DEF KeyPress
<1> QED
  BY <1>1, <1>2, <1>3, <1>4, <1>5, <1>6, <1>7, <1>8, <1>9, <1>10, <1>11, <1>12, <1>13
     DEF Next, Host

----------------------------------------------------------------------------
(* The delayed hides. *)

\* What the step of a sleeper does: it never takes a stamp that it has not, it enters
\* a critical section only while its stamp is current, and only in one it clears the
\* action or drops the tap.
LEMMA SleeperActs ==
    ASSUME SleepersAreOld, Sleeper
    PROVE  /\ SleepersAreOld'
           /\ UNCHANGED <<generation, registry, lastArm, hostVars, todo>>
           /\ action' = action \/ (Held("action") /\ action' = None)
           /\ UNCHANGED <<tap, retiring>> \/ (Held("tap") /\ tap' = None /\ retiring' = Retired)
           /\ Held("action")' => Held("action") \/ \E s \in sleepers : Current(s)
           /\ Held("tap")' => Held("tap") \/ \E s \in sleepers : Current(s)
           /\ (\E s \in sleepers' : s.generation = generation) => \E s \in sleepers : Current(s)
<1> PICK s \in sleepers :
          Wake(s) \/ LockAction(s) \/ ClearAction(s) \/ LockTap(s) \/ DropTap(s)
  BY DEF Sleeper
<1>1. s \in [generation : 0 .. generation, at : {"sleep", "awake", "action", "cleared", "tap"}]
  BY DEF SleepersAreOld
<1> USE DEF SleepersAreOld, Moves, Ends, Held, Current, tapVars, hostVars
<1>2. CASE Wake(s)
  BY <1>1, <1>2 DEF Wake
<1>3. CASE LockAction(s)
  BY <1>1, <1>3 DEF LockAction
<1>4. CASE ClearAction(s)
  BY <1>1, <1>4 DEF ClearAction
<1>5. CASE LockTap(s)
  BY <1>1, <1>5 DEF LockTap, StillDrops
<1>6. CASE DropTap(s)
  BY <1>1, <1>6 DEF DropTap
<1> QED
  BY <1>2, <1>3, <1>4, <1>5, <1>6

\* Stamps only grow.
LEMMA SleepersStep ==
    ASSUME SleepersAreOld, [Next]_vars
    PROVE  SleepersAreOld'
<1>1. CASE HideSuggestionAfter
  BY <1>1 DEF HideSuggestionAfter, SleepersAreOld
<1>2. CASE Stamp
  BY <1>2 DEF Stamp, SleepersAreOld
<1>3. CASE Sleeper
  BY <1>3, SleeperActs
<1>4. CASE UNCHANGED <<generation, sleepers>>
  BY <1>4 DEF SleepersAreOld
<1>5. Store \/ Default \/ Settle \/ FinishRebind \/ RestoreKeys => UNCHANGED <<generation, sleepers>>
  BY DEF Store, Default, Settle, FinishRebind, RestoreKeys
<1>6. (\E kind \in {"Ghost", "Correction"} : ShowSuggestion(kind)) \/ HideSuggestion
         \/ (\E map \in Keymaps : Rebind(map)) => UNCHANGED <<generation, sleepers>>
  BY DEF ShowSuggestion, HideSuggestion, Rebind, tapVars
<1>7. Teardown \/ (\E role \in Roles : KeyPress(role)) \/ UNCHANGED vars
         => UNCHANGED <<generation, sleepers>>
  BY DEF Teardown, KeyPress, vars, tapVars
<1> QED
  BY <1>1, <1>2, <1>3, <1>4, <1>5, <1>6, <1>7 DEF Next, Host

----------------------------------------------------------------------------
(* The arms. *)

\* An arm that is dropped is retired later.
LEMMA DroppedRetires ==
    ASSUME ArmsAreFresh
    PROVE  Retired \subseteq 0 .. lastArm
BY DEF ArmsAreFresh, Retired

\* What a step may do to the arms.
LEMMA ArmsMove ==
    ASSUME [Next]_vars, CallsAreSteps, SleepersAreOld
    PROVE  \/ UNCHANGED <<tap, lastArm, retiring>>
           \/ \E kind \in {"Consumer", "CorrectionConsumer"} :
                 Installs(kind) /\ retiring' \in {retiring, Retired} /\ (tap # None => retiring' = Retired)
           \/ tap' = None /\ lastArm' \in {lastArm, lastArm + 1} /\ retiring' \in {retiring, Retired}
           \/ UNCHANGED <<tap, lastArm>> /\ retiring' \subseteq retiring
<1>1. CASE Settle
  BY <1>1 DEF Settle, FailsClean, KindFor
<1>2. CASE FinishRebind
  BY <1>2 DEF FinishRebind, Rearmed, RearmFails, FailsClean, KindFor
<1>3. CASE RestoreKeys
  BY <1>3 DEF RestoreKeys, Rearmed, KindFor
<1>4. CASE Sleeper
  BY <1>4, SleeperActs
<1>5. CASE Teardown
  BY <1>5 DEF Teardown
<1>6. Store \/ Default \/ Stamp => UNCHANGED <<tap, lastArm, retiring>>
  BY DEF Store, Default, Stamp
<1>7. (\E kind \in {"Ghost", "Correction"} : ShowSuggestion(kind)) \/ HideSuggestion
         \/ HideSuggestionAfter \/ (\E map \in Keymaps : Rebind(map))
         => UNCHANGED <<tap, lastArm, retiring>>
  BY DEF ShowSuggestion, HideSuggestion, HideSuggestionAfter, Rebind, tapVars
<1>8. (\E role \in Roles : KeyPress(role)) \/ UNCHANGED vars
         => UNCHANGED <<tap, lastArm, retiring>>
  BY DEF KeyPress, vars, tapVars
<1> QED
  BY <1>1, <1>2, <1>3, <1>4, <1>5, <1>6, <1>7, <1>8 DEF Next, Host

\* A new arm is a fresh one.
LEMMA ArmsStep ==
    ASSUME ArmsAreFresh, [Next]_vars, CallsAreSteps, SleepersAreOld
    PROVE  ArmsAreFresh'
<1>1. \A kind : Installs(kind) => lastArm' = lastArm + 1 /\ tap' = lastArm + 1
  BY DEF Installs
<1> QED
  BY <1>1, ArmsMove, DroppedRetires DEF ArmsAreFresh, Retired

\* Installing registers the keys of the new arm, from the keymap in force.
LEMMA InstalledIsOwn ==
    ASSUME CallsAreSteps, ArmsAreFresh, NEW kind \in {"Consumer", "CorrectionConsumer"}, Installs(kind)
    PROVE  registry' # None /\ registry'.arm = tap' /\ registry'.map = keymap /\ tap' # None
<1>1. registry' \in [arm : Nat, kind : {"Consumer", "CorrectionConsumer"}, map : Keymaps]
  BY DEF Installs, CallsAreSteps, ArmsAreFresh
<1>2. tap' \in Nat
  BY DEF Installs, ArmsAreFresh
<1> QED
  BY <1>1, <1>2 DEF Installs

\* The tap's own keys stay registered.
LEMMA OwnKeysStep ==
    ASSUME CallsAreSteps, SleepersAreOld, ArmsAreFresh, OwnKeys, [Next]_vars
    PROVE  OwnKeys'
<1> SUFFICES ASSUME tap' # None
             PROVE  OwnKeys'
  BY DEF OwnKeys
<1>1. ASSUME UNCHANGED <<tap, registry, keymap>>, ~NextIs("Rearm")
      PROVE  OwnKeys'
  BY <1>1 DEF OwnKeys
<1>2. ASSUME NEW kind \in {"Consumer", "CorrectionConsumer"}, Installs(kind), UNCHANGED keymap
      PROVE  OwnKeys'
  BY <1>2, InstalledIsOwn DEF OwnKeys
<1>3. CASE Store \/ Default \/ Stamp
  BY <1>1, <1>3 DEF Store, Default, Stamp, NextIs, hostVars
<1>4. CASE Settle
  <2>1. KindFor(Head(todo).arg) \in {"Consumer", "CorrectionConsumer"}
    BY DEF KindFor
  <2>2. UNCHANGED keymap /\ ~NextIs("Rearm")
    BY <1>4 DEF Settle, NextIs
  <2>3. Installs(KindFor(Head(todo).arg)) \/ UNCHANGED <<tap, registry>>
    BY <1>4 DEF Settle, FailsClean
  <2> QED
    BY <1>1, <1>2, <2>1, <2>2, <2>3
<1>5. CASE FinishRebind \/ RestoreKeys
  <2>1. KindFor(action) \in {"Consumer", "CorrectionConsumer"}
    BY DEF KindFor
  <2>2. Installs(KindFor(action)) /\ UNCHANGED keymap
    BY <1>5 DEF FinishRebind, RestoreKeys, Rearmed, RearmFails, FailsClean
  <2> QED
    BY <1>2, <2>1, <2>2
<1>6. CASE Sleeper
  <2>1. UNCHANGED <<tap, registry, keymap, todo>>
    BY <1>6, SleeperActs DEF hostVars
  <2> QED
    BY <2>1 DEF OwnKeys, NextIs
<1>7. CASE Teardown
  BY <1>7 DEF Teardown, RetiresOwn, OwnKeys, ArmsAreFresh, NextIs, hostVars
<1>8. ASSUME NEW map \in Keymaps, Rebind(map)
      PROVE  OwnKeys'
  <2>1. NextIs("Rearm")' /\ UNCHANGED <<tap, registry>>
    BY <1>8 DEF Rebind, NextIs, Step, tapVars
  <2> QED
    BY <2>1 DEF OwnKeys
<1>9. (\E kind \in {"Ghost", "Correction"} : ShowSuggestion(kind)) \/ HideSuggestion
         \/ HideSuggestionAfter
         => UNCHANGED <<tap, registry, keymap>> /\ ~NextIs("Rearm")
  BY DEF ShowSuggestion, HideSuggestion, HideSuggestionAfter, tapVars, NextIs, Idle
<1>10. CASE (\E role \in Roles : KeyPress(role)) \/ UNCHANGED vars
  <2>1. UNCHANGED <<tap, registry, keymap, todo>>
    BY <1>10 DEF KeyPress, vars, tapVars, hostVars
  <2> QED
    BY <2>1 DEF OwnKeys, NextIs
<1> QED
  BY <1>1, <1>3, <1>4, <1>5, <1>6, <1>7, <1>8, <1>9, <1>10 DEF Next, Host

----------------------------------------------------------------------------
(* What is on screen. *)

\* No delayed hide can enter a critical section any more.
Stale == \A s \in sleepers : ~Current(s)

\* Between two settings of the action, a late hide may have cleared it.
Asked == action \in {None, ActionOf(shown)}

\* From the default on, none can.
Kept ==
    /\ action # None /\ (shown = "Ghost" => action = "Full")
    /\ Stale /\ ~Held("action")

Rebinding == todo # <<>> /\ Head(todo).op = "Rearm" /\ Tail(todo) = <<>>

\* The steps of a show that are left.
Asking ==
    todo = <<Step("Store", ActionOf(shown)), Step("Settle", ActionOf(shown)),
             Step("Stamp", None), Step("Default", None)>>

Settling ==
    /\ Asked
    /\ todo = <<Step("Settle", ActionOf(shown)), Step("Stamp", None), Step("Default", None)>>

Stamping == Asked /\ todo = <<Step("Stamp", None), Step("Default", None)>>

Defaulting == Asked /\ Stale /\ todo = <<Step("Default", None)>>

Again == Kept /\ todo = <<Step("Store", action), Step("Settle", action)>>

SettlingAgain == Kept /\ todo = <<Step("Settle", action)>>

Armed == Kept /\ ~Held("tap") /\ tap # None /\ (Idle \/ Rebinding)

\* A rebind that failed has dropped the tap.
Disarmed == todo = <<Step("Restore", None)>> \/ (restored /\ (Idle \/ Rebinding))

\* How far the keys of the suggestion on screen have got.
ShowProceeds ==
    shown # None =>
        Asking \/ Settling \/ Stamping \/ Defaulting \/ Again \/ SettlingAgain \/ Armed \/ Disarmed

\* The steps of a show, one at a time.
LEMMA Tails ==
    ASSUME NEW a, NEW b, NEW c, NEW d
    PROVE  /\ Head(<<a, b, c, d>>) = a /\ Tail(<<a, b, c, d>>) = <<b, c, d>>
           /\ Head(<<a, b, c>>) = a /\ Tail(<<a, b, c>>) = <<b, c>>
           /\ Head(<<a, b>>) = a /\ Tail(<<a, b>>) = <<b>>
           /\ Head(<<a>>) = a /\ Tail(<<a>>) = <<>> /\ <<a>> # <<>>
OBVIOUS

\* The step under way tells how far the show has got.
LEMMA StepTells ==
    ASSUME ShowProceeds, shown # None
    PROVE  /\ NextIs("Store") => Asking \/ Again
           /\ NextIs("Settle") => Settling \/ SettlingAgain
           /\ NextIs("Stamp") => Stamping
           /\ NextIs("Default") => Defaulting
           /\ NextIs("Rearm") => Armed \/ (restored /\ Rebinding)
           /\ Idle => Armed \/ restored
<1>1. Asking => NextIs("Store") /\ todo # <<>>
  BY Tails DEF Asking, NextIs, Step
<1>2. Settling => NextIs("Settle")
  BY Tails DEF Settling, NextIs, Step
<1>3. Stamping => NextIs("Stamp")
  BY Tails DEF Stamping, NextIs, Step
<1>4. Defaulting => NextIs("Default")
  BY Tails DEF Defaulting, NextIs, Step
<1>5. Again => NextIs("Store")
  BY Tails DEF Again, NextIs, Step
<1>6. SettlingAgain => NextIs("Settle")
  BY Tails DEF SettlingAgain, NextIs, Step
<1>7. todo = <<Step("Restore", None)>> => NextIs("Restore")
  BY Tails DEF NextIs, Step
<1>8. Rebinding => NextIs("Rearm")
  BY DEF Rebinding, NextIs
<1> QED
  BY <1>1, <1>2, <1>3, <1>4, <1>5, <1>6, <1>7, <1>8
     DEF ShowProceeds, Armed, Disarmed, NextIs, Idle

\* A step of a sleeper may clear what a show has asked for, but no more than that.
LEMMA SleeperKeepsShow ==
    ASSUME SleepersAreOld, ShowProceeds, Sleeper
    PROVE  ShowProceeds'
<1> SUFFICES ASSUME shown' # None
             PROVE  ShowProceeds'
  BY DEF ShowProceeds
<1>1. UNCHANGED <<todo, shown, restored>> /\ shown # None
  BY SleeperActs DEF hostVars
<1>2. Asked => Asked'
  BY <1>1, SleeperActs DEF Asked
<1>3. Stale => Stale'
  BY SleeperActs DEF Stale, Current
<1>4. Kept => Kept' /\ UNCHANGED action
  <2> SUFFICES ASSUME Kept
               PROVE  Kept' /\ UNCHANGED action
    OBVIOUS
  <2>1. UNCHANGED action /\ ~Held("action")'
    BY SleeperActs DEF Kept, Stale
  <2> QED
    BY <1>1, <1>3, <2>1 DEF Kept
<1>5. Armed => Armed'
  <2> SUFFICES ASSUME Armed
               PROVE  Armed'
    OBVIOUS
  <2>1. UNCHANGED tap /\ ~Held("tap")'
    BY SleeperActs DEF Armed, Kept, Stale
  <2> QED
    BY <1>1, <1>4, <2>1 DEF Armed, Idle, Rebinding
<1> QED
  BY <1>1, <1>2, <1>3, <1>4, <1>5
     DEF ShowProceeds, Asking, Settling, Stamping, Defaulting, Again, SettlingAgain, Disarmed,
         Idle, Rebinding

\* Every step keeps the show's progress.
LEMMA ShowStep ==
    ASSUME CallsAreSteps, SleepersAreOld, ArmsAreFresh, ShowProceeds, [Next]_vars
    PROVE  ShowProceeds'
<1> SUFFICES ASSUME shown' # None
             PROVE  ShowProceeds'
  BY DEF ShowProceeds
<1> USE DEF hostVars, tapVars
<1>1. ASSUME NEW kind \in {"Ghost", "Correction"}, ShowSuggestion(kind)
      PROVE  ShowProceeds'
  <2>1. Asking'
    BY <1>1, CallShapes DEF ShowSuggestion, Asking
  <2> QED
    BY <2>1 DEF ShowProceeds
<1>2. CASE HideSuggestion \/ HideSuggestionAfter
  BY <1>2 DEF HideSuggestion, HideSuggestionAfter
<1>3. ASSUME NEW map \in Keymaps, Rebind(map)
      PROVE  ShowProceeds'
  <2>1. Rebinding'
    BY <1>3, Tails DEF Rebind, Rebinding, Step
  <2>2. Armed \/ restored
    BY <1>3, StepTells DEF Rebind
  <2>3. UNCHANGED <<action, shown, tap, generation, sleepers, restored>>
    BY <1>3 DEF Rebind
  <2> QED
    BY <2>1, <2>2, <2>3 DEF ShowProceeds, Armed, Kept, Stale, Current, Held, Disarmed
<1>4. CASE Store
  <2>1. /\ UNCHANGED <<tap, generation, sleepers, shown, restored>>
        /\ action' = Head(todo).arg /\ todo' = Tail(todo)
    BY <1>4 DEF Store
  <2>2. CASE Asking
    <3>1. Settling'
      BY <2>1, <2>2, Tails DEF Asking, Settling, Asked, Step
    <3> QED
      BY <3>1 DEF ShowProceeds
  <2>3. CASE Again
    <3>1. action' = action /\ todo' = <<Step("Settle", action)>>
      BY <2>1, <2>3, Tails DEF Again, Step
    <3> QED
      BY <2>1, <2>3, <3>1 DEF ShowProceeds, Again, SettlingAgain, Kept, Stale, Current, Held
  <2> QED
    BY <1>4, <2>1, <2>2, <2>3, StepTells DEF Store
<1>5. CASE Default
  <2>1. /\ UNCHANGED <<tap, generation, sleepers, shown, restored>>
        /\ action' = Defaulted /\ todo' = SetAction(action') \o Tail(todo) /\ ~Held("action")
    BY <1>5 DEF Default
  <2>2. Defaulting
    BY <1>5, <2>1, StepTells DEF Default
  <2>3. Tail(todo) = <<>>
    BY <2>2, Tails DEF Defaulting
  <2>4. todo' = <<Step("Store", action'), Step("Settle", action')>>
    <3>1. \A a, b : <<a, b>> \o <<>> = <<a, b>>
      OBVIOUS
    <3>2. SetAction(action') = <<Step("Store", action'), Step("Settle", action')>>
      BY CallShapes
    <3> QED
      BY <2>1, <2>3, <3>1, <3>2, Zenon
  <2>5. action' # None /\ (shown = "Ghost" => action' = "Full")
    BY <2>1, <2>2 DEF Defaulted, Defaulting, Asked, ActionOf
  <2>6. Again'
    BY <2>1, <2>2, <2>4, <2>5 DEF Again, Kept, Stale, Current, Held, Defaulting
  <2> QED
    BY <2>6 DEF ShowProceeds
<1>6. CASE Stamp
  <2>1. /\ UNCHANGED <<action, sleepers, shown>>
        /\ generation' = generation + 1 /\ todo' = Tail(todo)
    BY <1>6 DEF Stamp
  <2>2. Stamping
    BY <1>6, <2>1, StepTells DEF Stamp
  <2>3. Stale'
    BY <2>1 DEF SleepersAreOld, Stale, Current
  <2>4. Defaulting'
    BY <2>1, <2>2, <2>3, Tails DEF Stamping, Defaulting, Asked
  <2> QED
    BY <2>4 DEF ShowProceeds
<1>7. CASE Settle
  <2>1. shown # None /\ UNCHANGED <<action, generation, sleepers, shown>> /\ todo' = Tail(todo)
        /\ ~Held("tap")
    BY <1>7 DEF Settle, Abandon
  <2>2. CASE Settling
    <3>1. Stamping'
      BY <2>1, <2>2, Tails DEF Settling, Stamping, Asked
    <3> QED
      BY <3>1 DEF ShowProceeds
  <2>3. CASE SettlingAgain
    <3>1. Head(todo).arg = action /\ todo' = <<>> /\ action # None
      BY <2>1, <2>3, Tails DEF SettlingAgain, Step, Kept
    <3>2. tap' # None
      <4>1. CASE tap = None
        <5>1. Installs(KindFor(action))
          BY <1>7, <2>1, <3>1, <4>1 DEF Settle, Abandon
        <5> QED
          BY <5>1, InstalledIsOwn DEF KindFor
      <4>2. CASE tap # None
        BY <1>7, <3>1, <4>2 DEF Settle
      <4> QED
        BY <4>1, <4>2
    <3>3. Armed'
      BY <2>1, <2>3, <3>1, <3>2 DEF SettlingAgain, Armed, Kept, Stale, Current, Held, Idle
    <3> QED
      BY <3>3 DEF ShowProceeds
  <2> QED
    BY <1>7, <2>1, <2>2, <2>3, StepTells DEF Settle
<1>8. CASE FinishRebind
  <2>1. /\ UNCHANGED <<action, generation, sleepers, shown>> /\ shown # None
        /\ Armed \/ (restored /\ Rebinding)
    BY <1>8, StepTells DEF FinishRebind
  <2>2. CASE todo' = <<Step("Restore", None)>>
    BY <2>2 DEF ShowProceeds, Disarmed
  <2>3. CASE Rearmed /\ todo' = <<>> /\ UNCHANGED restored
    <3>1. CASE restored
      BY <2>3, <3>1 DEF ShowProceeds, Disarmed, Idle
    <3>2. CASE Armed
      <4>1. tap' # None
        BY <2>3, <3>2, InstalledIsOwn DEF Rearmed, Armed, KindFor
      <4>2. Armed'
        BY <2>1, <2>3, <3>2, <4>1 DEF Armed, Kept, Stale, Current, Held, Idle
      <4> QED
        BY <4>2 DEF ShowProceeds
    <3> QED
      BY <2>1, <3>1, <3>2
  <2> QED
    BY <1>8, <2>2, <2>3 DEF FinishRebind
<1>9. CASE RestoreKeys
  BY <1>9 DEF RestoreKeys, ShowProceeds, Disarmed, Idle
<1>10. CASE Sleeper
  BY <1>10, SleeperKeepsShow
<1>11. CASE UNCHANGED <<action, tap, generation, sleepers, shown, restored, todo>>
  BY <1>11
     DEF ShowProceeds, Asking, Settling, Stamping, Defaulting, Again, SettlingAgain, Armed,
         Disarmed, Idle, Rebinding, Asked, Kept, Stale, Current, Held
<1>12. Teardown \/ (\E role \in Roles : KeyPress(role)) \/ UNCHANGED vars
          => UNCHANGED <<action, tap, generation, sleepers, shown, restored, todo>>
  BY DEF Teardown, KeyPress, vars
<1> QED
  BY <1>1, <1>2, <1>3, <1>4, <1>5, <1>6, <1>7, <1>8, <1>9, <1>10, <1>11, <1>12 DEF Next, Host

----------------------------------------------------------------------------
(* The theorem. *)

Inv == CallsAreSteps /\ SleepersAreOld /\ ArmsAreFresh /\ OwnKeys /\ ShowProceeds

\* Every state.
LEMMA Invariance == Spec => []Inv
<1>1. Init => Inv
  BY DEF Init, Inv, CallsAreSteps, SleepersAreOld, ArmsAreFresh, OwnKeys, ShowProceeds
<1>2. Inv /\ [Next]_vars => Inv'
  BY CallsStep, SleepersStep, ArmsStep, OwnKeysStep, ShowStep DEF Inv
<1> QED
  BY <1>1, <1>2, PTL DEF Spec

\* A suggestion on screen has the keys of the tap's own arm registered from the
\* keymap in force, whatever delayed hides, late teardowns and rebinds do around it
\* (deactivate_if_generation, set_accept_action, retire, rearm_consumer_tap).
THEOREM ShownKeepsItsKeys == Spec => []NewestStaysArmed
<1>1. Inv => NewestStaysArmed
  <2> SUFFICES ASSUME Inv, Idle, shown # None, ~restored
               PROVE  /\ action # None /\ tap # None
                      /\ registry # None /\ registry.arm = tap /\ registry.map = keymap
                      /\ shown = "Ghost" => action = "Full"
    BY DEF NewestStaysArmed
  <2>1. Armed
    BY StepTells DEF Inv
  <2> QED
    BY <2>1 DEF Armed, Kept, Inv, OwnKeys, NextIs, Idle
<1> QED
  BY <1>1, Invariance, PTL

=============================================================================
