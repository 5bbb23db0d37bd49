----------------------------- MODULE X11Tap_proofs -----------------------------
(***************************************************************************)
(* Theorems about X11Tap: until the tap is dropped, keys are grabbed for   *)
(* the suggestion on screen and for nothing else; and a key the engine has *)
(* heard of was not replayed to the application as well.                   *)
(***************************************************************************)
EXTENDS X11Tap, SequenceTheorems, TLAPS

USE X11Assumption

----------------------------------------------------------------------------
(* Types. *)

Plans == [map : Maps, layout : Layouts]
Actions == {"Full", "Correction"}
Fates == {"frozen", "eaten", "replayed", "thawed", "mistaken"}

Event == [type : {"key", "mapping", "wake"}, plan : Plans \cup {None},
          role : Roles \cup {None}, fate : Fates \cup {None}]

\* What a call of the host may be made of.
Steps ==
    [op : {"Set"}, arg : Actions \cup {None}]
    \cup [op : {"Read"}, arg : BOOLEAN]
    \cup [op : {"Thaw", "Ungrab", "Forget"}, arg : {None}]
    \cup [op : {"Build", "BuildOld"}, arg : Maps]
    \cup [op : {"Install", "InstallOld"}, arg : [new : Plans \cup {None}, old : Maps]]

CallsAreSteps == todo \in Seq(Steps) /\ keymap \in Maps /\ action \in Actions \cup {None}

PlansAreKnown ==
    /\ layout \in Layouts /\ plan \in Plans \cup {None} /\ grabs \subseteq Plans
    /\ event = [at |-> event.at, consumes |-> event.consumes, new |-> event.new]
    /\ event.new \in Plans \cup {None}

EventsAreKnown == events \in Seq(Event) /\ controls \in Seq(Fates \cup {None})

\* The event thread holds the key it answers.
HandHasKey == event.at \in {"stored", "decided", "allowed"} => events # <<>>

\* A record of a plan is one.
LEMMA BuiltIsPlan ==
    ASSUME keymap \in Maps, layout \in Layouts
    PROVE  Built \subseteq Plans \cup {None}
BY DEF Built, Plans

\* Each call's steps are steps.
LEMMA StepsAreSteps ==
    /\ \A a \in Actions \cup {None} : Step("Set", a) \in Steps
    /\ Step("Read", TRUE) \in Steps /\ Step("Read", FALSE) \in Steps
    /\ Step("Thaw", None) \in Steps /\ Step("Ungrab", None) \in Steps
    /\ Step("Forget", None) \in Steps
    /\ \A m \in Maps : Step("Build", m) \in Steps /\ Step("BuildOld", m) \in Steps
    /\ \A new \in Plans \cup {None}, old \in Maps :
          /\ Step("Install", [new |-> new, old |-> old]) \in Steps
          /\ Step("InstallOld", [new |-> new, old |-> old]) \in Steps
    /\ \A op, arg : Step(op, arg).op = op /\ Step(op, arg).arg = arg
BY DEF Step, Steps

\* One step and another.
LEMMA OneAndOne ==
    ASSUME NEW a, NEW b
    PROVE  <<a>> \o <<b>> = <<a, b>>
<1> DEFINE S == {a, b}
           s == <<a>> \o <<b>>
           t == <<a, b>>
<1>1. <<a>> \in Seq(S) /\ <<b>> \in Seq(S) /\ s \in Seq(S) /\ t \in Seq(S)
  OBVIOUS
<1>2. Len(<<a>>) = 1 /\ Len(<<b>>) = 1
  OBVIOUS
<1>3. Len(s) = 2 /\ Len(t) = 2
  BY <1>1, <1>2
<1>4. \A i \in 1 .. 2 : s[i] = t[i]
  BY <1>1, <1>2, <1>3
<1> HIDE DEF s, t, S
<1>5. s = t
  BY <1>1, <1>3, <1>4, SeqEqual, SMT
<1> QED
  BY <1>5 DEF s, t

\* The calls, written out.
LEMMA CallShapes ==
    /\ \A a : SetAction(a) = <<Step("Set", a)>>
    /\ \A a : ShowTap(a) = <<Step("Set", a), Step("Read", TRUE)>>
    /\ HideTap = <<Step("Read", FALSE), Step("Set", None)>>
BY OneAndOne DEF SetAction, SetVisible, ShowTap, HideTap

\* Tuples of members.
LEMMA TuplesOf ==
    ASSUME NEW S, NEW a \in S, NEW b \in S, NEW c \in S
    PROVE  <<a>> \in Seq(S) /\ <<a, b>> \in Seq(S) /\ <<a, b, c>> \in Seq(S)
OBVIOUS

\* The step under way is one of them.
LEMMA HeadIsStep ==
    ASSUME CallsAreSteps, todo # <<>>
    PROVE  /\ Tail(todo) \in Seq(Steps)
           /\ Head(todo).op = "Set" => Head(todo).arg \in Actions \cup {None}
           /\ Head(todo).op \in {"Build", "BuildOld"} => Head(todo).arg \in Maps
           /\ Head(todo).op \in {"Install", "InstallOld"} =>
                 Head(todo).arg.new \in Plans \cup {None} /\ Head(todo).arg.old \in Maps
<1>1. Head(todo) \in Steps /\ Tail(todo) \in Seq(Steps)
  BY DEF CallsAreSteps
<1> QED
  BY <1>1 DEF Steps

\* What a step of another thread leaves alone and what it may do to the action.
LEMMA OthersLeaveCalls ==
    ASSUME EventThread \/ Watchdog \/ Dispatch \/ PassTime \/ Press \/ ChangeLayout \/ Disconnect
    PROVE  UNCHANGED <<todo, keymap, shown, stopping>> /\ action' \in {action, None}
<1> USE DEF tapVars, hostVars, KeepHost, KeepEvent, ClearArmed
<1>1. CASE EventThread
  BY <1>1 DEF EventThread, TakeEvent, Decide, AllowKey, SendControl, InstallLayout, Leave,
              Succeeds, PublishPlan, PublishEmpty, DisarmPlan
<1>2. CASE Watchdog
  BY <1>2 DEF Watchdog, Tick, ThawFrozen, ForgetFrozen, DisarmFrozen, Disarm, EndWatch, LeavesGrab
<1>3. CASE Dispatch \/ PassTime
  BY <1>3 DEF Dispatch, PassTime
<1>4. CASE Press \/ ChangeLayout \/ Disconnect
  BY <1>4 DEF Press, ChangeLayout, Disconnect
<1> QED
  BY <1>1, <1>2, <1>3, <1>4

\* Every step leaves steps to do.
LEMMA CallsStep ==
    ASSUME CallsAreSteps, PlansAreKnown, [Next]_vars
    PROVE  CallsAreSteps'
<1> USE DEF CallsAreSteps, tapVars, hostVars
<1>1. ASSUME NEW kind \in {"Ghost", "Correction"}, ShowSuggestion(kind)
      PROVE  CallsAreSteps'
  <2>1. ShowTap(ActionOf(kind)) \in Seq(Steps)
    <3>1. ActionOf(kind) \in Actions
      BY DEF ActionOf, Actions
    <3>2. Step("Set", ActionOf(kind)) \in Steps /\ Step("Read", TRUE) \in Steps
      BY <3>1, StepsAreSteps
    <3>3. <<Step("Set", ActionOf(kind)), Step("Read", TRUE)>> \in Seq(Steps)
      BY <3>2, TuplesOf
    <3> QED
      BY <3>3, CallShapes, Zenon
  <2> QED
    BY <1>1, <2>1 DEF ShowSuggestion, Begins
<1>2. HideTap \in Seq(Steps)
  <2>1. Step("Read", FALSE) \in Steps /\ Step("Set", None) \in Steps
    BY StepsAreSteps
  <2>2. <<Step("Read", FALSE), Step("Set", None)>> \in Seq(Steps)
    BY <2>1, TuplesOf
  <2> QED
    BY <2>2, CallShapes, Zenon
<1>3. CASE HideSuggestion \/ HideSuggestionAfter
  <2>1. todo' \in {HideTap, <<>>} /\ UNCHANGED <<keymap, action>>
    BY <1>3 DEF HideSuggestion, HideSuggestionAfter, Begins
  <2>2. <<>> \in Seq(Steps)
    OBVIOUS
  <2> QED
    BY <1>2, <2>1, <2>2
<1>4. ASSUME NEW map \in Maps, Rebind(map)
      PROVE  CallsAreSteps'
  <2>1. <<Step("Build", keymap)>> \in Seq(Steps)
    BY StepsAreSteps, TuplesOf
  <2> QED
    BY <1>4, <2>1 DEF Rebind, Begins
<1>5. CASE DropTap
  <2>1. <<Step("Thaw", None), Step("Ungrab", None), Step("Forget", None)>> \in Seq(Steps)
    BY StepsAreSteps, TuplesOf
  <2> QED
    BY <1>5, <2>1 DEF DropTap, Begins
<1>6. CASE Set
  <2>1. Tail(todo) \in Seq(Steps) /\ Head(todo).arg \in Actions \cup {None}
    BY <1>6, HeadIsStep DEF Set, NextIs
  <2>2. todo' \in {Tail(todo), HideTap} /\ UNCHANGED keymap
    BY <1>6 DEF Set
  <2>3. action' \in {None, Head(todo).arg}
    BY <1>6 DEF Set, Grabs, GrabFails, LeavesGrab, ClearArmed
  <2> QED
    BY <1>2, <2>1, <2>2, <2>3
<1>7. CASE ReadAction
  <2>1. Tail(todo) \in Seq(Steps) /\ UNCHANGED <<action, keymap>>
    BY <1>7, HeadIsStep DEF ReadAction, NextIs
  <2> DEFINE a == IF ~Head(todo).arg THEN None ELSE IF action = None THEN "Full" ELSE action
  <2>2. a \in Actions \cup {None}
    BY DEF Actions
  <2>3. SetAction(a) \in Seq(Steps)
    <3> HIDE DEF a
    <3>1. Step("Set", a) \in Steps
      BY <2>2, StepsAreSteps
    <3>2. <<Step("Set", a)>> \in Seq(Steps)
      BY <3>1, TuplesOf
    <3> QED
      BY <3>2, CallShapes, Zenon
  <2>4. todo' = SetAction(a) \o Tail(todo)
    BY <1>7 DEF ReadAction
  <2> HIDE DEF a
  <2> QED
    BY <2>1, <2>3, <2>4
<1>8. CASE BuildPlan
  <2>1. Head(todo).arg \in Maps
    BY <1>8, HeadIsStep DEF BuildPlan, NextIs
  <2>2. PICK new \in Plans \cup {None} :
           todo' \in {<<Step("Install", [new |-> new, old |-> Head(todo).arg])>>,
                      <<Step("InstallOld", [new |-> new, old |-> Head(todo).arg])>>}
    BY <1>8, BuiltIsPlan DEF BuildPlan, PlansAreKnown
  <2>3. todo' \in Seq(Steps)
    <3> DEFINE built == [new |-> new, old |-> Head(todo).arg]
    <3>1. Step("Install", built) \in Steps /\ Step("InstallOld", built) \in Steps
      BY <2>1, StepsAreSteps
    <3> HIDE DEF built
    <3>2. <<Step("Install", built)>> \in Seq(Steps) /\ <<Step("InstallOld", built)>> \in Seq(Steps)
      BY <3>1, TuplesOf
    <3> QED
      BY <2>2, <3>2 DEF built
  <2> QED
    BY <1>8, <2>3 DEF BuildPlan
<1>9. CASE InstallPlan
  <2>1. Head(todo).arg.old \in Maps
    BY <1>9, HeadIsStep DEF InstallPlan, NextIs
  <2>2. /\ keymap' \in {keymap, Head(todo).arg.old}
        /\ todo' \in {<<>>, <<Step("BuildOld", Head(todo).arg.old)>>}
    BY <1>9 DEF InstallPlan
  <2>3. action' \in {action, None}
    BY <1>9 DEF InstallPlan, Succeeds, PublishPlan, PublishEmpty, RestorePlan, ClearArmed
  <2>4. <<Step("BuildOld", Head(todo).arg.old)>> \in Seq(Steps)
    BY <2>1, StepsAreSteps, TuplesOf
  <2>5. <<>> \in Seq(Steps)
    OBVIOUS
  <2> QED
    BY <2>1, <2>2, <2>3, <2>4, <2>5
<1>10. CASE Dropping
  <2>1. todo' = Tail(todo) /\ todo # <<>> /\ UNCHANGED <<keymap, action>>
    BY <1>10 DEF Dropping, NextIs
  <2> QED
    BY <2>1, HeadIsStep
<1>11. CASE EventThread \/ Watchdog \/ Dispatch \/ PassTime \/ Press \/ ChangeLayout \/ Disconnect
  BY <1>11, OthersLeaveCalls
<1>12. CASE UNCHANGED vars
  BY <1>12 DEF vars
<1> QED
  BY <1>1, <1>3, <1>4, <1>5, <1>6, <1>7, <1>8, <1>9, <1>10, <1>11, <1>12 DEF Next, Host

\* The steps that touch neither the plan nor the server's grabs nor the event thread.
LEMMA PlansStand ==
    ASSUME \/ \E kind \in {"Ghost", "Correction"} : ShowSuggestion(kind)
           \/ HideSuggestion \/ HideSuggestionAfter \/ (\E map \in Maps : Rebind(map)) \/ DropTap
           \/ ReadAction \/ BuildPlan \/ Dispatch \/ PassTime \/ Press
           \/ UNCHANGED vars
    PROVE  UNCHANGED <<layout, plan, grabs, event>>
<1> USE DEF tapVars, serverVars
<1>1. CASE \/ \E kind \in {"Ghost", "Correction"} : ShowSuggestion(kind)
           \/ HideSuggestion \/ HideSuggestionAfter \/ (\E map \in Maps : Rebind(map)) \/ DropTap
  BY <1>1 DEF ShowSuggestion, HideSuggestion, HideSuggestionAfter, Rebind, DropTap, Begins
<1>2. CASE ReadAction \/ BuildPlan \/ Dispatch \/ PassTime \/ Press \/ UNCHANGED vars
  BY <1>2 DEF ReadAction, BuildPlan, Dispatch, PassTime, Press, vars
<1> QED
  BY <1>1, <1>2

\* What the watchdog does to the plan: at most it takes its keys back.
LEMMA WatchdogKeepsPlan ==
    ASSUME Watchdog
    PROVE  UNCHANGED <<layout, plan, event>> /\ grabs' \in {grabs, Without(plan)}
BY DEF Watchdog, Tick, ThawFrozen, ForgetFrozen, DisarmFrozen, Disarm, EndWatch, LeavesGrab,
       KeepEvent, tapVars

\* Plans are built from chords and layouts there are.
LEMMA PlansStep ==
    ASSUME CallsAreSteps, PlansAreKnown, [Next]_vars
    PROVE  PlansAreKnown'
<1> USE DEF PlansAreKnown, tapVars, serverVars, Without, With
<1>1. CASE UNCHANGED <<layout, plan, grabs, event>>
  BY <1>1
<1>2. CASE Watchdog
  BY <1>2, WatchdogKeepsPlan
<1>3. CASE Set
  BY <1>3 DEF Set, Grabs, GrabFails, LeavesGrab
<1>4. CASE InstallPlan
  <2>1. Head(todo).arg.new \in Plans \cup {None}
    BY <1>4, HeadIsStep DEF InstallPlan, NextIs
  <2> QED
    BY <1>4, <2>1 DEF InstallPlan, Succeeds, PublishPlan, PublishEmpty, RestorePlan
<1>5. CASE Dropping
  BY <1>5 DEF Dropping
<1>6. CASE TakeEvent
  <2>1. Built \subseteq Plans \cup {None}
    BY BuiltIsPlan DEF CallsAreSteps
  <2>2. UNCHANGED <<layout, plan, grabs>>
    BY <1>6 DEF TakeEvent, KeepHost
  <2>3. \/ event' = [event EXCEPT !.at = "stored"]
        \/ \E new \in Built : event' = [event EXCEPT !.at = "install", !.new = new]
        \/ Done
    BY <1>6 DEF TakeEvent
  <2>4. CASE event' = [event EXCEPT !.at = "stored"]
    BY <2>2, <2>4
  <2>5. ASSUME NEW new \in Built, event' = [event EXCEPT !.at = "install", !.new = new]
        PROVE  PlansAreKnown'
    <3>1. event'.at = "install" /\ event'.new = new /\ event'.consumes = event.consumes
      BY <2>5
    <3>2. event' = [at |-> "install", consumes |-> event.consumes, new |-> new]
      BY <2>5
    <3> QED
      BY <2>1, <2>2, <3>1, <3>2
  <2>6. CASE Done
    BY <2>2, <2>6 DEF Done
  <2> QED
    BY <2>3, <2>4, <2>5, <2>6
<1>7. CASE Decide \/ AllowKey
  BY <1>7 DEF Decide, AllowKey, KeepHost
<1>8. CASE SendControl
  BY <1>8 DEF SendControl, Done, KeepHost
<1>9. CASE InstallLayout
  BY <1>9 DEF InstallLayout, Done, KeepHost, Succeeds, PublishPlan, PublishEmpty, DisarmPlan
<1>10. CASE Leave
  BY <1>10 DEF Leave, KeepHost
<1>11. CASE ChangeLayout \/ Disconnect
  BY <1>11 DEF ChangeLayout, Disconnect
<1> QED
  BY <1>1, <1>2, <1>3, <1>4, <1>5, <1>6, <1>7, <1>8, <1>9, <1>10, <1>11, PlansStand
     DEF Next, Host, EventThread

----------------------------------------------------------------------------
(* The keys. *)

\* At most one key is frozen.
OneFrozen ==
    \A i, j \in DOMAIN events :
        events[i].fate = "frozen" /\ events[j].fate = "frozen" => i = j

\* Until the tap is dropped, a replayed key is the one the event thread has just let
\* go by.
Replays ==
    \A i \in DOMAIN events :
        events[i].fate = "replayed" => i = 1 /\ event.at = "allowed" /\ ~event.consumes

\* No such key is on its way to the engine.
SentEaten == \A i \in DOMAIN controls : controls[i] # "replayed"

\* Only the drop of the tap ends the event thread, and the calls of a drop come last.
Ending ==
    /\ event.at \notin {"thaw", "ungrab", "gone"}
    /\ \A i \in DOMAIN todo : todo[i].op \notin {"Thaw", "Ungrab", "Forget"}

KeysInv == ~stopping => Replays /\ SentEaten

\* An answer is given to the key that is frozen.
LEMMA Allowed ==
    ASSUME EventsAreKnown, OneFrozen, NEW fate \in Fates
    PROVE  /\ Allow(fate) \in Seq(Event) /\ Len(Allow(fate)) = Len(events)
           /\ DOMAIN Allow(fate) = DOMAIN events
           /\ \A i \in DOMAIN events :
                 Allow(fate)[i].fate = IF events[i].fate = "frozen" THEN fate ELSE events[i].fate
<1> DEFINE n == Len(events)
           new(i) == IF events[i].fate = "frozen" THEN [events[i] EXCEPT !.fate = fate] ELSE events[i]
<1>1. n \in Nat /\ DOMAIN events = 1 .. n /\ \A i \in 1 .. n : events[i] \in Event
  BY DEF EventsAreKnown
<1>2. ASSUME NEW i \in 1 .. n
      PROVE  /\ new(i) \in Event
             /\ new(i).fate = IF events[i].fate = "frozen" THEN fate ELSE events[i].fate
  <2>1. events[i] \in Event
    BY <1>1
  <2> QED
    BY <2>1 DEF Event
<1>3. Allow(fate) = [i \in 1 .. n |-> new(i)]
  BY <1>1 DEF Allow
<1> HIDE DEF new, n
<1>4. Allow(fate) \in [1 .. n -> Event] /\ DOMAIN Allow(fate) = 1 .. n
  BY <1>2, <1>3
<1>5. Allow(fate) \in Seq(Event) /\ Len(Allow(fate)) = n
  BY <1>1, <1>4
<1> QED
  BY <1>1, <1>2, <1>3, <1>4, <1>5 DEF n

\* What the host's steps and the others leave alone.
LEMMA EventsStand ==
    ASSUME \/ \E kind \in {"Ghost", "Correction"} : ShowSuggestion(kind)
           \/ HideSuggestion \/ HideSuggestionAfter \/ (\E map \in Maps : Rebind(map))
           \/ Set \/ ReadAction \/ BuildPlan \/ InstallPlan \/ PassTime
           \/ UNCHANGED vars
    PROVE  UNCHANGED <<events, event, controls, heard, stopping>>
<1> USE DEF tapVars, serverVars, history
<1>1. CASE \/ \E kind \in {"Ghost", "Correction"} : ShowSuggestion(kind)
           \/ HideSuggestion \/ HideSuggestionAfter \/ (\E map \in Maps : Rebind(map))
  BY <1>1 DEF ShowSuggestion, HideSuggestion, HideSuggestionAfter, Rebind, Begins
<1>2. CASE Set \/ ReadAction \/ BuildPlan \/ InstallPlan \/ PassTime \/ UNCHANGED vars
  BY <1>2 DEF Set, ReadAction, BuildPlan, InstallPlan, PassTime, vars
<1> QED
  BY <1>1, <1>2

\* A key or a signal is added at the end.
LEMMA Appended ==
    ASSUME EventsAreKnown, OneFrozen, NEW e \in Event, events' = Append(events, e),
           UNCHANGED <<event, controls, heard, stopping>>,
           e.fate = "frozen" => ~Frozen, e.fate # "replayed", HandHasKey, KeysInv
    PROVE  EventsAreKnown' /\ OneFrozen' /\ HandHasKey' /\ KeysInv'
<1> DEFINE n == Len(events)
<1>1. /\ n \in Nat /\ DOMAIN events = 1 .. n /\ DOMAIN events' = 1 .. n + 1
      /\ events'[n + 1] = e /\ \A i \in 1 .. n : events'[i] = events[i]
      /\ events' \in Seq(Event) /\ events' # <<>>
  BY DEF EventsAreKnown
<1> HIDE DEF n
<1>2. EventsAreKnown' /\ HandHasKey'
  BY <1>1 DEF EventsAreKnown, HandHasKey
<1>3. OneFrozen'
  <2> SUFFICES ASSUME NEW i \in 1 .. n + 1, NEW j \in 1 .. n + 1,
                      events'[i].fate = "frozen", events'[j].fate = "frozen"
               PROVE  i = j
    BY <1>1 DEF OneFrozen
  <2>1. CASE i \in 1 .. n /\ j \in 1 .. n
    BY <1>1, <2>1 DEF OneFrozen
  <2>2. CASE i = n + 1 \/ j = n + 1
    <3>1. e.fate = "frozen"
      BY <1>1, <2>2
    <3>2. \A k \in 1 .. n : events'[k].fate # "frozen"
      BY <1>1, <3>1 DEF Frozen
    <3> QED
      BY <1>1, <3>2
  <2> QED
    BY <1>1, <2>1, <2>2
<1>4. Replays => Replays'
  <2> SUFFICES ASSUME Replays, NEW i \in 1 .. n + 1, events'[i].fate = "replayed"
               PROVE  i = 1 /\ event.at = "allowed" /\ ~event.consumes
    BY <1>1 DEF Replays
  <2>1. i \in 1 .. n
    BY <1>1
  <2> QED
    BY <1>1, <2>1 DEF Replays
<1> QED
  BY <1>2, <1>3, <1>4 DEF KeysInv, SentEaten

\* The first of the events is finished.
LEMMA Removed ==
    ASSUME EventsAreKnown, OneFrozen, events # <<>>, events' = Tail(events)
    PROVE  /\ events' \in Seq(Event) /\ OneFrozen'
           /\ \A i \in DOMAIN events' :
                 /\ i + 1 \in DOMAIN events /\ i + 1 # 1 /\ events'[i] = events[i + 1]
<1>1. /\ Len(events) \in Nat /\ DOMAIN events = 1 .. Len(events)
      /\ DOMAIN events' = 1 .. Len(events) - 1 /\ events' \in Seq(Event)
      /\ \A i \in 1 .. Len(events) - 1 : events'[i] = events[i + 1]
  BY DEF EventsAreKnown
<1>2. \A i \in DOMAIN events' :
         i \in Nat /\ i + 1 \in DOMAIN events /\ i + 1 # 1 /\ events'[i] = events[i + 1]
  BY <1>1
<1>3. \A i, j \in DOMAIN events' : i + 1 = j + 1 => i = j
  BY <1>1
<1> QED
  BY <1>1, <1>2, <1>3 DEF OneFrozen

\* The frozen key is answered.
LEMMA Answered ==
    ASSUME EventsAreKnown, OneFrozen, HandHasKey,
           NEW fate \in Fates \ {"frozen"}, events' = Allow(fate), UNCHANGED controls,
           event'.at \in {"stored", "decided", "allowed"} =>
              event.at \in {"stored", "decided", "allowed"}
    PROVE  EventsAreKnown' /\ OneFrozen' /\ HandHasKey'
<1>1. /\ events' \in Seq(Event) /\ Len(events') = Len(events) /\ DOMAIN events' = DOMAIN events
      /\ \A i \in DOMAIN events' : events'[i].fate # "frozen"
  BY Allowed
<1>2. events # <<>> => events' # <<>>
  BY <1>1 DEF EventsAreKnown
<1> QED
  BY <1>1, <1>2 DEF EventsAreKnown, OneFrozen, HandHasKey

EventsInv ==
    /\ EventsAreKnown /\ OneFrozen /\ HandHasKey /\ KeysInv
    /\ heard # "replayed"

\* Every step of the event thread keeps the keys apart.
LEMMA EventThreadKeepsKeys ==
    ASSUME EventsInv, PlansAreKnown, ~stopping => Ending, EventThread
    PROVE  EventsInv'
<1> USE DEF EventsInv, KeepHost, history
<1>1. CASE TakeEvent
  <2>1. event.at = "wait" /\ events # <<>> /\ UNCHANGED <<controls, heard, stopping>>
    BY <1>1 DEF TakeEvent, At
  <2>4. \/ event'.at = "stored" /\ UNCHANGED events
        \/ event'.at \in {"install", "wait", "thaw"}
    <3>1. CASE event' = [event EXCEPT !.at = "stored"] /\ UNCHANGED events
      BY <3>1 DEF PlansAreKnown
    <3>2. ASSUME NEW new \in Built, event' = [event EXCEPT !.at = "install", !.new = new]
          PROVE  event'.at = "install"
      BY <3>2 DEF PlansAreKnown
    <3>3. CASE Done
      BY <3>3 DEF Done
    <3> QED
      BY <1>1, <3>1, <3>2, <3>3 DEF TakeEvent
  <2>2. CASE UNCHANGED events
    BY <2>1, <2>2, <2>4 DEF EventsAreKnown, OneFrozen, HandHasKey, KeysInv, Replays, SentEaten
  <2>3. CASE events' = Tail(events) /\ event'.at \in {"install", "wait", "thaw"}
    <3>1. EventsAreKnown' /\ OneFrozen'
      BY <2>1, <2>3, Removed DEF EventsAreKnown
    <3>2. HandHasKey'
      BY <2>3 DEF HandHasKey
    <3>3. Replays => Replays'
      BY <2>1, <2>3, Removed DEF Replays
    <3> QED
      BY <2>1, <3>1, <3>2, <3>3 DEF KeysInv, SentEaten
  <2> QED
    BY <1>1, <2>2, <2>3, <2>4 DEF TakeEvent
<1>2. CASE Decide
  <2>1. /\ event.at = "stored" /\ event'.at = "decided"
        /\ UNCHANGED <<events, controls, heard, stopping>>
    BY <1>2 DEF Decide, At, PlansAreKnown
  <2> QED
    BY <2>1 DEF EventsAreKnown, OneFrozen, HandHasKey, KeysInv, Replays, SentEaten
<1>3. CASE AllowKey
  <2>1. /\ event.at = "decided" /\ event'.at = "allowed" /\ event'.consumes = event.consumes
        /\ UNCHANGED <<controls, heard, stopping>> /\ events' = Allow(AnswerTo(Head(events)))
    BY <1>3 DEF AllowKey, At, PlansAreKnown
  <2>2. AnswerTo(Head(events)) \in Fates \ {"frozen"}
    BY DEF AnswerTo, Fates
  <2>3. EventsAreKnown' /\ OneFrozen' /\ HandHasKey'
    BY <2>1, <2>2, Answered
  <2>4. ASSUME Replays
        PROVE  Replays'
    <3> SUFFICES ASSUME NEW i \in DOMAIN events', events'[i].fate = "replayed"
                 PROVE  i = 1 /\ ~event.consumes
      BY <2>1 DEF Replays
    <3>1. /\ i \in DOMAIN events
          /\ events'[i].fate = IF events[i].fate = "frozen" THEN AnswerTo(Head(events))
                               ELSE events[i].fate
      BY <2>1, <2>2, Allowed
    <3>2. events[i].fate # "replayed"
      BY <2>1, <2>4, <3>1 DEF Replays
    <3>3. events[i].fate = "frozen" /\ AnswerTo(Head(events)) = "replayed"
      BY <3>1, <3>2
    <3>4. Head(events).fate = "frozen" /\ ~event.consumes
      BY <3>3 DEF AnswerTo
    <3>5. 1 \in DOMAIN events /\ Head(events) = events[1]
      BY <2>1 DEF EventsAreKnown, HandHasKey
    <3> QED
      BY <3>1, <3>3, <3>4, <3>5 DEF OneFrozen
  <2> QED
    BY <2>1, <2>3, <2>4 DEF KeysInv, SentEaten
<1>4. CASE SendControl
  <2>1. /\ event.at = "allowed" /\ event'.at \in {"wait", "thaw"} /\ events' = Tail(events)
        /\ UNCHANGED <<heard, stopping>> /\ events # <<>>
    BY <1>4 DEF SendControl, At, Done, HandHasKey
  <2>2. EventsAreKnown' /\ OneFrozen'
    <3>1. Head(events) \in Event
      BY <2>1 DEF EventsAreKnown
    <3>2. Head(events).fate \in Fates \cup {None}
      BY <3>1 DEF Event
    <3>3. controls' \in Seq(Fates \cup {None})
      BY <1>4, <3>2 DEF SendControl, EventsAreKnown
    <3> QED
      BY <2>1, <3>3, Removed DEF EventsAreKnown
  <2>3. HandHasKey'
    BY <2>1 DEF HandHasKey
  <2>4. ASSUME Replays, SentEaten
        PROVE  Replays' /\ SentEaten'
    <3>1. Replays'
      BY <2>1, <2>4, Removed DEF Replays
    <3>2. CASE ~event.consumes
      BY <1>4, <2>4, <3>1, <3>2 DEF SendControl, SentEaten
    <3>3. CASE event.consumes
      <4>1. 1 \in DOMAIN events /\ Head(events) = events[1]
        BY <2>1 DEF EventsAreKnown
      <4>2. Head(events).fate # "replayed"
        BY <2>4, <3>3, <4>1 DEF Replays
      <4>3. controls' = Append(controls, Head(events).fate)
        BY <1>4, <3>3 DEF SendControl
      <4> DEFINE n == Len(controls)
      <4>4. /\ n \in Nat /\ DOMAIN controls = 1 .. n /\ DOMAIN controls' = 1 .. n + 1
            /\ controls'[n + 1] = Head(events).fate
            /\ \A i \in 1 .. n : controls'[i] = controls[i]
        BY <4>3 DEF EventsAreKnown
      <4> HIDE DEF n
      <4>5. \A i \in 1 .. n + 1 : i \in 1 .. n \/ i = n + 1
        BY <4>4
      <4> QED
        BY <2>4, <3>1, <4>2, <4>4, <4>5 DEF SentEaten
    <3> QED
      BY <3>2, <3>3
  <2> QED
    BY <2>1, <2>2, <2>3, <2>4 DEF KeysInv
<1>5. CASE InstallLayout
  <2>1. /\ event.at = "install" /\ event'.at \in {"wait", "thaw"}
        /\ UNCHANGED <<events, controls, heard, stopping>>
    BY <1>5 DEF InstallLayout, At, Done
  <2> QED
    BY <2>1 DEF EventsAreKnown, OneFrozen, HandHasKey, KeysInv, Replays, SentEaten
<1>6. CASE Leave
  <2>1. /\ event'.at \in {"ungrab", "gone"} /\ UNCHANGED <<controls, heard, stopping>> /\ stopping
        /\ events' = Allow("replayed") \/ UNCHANGED events
    BY <1>6 DEF Leave, At, Ending, PlansAreKnown
  <2>2. EventsAreKnown' /\ OneFrozen' /\ HandHasKey'
    BY <2>1, Answered DEF EventsAreKnown, OneFrozen, HandHasKey, Fates
  <2> QED
    BY <2>1, <2>2 DEF KeysInv
<1> QED
  BY <1>1, <1>2, <1>3, <1>4, <1>5, <1>6 DEF EventThread

\* So does every step.
LEMMA EventsStep ==
    ASSUME EventsInv, CallsAreSteps, PlansAreKnown, ~stopping => Ending, [Next]_vars
    PROVE  EventsInv'
<1> USE DEF EventsInv
<1>1. CASE UNCHANGED <<events, event, controls, heard>> /\ (stopping => stopping')
  BY <1>1 DEF EventsAreKnown, OneFrozen, HandHasKey, KeysInv, Replays, SentEaten
<1>2. CASE DropTap
  <2>1. UNCHANGED <<events, event, controls, heard>> /\ stopping'
    BY <1>2 DEF DropTap, Begins, serverVars
  <2> QED
    BY <1>1, <2>1
<1>3. CASE Dropping
  <2>1. stopping /\ UNCHANGED <<event, controls, heard, stopping>>
    <3>1. todo # <<>> /\ Head(todo).op \in {"Thaw", "Ungrab", "Forget"}
      BY <1>3 DEF Dropping, NextIs
    <3>2. 1 \in DOMAIN todo /\ Head(todo) = todo[1]
      BY <3>1 DEF CallsAreSteps
    <3> QED
      BY <1>3, <3>1, <3>2 DEF Dropping, Ending, history
  <2>2. CASE events' = Allow("replayed")
    BY <2>1, <2>2, Answered DEF Fates, KeysInv
  <2>3. CASE UNCHANGED events
    BY <1>1, <2>1, <2>3
  <2>4. CASE events' = Append(events, Signal("wake"))
    <3>1. Signal("wake") \in Event /\ Signal("wake").fate \notin {"frozen", "replayed"}
      BY DEF Signal, Event
    <3> QED
      BY <2>1, <2>4, <3>1, Appended
  <2> QED
    BY <1>3, <2>2, <2>3, <2>4 DEF Dropping
<1>4. CASE EventThread
  BY <1>4, EventThreadKeepsKeys
<1>5. CASE Watchdog
  <2>1. UNCHANGED <<event, controls, heard, stopping>>
    BY <1>5 DEF Watchdog, Tick, ThawFrozen, ForgetFrozen, DisarmFrozen, Disarm, EndWatch, KeepEvent
  <2>2. CASE events' = Allow("thawed")
    <3>1. EventsAreKnown' /\ OneFrozen' /\ HandHasKey'
      BY <2>1, <2>2, Answered DEF Fates
    <3>2. Replays => Replays'
      BY <2>1, <2>2, Allowed DEF Replays, Fates
    <3> QED
      BY <2>1, <3>1, <3>2 DEF KeysInv, SentEaten
  <2>3. CASE UNCHANGED events
    BY <1>1, <2>1, <2>3
  <2> QED
    BY <1>5, <2>2, <2>3
       DEF Watchdog, Tick, ThawFrozen, ForgetFrozen, DisarmFrozen, Disarm, EndWatch
<1>6. CASE Dispatch
  <2>1. UNCHANGED <<events, event, stopping>> /\ controls # <<>>
    BY <1>6 DEF Dispatch, serverVars
  <2>2. CASE controls' = <<>> /\ UNCHANGED heard
    BY <2>1, <2>2 DEF EventsAreKnown, OneFrozen, HandHasKey, KeysInv, Replays, SentEaten
  <2>3. CASE Delivers /\ controls' = Tail(controls)
    <3>1. /\ 1 \in DOMAIN controls /\ Head(controls) = controls[1]
          /\ controls' \in Seq(Fates \cup {None})
          /\ \A i \in DOMAIN controls' : i + 1 \in DOMAIN controls /\ controls'[i] = controls[i + 1]
      BY <2>1, <2>3 DEF EventsAreKnown
    <3>2. heard' \in {heard, Head(controls)}
      BY <1>6 DEF Dispatch
    <3> QED
      BY <2>1, <2>3, <3>1, <3>2
         DEF Delivers, EventsAreKnown, OneFrozen, HandHasKey, KeysInv, Replays, SentEaten
  <2> QED
    BY <1>6, <2>2, <2>3 DEF Dispatch
<1>7. CASE Press
  <2>1. PICK p \in grabs, role \in Roles : events' = Append(events, KeyEvent(p, role))
    BY <1>7 DEF Press
  <2>2. KeyEvent(p, role) \in Event /\ KeyEvent(p, role).fate # "replayed"
    BY <2>1 DEF KeyEvent, Event, Fates, PlansAreKnown
  <2>3. UNCHANGED <<event, controls, heard, stopping>> /\ ~Frozen
    BY <1>7 DEF Press, history
  <2> QED
    BY <2>1, <2>2, <2>3, Appended
<1>8. CASE ChangeLayout
  <2>1. Signal("mapping") \in Event /\ Signal("mapping").fate \notin {"frozen", "replayed"}
    BY DEF Signal, Event
  <2>2. UNCHANGED <<event, controls, heard, stopping>> /\ events' = Append(events, Signal("mapping"))
    BY <1>8 DEF ChangeLayout, history
  <2> QED
    BY <2>1, <2>2, Appended
<1>9. CASE Disconnect
  <2>1. UNCHANGED <<event, controls, heard, stopping>> /\ stopping /\ events' = <<>>
        /\ event.at = "gone"
    BY <1>9 DEF Disconnect, history
  <2> QED
    BY <2>1 DEF EventsAreKnown, OneFrozen, HandHasKey, KeysInv
<1> QED
  BY <1>1, <1>2, <1>3, <1>4, <1>5, <1>6, <1>7, <1>8, <1>9, EventsStand DEF Next, Host

\* What is left of a call.
LEMMA RestOfCall ==
    ASSUME CallsAreSteps, todo # <<>>
    PROVE  /\ Head(todo) = todo[1] /\ 1 \in DOMAIN todo
           /\ \A i \in DOMAIN Tail(todo) : i + 1 \in DOMAIN todo /\ Tail(todo)[i] = todo[i + 1]
BY DEF CallsAreSteps

\* Until the tap is dropped, no thread is on its way out.
LEMMA EndingStep ==
    ASSUME CallsAreSteps, PlansAreKnown, ~stopping => Ending, [Next]_vars
    PROVE  ~stopping' => Ending'
<1> SUFFICES ASSUME ~stopping'
             PROVE  Ending'
  OBVIOUS
<1> DEFINE LastSteps == {"Thaw", "Ungrab", "Forget"}
           Before(s) == \A i \in DOMAIN s : s[i].op \notin LastSteps
<1>1. ASSUME UNCHANGED <<event, stopping>>, Before(todo')
      PROVE  Ending'
  BY <1>1 DEF Ending
<1>2. \A op \in {"Set", "Read", "Build", "BuildOld", "Install", "InstallOld"} :
         \A arg : Before(<<Step(op, arg)>>)
  BY DEF Step
<1>3. Before(HideTap) /\ \A a : Before(ShowTap(a))
  BY CallShapes DEF Step
<1>4. Before(<<>>)
  OBVIOUS
<1>5. ~stopping /\ todo # <<>> => Before(Tail(todo))
  BY RestOfCall DEF Ending
<1>6. ASSUME NEW kind \in {"Ghost", "Correction"}, ShowSuggestion(kind)
      PROVE  Ending'
  BY <1>1, <1>3, <1>6 DEF ShowSuggestion, Begins
<1>7. CASE HideSuggestion \/ HideSuggestionAfter
  BY <1>1, <1>3, <1>4, <1>7 DEF HideSuggestion, HideSuggestionAfter, Begins
<1>8. ASSUME NEW map \in Maps, Rebind(map)
      PROVE  Ending'
  BY <1>1, <1>2, <1>8 DEF Rebind, Begins
<1>9. CASE DropTap
  BY <1>9 DEF DropTap
<1>10. CASE Set
  <2>1. UNCHANGED <<event, stopping>> /\ todo' \in {Tail(todo), HideTap} /\ todo # <<>>
    BY <1>10 DEF Set, NextIs
  <2> HIDE DEF Before
  <2> QED
    BY <1>1, <1>3, <1>5, <2>1
<1>11. CASE ReadAction
  <2> DEFINE a == IF ~Head(todo).arg THEN None ELSE IF action = None THEN "Full" ELSE action
             first == Step("Set", a)
             rest == Tail(todo)
  <2>1. /\ UNCHANGED <<event, stopping>> /\ todo # <<>>
        /\ todo' = <<first>> \o rest
    <3>1. SetAction(a) = <<Step("Set", a)>>
      BY CallShapes
    <3>2. todo' = SetAction(a) \o Tail(todo)
      BY <1>11 DEF ReadAction
    <3>3. UNCHANGED <<event, stopping>> /\ todo # <<>>
      BY <1>11 DEF ReadAction, NextIs
    <3> QED
      BY <3>1, <3>2, <3>3, Zenon
  <2>2. Before(rest) /\ rest \in Seq(Steps) /\ first.op = "Set"
    BY <1>5, <2>1, HeadIsStep DEF Step
  <2> HIDE DEF first, rest
  <2>3. /\ Len(rest) \in Nat /\ DOMAIN rest = 1 .. Len(rest) /\ DOMAIN todo' = 1 .. Len(rest) + 1
        /\ todo'[1] = first /\ \A i \in 1 .. Len(rest) : todo'[i + 1] = rest[i]
    <3>1. <<first>> \in Seq({first} \cup Steps) /\ rest \in Seq({first} \cup Steps)
      BY <2>2
    <3> QED
      BY <2>1, <3>1
  <2>4. ASSUME NEW i \in 1 .. Len(rest) + 1
        PROVE  todo'[i].op \notin LastSteps
    <3>1. CASE i = 1
      BY <2>2, <2>3, <3>1
    <3>2. CASE i # 1
      <4>1. i - 1 \in 1 .. Len(rest) /\ i = (i - 1) + 1
        BY <2>3, <3>2
      <4>2. todo'[i] = rest[i - 1]
        BY <2>3, <4>1
      <4> QED
        BY <2>2, <2>3, <4>1, <4>2
    <3> QED
      BY <3>1, <3>2
  <2> QED
    BY <1>1, <2>1, <2>3, <2>4
<1>12. CASE BuildPlan
  <2>1. /\ UNCHANGED <<event, stopping>>
        /\ \E op \in {"Install", "InstallOld"} : \E arg : todo' = <<Step(op, arg)>>
    BY <1>12 DEF BuildPlan
  <2> HIDE DEF Before
  <2> QED
    BY <1>1, <1>2, <2>1
<1>13. CASE InstallPlan
  <2>1. /\ UNCHANGED <<event, stopping>>
        /\ todo' = <<>> \/ \E arg : todo' = <<Step("BuildOld", arg)>>
    BY <1>13 DEF InstallPlan
  <2> HIDE DEF Before
  <2> QED
    BY <1>1, <1>2, <1>4, <2>1
<1>14. CASE Dropping
  BY <1>14, RestOfCall DEF Dropping, NextIs, Ending
<1>15. CASE EventThread
  <2>1. UNCHANGED <<todo, stopping>>
    BY <1>15, OthersLeaveCalls
  <2>2. event'.at \notin {"thaw", "ungrab", "gone"}
    <3>1. CASE TakeEvent
      <4>1. CASE event' = [event EXCEPT !.at = "stored"]
        BY <4>1 DEF PlansAreKnown
      <4>2. ASSUME NEW new \in Built, event' = [event EXCEPT !.at = "install", !.new = new]
            PROVE  event'.at = "install"
        BY <4>2 DEF PlansAreKnown
      <4>3. CASE Done
        BY <2>1, <4>3 DEF Done
      <4>4. \/ event' = [event EXCEPT !.at = "stored"]
            \/ \E new \in Built : event' = [event EXCEPT !.at = "install", !.new = new]
            \/ Done
        BY <3>1 DEF TakeEvent
      <4>5. event'.at = "stored" \/ event'.at = "install" \/ event'.at \notin {"thaw", "ungrab", "gone"}
        BY <4>1, <4>2, <4>3, <4>4 DEF PlansAreKnown
      <4> QED
        BY <4>5
    <3>2. CASE Decide \/ AllowKey
      BY <3>2 DEF Decide, AllowKey, PlansAreKnown
    <3>3. CASE SendControl \/ InstallLayout
      BY <2>1, <3>3 DEF SendControl, InstallLayout, Done
    <3>4. CASE Leave
      BY <2>1, <3>4 DEF Leave, At, Ending
    <3> QED
      BY <1>15, <3>1, <3>2, <3>3, <3>4 DEF EventThread
  <2> QED
    BY <2>1, <2>2 DEF Ending
<1>16. CASE Watchdog \/ Dispatch \/ PassTime \/ Press \/ ChangeLayout \/ Disconnect
  <2>1. UNCHANGED <<todo, stopping>>
    BY <1>16, OthersLeaveCalls
  <2>2. UNCHANGED event
    BY <1>16, WatchdogKeepsPlan DEF Dispatch, PassTime, Press, ChangeLayout, Disconnect
  <2> QED
    BY <2>1, <2>2 DEF Ending
<1>17. CASE UNCHANGED vars
  BY <1>17 DEF vars, hostVars, Ending
<1> QED
  BY <1>6, <1>7, <1>8, <1>9, <1>10, <1>11, <1>12, <1>13, <1>14, <1>15, <1>16, <1>17
     DEF Next, Host

----------------------------------------------------------------------------
(* The grab. *)

\* The keys of the plan are grabbed while an action is armed, and no others are.
GrabFollowsAction ==
    /\ grabbed = (action # None)
    /\ grabs = IF action = None THEN {} ELSE {plan} \ {None}

\* The moves of the grab keep it, each for itself.
LEMMA MovesKeepGrab ==
    ASSUME GrabFollowsAction
    PROVE  /\ \A a : Grabs(a) /\ UNCHANGED plan => GrabFollowsAction'
           /\ \A a : GrabFails(a) /\ UNCHANGED plan => GrabFollowsAction'
           /\ \A a : LeavesGrab(a) /\ UNCHANGED plan => GrabFollowsAction'
           /\ PublishEmpty => GrabFollowsAction'
           /\ RestorePlan => GrabFollowsAction'
           /\ \A new : Succeeds(new) => GrabFollowsAction'
           /\ \A new : DisarmPlan(new) => GrabFollowsAction'
<1> USE DEF GrabFollowsAction, ClearArmed, Without, With
<1>1. ASSUME NEW a, Grabs(a), UNCHANGED plan
      PROVE  GrabFollowsAction'
  BY <1>1 DEF Grabs
<1>2. ASSUME NEW a, GrabFails(a), UNCHANGED plan
      PROVE  GrabFollowsAction'
  BY <1>2 DEF GrabFails
<1>3. ASSUME NEW a, LeavesGrab(a), UNCHANGED plan
      PROVE  GrabFollowsAction'
  BY <1>3 DEF LeavesGrab
<1>4. ASSUME PublishEmpty
      PROVE  GrabFollowsAction'
  BY <1>4 DEF PublishEmpty
<1>5. ASSUME RestorePlan
      PROVE  GrabFollowsAction'
  BY <1>5 DEF RestorePlan
<1>6. ASSUME NEW new, Succeeds(new)
      PROVE  GrabFollowsAction'
  BY <1>6 DEF Succeeds, PublishPlan
<1>7. ASSUME NEW new, DisarmPlan(new)
      PROVE  GrabFollowsAction'
  BY <1>7 DEF DisarmPlan
<1> QED
  BY <1>1, <1>2, <1>3, <1>4, <1>5, <1>6, <1>7

\* So does every step, until the tap is dropped.
LEMMA GrabStep ==
    ASSUME CallsAreSteps, PlansAreKnown, ~stopping => Ending, ~stopping => GrabFollowsAction,
           [Next]_vars
    PROVE  ~stopping' => GrabFollowsAction'
<1> SUFFICES ASSUME ~stopping'
             PROVE  GrabFollowsAction'
  OBVIOUS
<1> USE DEF tapVars, serverVars
<1>1. CASE UNCHANGED <<plan, action, grabbed, grabs, stopping>>
  BY <1>1 DEF GrabFollowsAction
<1>2. CASE Set
  BY <1>2, MovesKeepGrab DEF Set
<1>3. CASE InstallPlan
  BY <1>3, MovesKeepGrab DEF InstallPlan
<1>4. CASE Dropping
  BY <1>4, RestOfCall DEF Dropping, NextIs, Ending
<1>5. CASE InstallLayout
  BY <1>5, MovesKeepGrab DEF InstallLayout, KeepHost
<1>6. CASE DisarmFrozen \/ Disarm
  BY <1>1, <1>6, MovesKeepGrab DEF DisarmFrozen, Disarm, KeepEvent
<1>7. CASE Leave \/ Disconnect
  BY <1>7 DEF Leave, Disconnect, At, Ending, KeepHost
<1>8. CASE TakeEvent \/ Decide \/ AllowKey \/ SendControl
  BY <1>1, <1>8 DEF TakeEvent, Decide, AllowKey, SendControl, KeepHost
<1>9. CASE Tick \/ ThawFrozen \/ ForgetFrozen \/ EndWatch
  BY <1>1, <1>9 DEF Tick, ThawFrozen, ForgetFrozen, EndWatch, KeepEvent
<1>10. CASE ReadAction \/ BuildPlan \/ Dispatch \/ PassTime \/ Press \/ ChangeLayout
            \/ UNCHANGED vars
  BY <1>1, <1>10 DEF ReadAction, BuildPlan, Dispatch, PassTime, Press, ChangeLayout, vars
<1>11. (\E kind \in {"Ghost", "Correction"} : ShowSuggestion(kind)) \/ HideSuggestion
          \/ HideSuggestionAfter \/ (\E map \in Maps : Rebind(map))
          => UNCHANGED <<plan, action, grabbed, grabs, stopping>>
  BY DEF ShowSuggestion, HideSuggestion, HideSuggestionAfter, Rebind, Begins
<1>12. CASE DropTap
  BY <1>12 DEF DropTap
<1> QED
  BY <1>1, <1>2, <1>3, <1>4, <1>5, <1>6, <1>7, <1>8, <1>9, <1>10, <1>11, <1>12
     DEF Next, Host, EventThread, Watchdog

----------------------------------------------------------------------------
(* What is on screen. *)

\* An action that answers the suggestion on screen.
Fits(a) == a \in Actions /\ (shown = "Ghost" => a = "Full")

Rebinding ==
    /\ todo # <<>> /\ Tail(todo) = <<>>
    /\ Head(todo).op \in {"Build", "BuildOld", "Install", "InstallOld"}

\* The steps of a show that are left.
Setting == todo = <<Step("Set", ActionOf(shown)), Step("Read", TRUE)>>

\* Before the second setting of the action, an old deadline may take it back.
Reading == action \in {None, ActionOf(shown)} /\ todo = <<Step("Read", TRUE)>>

SettingAgain ==
    /\ hideAt = "unset"
    /\ \E a \in Actions : Fits(a) /\ todo = <<Step("Set", a)>>

\* From then on only a deadline of its own can.
OnScreen ==
    /\ hideAt = "unset" /\ (excused \/ Fits(action))
    /\ Idle \/ Rebinding

\* How far the suggestion on screen has got.
ShowProceeds == shown # None => Setting \/ Reading \/ SettingAgain \/ OnScreen

\* The steps of a show, one at a time.
LEMMA Tails ==
    ASSUME NEW a, NEW b
    PROVE  /\ Head(<<a, b>>) = a /\ Tail(<<a, b>>) = <<b>> /\ <<a, b>> # <<>>
           /\ Head(<<a>>) = a /\ Tail(<<a>>) = <<>> /\ <<a>> # <<>>
OBVIOUS

\* The step under way tells how far the show has got.
LEMMA StepTells ==
    ASSUME ShowProceeds, shown # None
    PROVE  /\ NextIs("Set") => Setting \/ SettingAgain
           /\ NextIs("Read") => Reading
           /\ Idle => OnScreen
           /\ \A op \in {"Build", "BuildOld", "Install", "InstallOld"} :
                 NextIs(op) => OnScreen /\ Rebinding
<1>1. Setting => NextIs("Set")
  BY Tails DEF Setting, NextIs, Step
<1>2. Reading => NextIs("Read")
  BY Tails DEF Reading, NextIs, Step
<1>3. SettingAgain => NextIs("Set")
  BY Tails DEF SettingAgain, NextIs, Step
<1> QED
  BY <1>1, <1>2, <1>3 DEF ShowProceeds, OnScreen, Rebinding, NextIs, Idle

\* A step that neither goes on with the call nor takes the action back.
LEMMA ShowStands ==
    ASSUME ShowProceeds, UNCHANGED <<todo, shown, action>>, excused => excused',
           hideAt = "unset" => hideAt' = "unset"
    PROVE  ShowProceeds'
BY DEF ShowProceeds, Setting, Reading, SettingAgain, OnScreen, Rebinding, Idle, Fits

\* One that takes it back, for cause or before the show has set it for good.
LEMMA ShowLosesAction ==
    ASSUME ShowProceeds, UNCHANGED <<todo, shown>>, action' = None, hideAt' = "unset",
           OnScreen => excused' \/ action = None,
           excused => excused'
    PROVE  ShowProceeds'
<1> SUFFICES ASSUME shown # None
             PROVE  ShowProceeds'
  BY DEF ShowProceeds
<1>1. CASE Setting
  BY <1>1 DEF ShowProceeds, Setting
<1>2. CASE Reading
  BY <1>2 DEF ShowProceeds, Reading
<1>3. CASE SettingAgain
  BY <1>3 DEF ShowProceeds, SettingAgain, Fits
<1>4. CASE OnScreen
  <2>1. excused'
    <3>1. action = None => ~Fits(action)
      BY DEF Fits, Actions
    <3> QED
      BY <1>4, <3>1 DEF OnScreen
  <2> QED
    BY <1>4, <2>1 DEF ShowProceeds, OnScreen, Idle, Rebinding
<1> QED
  BY <1>1, <1>2, <1>3, <1>4 DEF ShowProceeds

\* A regrab that takes the action back excuses it.
LEMMA RegrabKeepsShow ==
    ASSUME ShowProceeds, UNCHANGED <<todo, shown>>, LosesKeys,
           UNCHANGED <<action, hideAt>> \/ ClearArmed
    PROVE  ShowProceeds'
<1>1. CASE UNCHANGED <<action, hideAt>>
  BY <1>1, ShowStands DEF LosesKeys
<1>2. CASE ClearArmed
  <2>1. action' = None /\ hideAt' = "unset"
    BY <1>2 DEF ClearArmed
  <2>2. excused => excused'
    BY DEF LosesKeys
  <2>3. excused' \/ action = None
    BY <2>1 DEF LosesKeys
  <2> QED
    BY <2>1, <2>2, <2>3, ShowLosesAction
<1> QED
  BY <1>1, <1>2

\* The watchdog takes back what its own deadlines excuse, or a hide that is due.
LEMMA WatchdogKeepsShow ==
    ASSUME ShowProceeds, GrabFollowsAction, Watchdog
    PROVE  ShowProceeds'
<1> USE DEF tapVars, KeepEvent
<1>1. ASSUME LeavesGrab(None), UNCHANGED <<todo, shown>>, excused => excused',
             OnScreen => excused' \/ action = None
      PROVE  ShowProceeds'
  <2>1. CASE action = None
    <3>1. UNCHANGED action /\ (hideAt = "unset" => hideAt' = "unset")
      BY <1>1, <2>1 DEF LeavesGrab, ClearArmed
    <3> QED
      BY <1>1, <3>1, ShowStands
  <2>2. CASE action # None
    <3>1. action' = None /\ hideAt' = "unset"
      BY <1>1, <2>2 DEF LeavesGrab, ClearArmed, GrabFollowsAction
    <3> QED
      BY <1>1, <3>1, ShowLosesAction
  <2> QED
    BY <2>1, <2>2
<1>2. CASE Tick \/ ThawFrozen \/ ForgetFrozen \/ EndWatch
  <2>1. UNCHANGED <<todo, shown, action, hideAt, excused>>
    BY <1>2 DEF Tick, ThawFrozen, ForgetFrozen, EndWatch
  <2> QED
    BY <2>1, ShowStands
<1>3. CASE DisarmFrozen
  <2>1. LeavesGrab(None) /\ UNCHANGED <<todo, shown>> /\ excused'
    BY <1>3 DEF DisarmFrozen
  <2> QED
    BY <1>1, <2>1
<1>4. CASE Disarm
  <2>1. UNCHANGED <<todo, shown>>
    BY <1>4 DEF Disarm
  <2>2. CASE StillDue /\ LeavesGrab(None)
             /\ excused' = (excused \/ frozenSince = "passed" \/ armedSince = "passed")
    <3>1. OnScreen => excused'
      BY <2>2 DEF OnScreen, StillDue, Due
    <3>2. excused => excused'
      BY <2>2
    <3> QED
      BY <1>1, <2>1, <2>2, <3>1, <3>2
  <2>3. CASE UNCHANGED <<action, hideAt, excused>>
    BY <2>1, <2>3, ShowStands
  <2> QED
    BY <1>4, <2>2, <2>3 DEF Disarm
<1> QED
  BY <1>2, <1>3, <1>4 DEF Watchdog

\* Every step keeps the show's progress, until the tap is dropped.
LEMMA ShowStep ==
    ASSUME CallsAreSteps, ~stopping => Ending, ~stopping => GrabFollowsAction,
           ~stopping => ShowProceeds, [Next]_vars
    PROVE  ~stopping' => ShowProceeds'
<1> SUFFICES ASSUME ~stopping'
             PROVE  ShowProceeds'
  OBVIOUS
<1> USE DEF tapVars, hostVars, history
<1>1. ASSUME ~stopping, UNCHANGED <<todo, shown, action, hideAt, excused>>
      PROVE  ShowProceeds'
  BY <1>1, ShowStands
<1>2. ASSUME NEW kind \in {"Ghost", "Correction"}, ShowSuggestion(kind)
      PROVE  ShowProceeds'
  BY <1>2, CallShapes DEF ShowSuggestion, Begins, ShowProceeds, Setting
<1>3. CASE HideSuggestion \/ HideSuggestionAfter
  BY <1>3 DEF HideSuggestion, HideSuggestionAfter, ShowProceeds
<1>4. ASSUME NEW map \in Maps, Rebind(map)
      PROVE  ShowProceeds'
  <2>1. ~stopping /\ Idle /\ UNCHANGED <<shown, action, hideAt, excused>>
    BY <1>4 DEF Rebind, Begins
  <2>2. Rebinding'
    BY <1>4, Tails DEF Rebind, Begins, Rebinding, Step
  <2>3. shown # None => OnScreen
    BY <2>1, StepTells
  <2> QED
    BY <2>1, <2>2, <2>3 DEF ShowProceeds, OnScreen, Fits
<1>5. CASE DropTap
  BY <1>5 DEF DropTap
<1>6. CASE Set
  <2>1. ~stopping /\ UNCHANGED excused
    BY <1>6 DEF Set
  <2>2. CASE shown' = None
    BY <2>2 DEF ShowProceeds
  <2>3. CASE UNCHANGED shown /\ shown # None /\ todo' = Tail(todo)
             /\ (Grabs(Head(todo).arg) \/ LeavesGrab(Head(todo).arg))
    <3>1. CASE Setting
      <4> DEFINE first == Step("Set", ActionOf(shown))
                 second == Step("Read", TRUE)
      <4>1. Head(todo).arg = ActionOf(shown) /\ todo' = <<second>>
        <5>1. first.arg = ActionOf(shown)
          BY StepsAreSteps
        <5>2. todo = <<first, second>>
          BY <3>1 DEF Setting
        <5> HIDE DEF first, second
        <5>3. Head(todo) = first /\ Tail(todo) = <<second>>
          BY <5>2, Tails, Zenon
        <5> QED
          BY <2>3, <5>1, <5>3, Zenon
      <4>2. action' \in {None, ActionOf(shown)}
        BY <2>3, <4>1 DEF Grabs, LeavesGrab, ClearArmed
      <4> QED
        BY <2>3, <4>1, <4>2 DEF ShowProceeds, Reading
    <3>2. CASE SettingAgain
      <4>1. PICK a \in Actions : Fits(a) /\ todo = <<Step("Set", a)>>
        BY <3>2 DEF SettingAgain
      <4>2. Head(todo).arg = a /\ todo' = <<>> /\ a # None
        BY <2>3, <4>1, Tails DEF Step, Actions
      <4>3. action' = a /\ UNCHANGED hideAt
        BY <2>3, <4>2 DEF Grabs, LeavesGrab
      <4> QED
        BY <2>3, <3>2, <4>1, <4>2, <4>3 DEF ShowProceeds, OnScreen, Fits, Idle, SettingAgain
    <3> QED
      BY <1>6, <2>1, <2>3, <3>1, <3>2, StepTells DEF Set
  <2> QED
    BY <1>6, <2>2, <2>3 DEF Set, ShowProceeds
<1>7. CASE ReadAction
  <2>1. ~stopping /\ UNCHANGED <<shown, action, excused>> /\ hideAt' = "unset"
    BY <1>7 DEF ReadAction
  <2>2. CASE shown = None
    BY <2>1, <2>2 DEF ShowProceeds
  <2>3. CASE shown # None
    <3>1. Reading
      BY <1>7, <2>1, <2>3, StepTells DEF ReadAction
    <3>2. Head(todo).arg = TRUE /\ Tail(todo) = <<>>
      BY <3>1, Tails DEF Reading, Step
    <3> DEFINE a == IF action = None THEN "Full" ELSE action
    <3>3. todo' = SetAction(a) \o <<>>
      BY <1>7, <3>2 DEF ReadAction
    <3>4. a \in Actions /\ (shown = "Ghost" => a = "Full")
      BY <2>3, <3>1 DEF Reading, ActionOf, Actions
    <3> HIDE DEF a
    <3>5. \A x : <<x>> \o <<>> = <<x>>
      OBVIOUS
    <3>6. todo' = <<Step("Set", a)>>
      BY <3>3, <3>5, CallShapes, Zenon
    <3>7. PICK x \in Actions : (shown = "Ghost" => x = "Full") /\ todo' = <<Step("Set", x)>>
      BY <3>4, <3>6
    <3> QED
      BY <2>1, <3>7 DEF ShowProceeds, SettingAgain, Fits
  <2> QED
    BY <2>2, <2>3
<1>8. CASE BuildPlan
  <2>1. ~stopping /\ UNCHANGED <<shown, action, hideAt, excused>>
    BY <1>8 DEF BuildPlan
  <2>2. Rebinding'
    BY <1>8, Tails DEF BuildPlan, Rebinding, Step
  <2>3. shown # None => OnScreen
    BY <1>8, <2>1, StepTells DEF BuildPlan
  <2> QED
    BY <2>1, <2>2, <2>3 DEF ShowProceeds, OnScreen, Fits
<1>9. CASE InstallPlan
  <2>1. ~stopping /\ UNCHANGED shown /\ LosesKeys
    BY <1>9 DEF InstallPlan
  <2>2. (Idle \/ Rebinding)'
    <3>1. todo' = <<>> \/ \E arg : todo' = <<Step("BuildOld", arg)>>
      BY <1>9 DEF InstallPlan
    <3>2. ASSUME NEW arg, todo' = <<Step("BuildOld", arg)>>
          PROVE  Rebinding'
      <4>1. Step("BuildOld", arg).op = "BuildOld"
        BY StepsAreSteps
      <4>2. Head(todo') = Step("BuildOld", arg) /\ Tail(todo') = <<>> /\ todo' # <<>>
        BY <3>2, Tails, Zenon
      <4> QED
        BY <4>1, <4>2 DEF Rebinding
    <3> QED
      BY <3>1, <3>2 DEF Idle
  <2>3. shown # None => OnScreen
    BY <1>9, <2>1, StepTells DEF InstallPlan
  <2>4. UNCHANGED <<action, hideAt>> \/ (action' = None /\ hideAt' = "unset")
    BY <1>9 DEF InstallPlan, Succeeds, PublishPlan, PublishEmpty, RestorePlan, ClearArmed
  <2>5. ASSUME OnScreen
        PROVE  excused' \/ Fits(action)'
    <3>1. excused => excused'
      BY <2>1 DEF LosesKeys
    <3>2. CASE UNCHANGED action
      BY <2>1, <2>5, <3>1, <3>2 DEF OnScreen, Fits
    <3>3. CASE action' = None
      <4>1. Fits(action) => action # None
        BY DEF Fits, Actions
      <4> QED
        BY <2>1, <2>5, <3>1, <3>3, <4>1 DEF OnScreen, LosesKeys
    <3> QED
      BY <2>4, <3>2, <3>3
  <2>6. OnScreen => hideAt' = "unset"
    BY <2>4 DEF OnScreen
  <2>7. shown' # None => OnScreen'
    BY <2>1, <2>2, <2>3, <2>5, <2>6 DEF OnScreen
  <2> QED
    BY <2>7 DEF ShowProceeds
<1>10. CASE Dropping
  BY <1>10, RestOfCall DEF Dropping, NextIs, Ending
<1>11. CASE InstallLayout
  <2>1. ~stopping /\ UNCHANGED <<todo, shown>> /\ LosesKeys
    BY <1>11 DEF InstallLayout, KeepHost
  <2>2. UNCHANGED <<action, hideAt>> \/ ClearArmed
    BY <1>11 DEF InstallLayout, Succeeds, PublishPlan, PublishEmpty, DisarmPlan
  <2> QED
    BY <2>1, <2>2, RegrabKeepsShow
<1>12. CASE Watchdog
  BY <1>12, WatchdogKeepsShow, OthersLeaveCalls
<1>13. CASE TakeEvent \/ Decide \/ AllowKey \/ SendControl \/ Leave
  BY <1>1, <1>13 DEF TakeEvent, Decide, AllowKey, SendControl, Leave, KeepHost
<1>14. CASE Dispatch \/ Press \/ ChangeLayout \/ Disconnect \/ UNCHANGED vars
  BY <1>1, <1>14 DEF Dispatch, Press, ChangeLayout, Disconnect, vars
<1>15. CASE PassTime
  <2>1. UNCHANGED <<todo, shown, action, excused, stopping>> /\ (hideAt = "unset" => hideAt' = "unset")
    BY <1>15 DEF PassTime, Passes
  <2> QED
    BY <2>1, ShowStands
<1> QED
  BY <1>2, <1>3, <1>4, <1>5, <1>6, <1>7, <1>8, <1>9, <1>10, <1>11, <1>12, <1>13, <1>14, <1>15
     DEF Next, Host, EventThread

----------------------------------------------------------------------------
(* The theorems. *)

Inv ==
    /\ CallsAreSteps /\ PlansAreKnown /\ EventsInv
    /\ ~stopping => Ending
    /\ ~stopping => GrabFollowsAction
    /\ ~stopping => ShowProceeds

\* The first state.
LEMMA InitInv ==
    ASSUME Init
    PROVE  Inv
<1> USE DEF Init
<1>1. CallsAreSteps /\ PlansAreKnown
  BY DEF CallsAreSteps, PlansAreKnown, Plans
<1>2. EventsInv
  BY DEF EventsInv, EventsAreKnown, OneFrozen, HandHasKey, KeysInv, Replays, SentEaten
<1>3. Ending
  BY DEF Ending
<1>4. GrabFollowsAction /\ ShowProceeds
  BY DEF GrabFollowsAction, ShowProceeds
<1> QED
  BY <1>1, <1>2, <1>3, <1>4 DEF Inv

\* Every state.
LEMMA Invariance == Spec => []Inv
<1>1. Init => Inv
  BY InitInv
<1>2. Inv /\ [Next]_vars => Inv'
  BY CallsStep, PlansStep, EventsStep, EndingStep, GrabStep, ShowStep DEF Inv
<1> QED
  BY <1>1, <1>2, PTL DEF Spec

\* Until the tap is dropped, the keys that are grabbed are those of the plan and of an
\* action that is armed, and the suggestion on screen has them unless a deadline of its
\* own, a frozen key or a failed regrab has taken them (apply_action_locked, regrab,
\* set_suggestion_visible, watchdog_disarm).
THEOREM KeysAreTheSuggestions == Spec => []KeysFollowSuggestion
<1>1. Inv => KeysFollowSuggestion
  <2> SUFFICES ASSUME Inv, ~stopping
               PROVE  /\ grabs # {} => action # None
                      /\ grabs \subseteq {plan}
                      /\ Idle /\ shown # None /\ ~excused =>
                            /\ grabbed /\ action # None
                            /\ shown = "Ghost" => action = "Full"
                            /\ grabs = {plan} \ {None}
    BY DEF KeysFollowSuggestion
  <2>1. (grabs # {} => action # None) /\ grabs \subseteq {plan}
    BY DEF Inv, GrabFollowsAction
  <2>2. ASSUME Idle, shown # None, ~excused
        PROVE  /\ grabbed /\ action # None
               /\ shown = "Ghost" => action = "Full"
               /\ grabs = {plan} \ {None}
    <3>1. Fits(action)
      BY <2>2, StepTells DEF Inv, OnScreen
    <3>2. action # None /\ (shown = "Ghost" => action = "Full")
      BY <3>1 DEF Fits, Actions
    <3> QED
      BY <3>2 DEF Inv, GrabFollowsAction
  <2> QED
    BY <2>1, <2>2
<1> QED
  BY <1>1, Invariance, PTL

\* A key that the engine has heard of was not replayed to the application, but for one
\* that the watchdog let go, or that got the answer to such a key (resolve_key_press,
\* Drop, spawn_dispatcher).
THEOREM HeardKeysWereEaten == Spec => []ControlsWereEaten
<1>1. Inv => ControlsWereEaten
  BY DEF Inv, EventsInv, ControlsWereEaten
<1> QED
  BY <1>1, Invariance, PTL

=============================================================================
