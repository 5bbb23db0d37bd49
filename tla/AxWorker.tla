------------------------------- MODULE AxWorker -------------------------------
(***************************************************************************)
(* One focus subscription of the macOS adapter (platform_macos/ax_worker.rs *)
(* and subscribe_focus of platform_macos/lib.rs) and the threads behind it: *)
(*                                                                         *)
(*   - the AX worker, the only thread that talks to the accessibility API:  *)
(*     it takes one message at a time from its channel (inbox);            *)
(*   - the rebind poller, which keeps one observer on the frontmost app;    *)
(*   - the safety poller of each binding, which asks the worker four times  *)
(*     a second what is focused;                                            *)
(*   - the callback dispatcher, which calls the subscriber.                 *)
(*                                                                         *)
(* The user moves the focus and switches apps; macOS may lose a focus       *)
(* notification.  Element identities are abstract; an identity read that    *)
(* fails leaves only the element's address ("whole" is FALSE).  The caret   *)
(* subscription runs the same code over another target and is not           *)
(* modelled, nor are the jobs of the adapter's reads (Message::Run).        *)
(***************************************************************************)
EXTENDS Naturals, FiniteSets, Sequences, SequencesExt

CONSTANTS Apps,        \* process ids the user may bring to the front
          Elements,    \* elements that may have the focus in an app
          NoApp,       \* the provider's None
          NoElement,   \* no identity recorded
          MaxSteps,    \* bound: app switches and focus moves by the user
          MaxQueue,    \* bound: messages of a channel a safety poll adds to
          MaxFaults    \* bound: accessibility calls that fail

ASSUME NoAppAssumption == NoApp \notin Apps
ASSUME NoElementAssumption == NoElement \notin Elements

VARIABLES
  front,      \* what frontmost_pid() returns
  focused,    \* the element with the focus in each app
  posted,     \* notifications macOS has queued for the worker's run loop
  worker,     \* "running" or "stopped"
  inbox,      \* the worker's channel
  resources,  \* observers registered with the accessibility API
  retained,   \* CFRetains taken by the callback and not balanced yet
  memo,       \* last_focused_poll of each app
  calls,      \* the callback dispatcher's channel
  told,       \* current_identity_key: the field the subscriber was last given
  active,     \* the subscription has not been cancelled
  bound,      \* the rebinder's current binding
  rebind,     \* where the rebind poller is, and the binding it prepared
  nextId,     \* next_resource_id
  visits,     \* history: how often the user brought each app to the front
  steps, faults

axVars == <<front, focused, posted, worker, inbox, resources, retained, memo,
            calls, told, active, bound, rebind, nextId, visits,
            steps, faults>>

system == <<front, focused, visits, steps>>
observers == <<posted, resources, retained, memo>>
consumer == <<calls, told, active>>
binder == <<bound, rebind, nextId>>

NoBinding == [pid |-> NoApp, id |-> 0]
Unknown == [el |-> NoElement, whole |-> FALSE]

Message(kind, pid, id, el) == [kind |-> kind, pid |-> pid, id |-> id, el |-> el]
ObserverEvent(pid, id, el) == Message("event", pid, id, el)
Poll(b) == Message("poll", b.pid, b.id, NoElement)
Install(b) == Message("install", b.pid, b.id, NoElement)
Removal(b) == Message("remove", b.pid, b.id, NoElement)
Stop == Message("stop", NoApp, 0, NoElement)

\* A send to a worker that has exited fails and changes nothing.
Sent(ms) == IF worker = "running" THEN inbox \o ms ELSE inbox

\* Dropping a binding drops its observer resource; NoBinding has none.
DropOf(b) == IF b = NoBinding THEN <<>> ELSE <<Removal(b)>>

Faulty(failed) == faults' = IF failed THEN faults + 1 ELSE faults
MayFail == IF faults < MaxFaults THEN BOOLEAN ELSE {FALSE}

-----------------------------------------------------------------------------
(* The user and the system *)

\* The user brings another app, or none, to the front.
SwitchTo(p) ==
  /\ front # p
  /\ steps < MaxSteps
  /\ front' = p
  /\ visits' = [visits EXCEPT ![p] = @ + 1]
  /\ steps' = steps + 1
  /\ UNCHANGED <<focused, worker, inbox, faults>>
  /\ UNCHANGED observers /\ UNCHANGED consumer /\ UNCHANGED binder

\* The focus moves inside an app; macOS notifies the app's observers, or not.
MoveFocus(p, e) ==
  /\ focused[p] # e
  /\ steps < MaxSteps
  /\ focused' = [focused EXCEPT ![p] = e]
  /\ steps' = steps + 1
  /\ \E heard \in SUBSET {r \in resources : r.pid = p} :
       posted' = posted \o SetToSeq({[pid |-> p, id |-> r.id, el |-> e] : r \in heard})
  /\ UNCHANGED <<front, visits, worker, inbox, resources, retained, memo, faults>>
  /\ UNCHANGED consumer /\ UNCHANGED binder

-----------------------------------------------------------------------------
(* The AX worker *)

\* The worker pumps its run loop between messages: ax_observer_callback retains
\* the element and queues an event for the worker itself.
Callback ==
  /\ worker = "running" /\ posted # <<>>
  /\ posted' = Tail(posted)
  /\ LET n == Head(posted) IN inbox' = Append(inbox, ObserverEvent(n.pid, n.id, n.el))
  /\ retained' = retained + 1
  /\ UNCHANGED <<worker, resources, memo, faults>>
  /\ UNCHANGED system /\ UNCHANGED consumer /\ UNCHANGED binder

Receives(kind) == worker = "running" /\ inbox # <<>> /\ Head(inbox).kind = kind

\* Mutant: the drain keeps the superseded members' retains.
ReleasesTheNewest(n) == 1

\* The drain releases each superseded element, the resolution the newest one.
Released(n) == n

\* Mutant: only the safety poll writes its memo (the code before G21).
ForgetsWhatWasTold(pid, seen) == memo

\* remember_dispatched_poll.
Remembered(pid, seen) == [memo EXCEPT ![pid] = seen]

\* The contiguous events of one app collapse into the newest.
Burst == LET p == Head(inbox).pid
         IN  Max({n \in 1 .. Len(inbox) :
                    \A i \in 1 .. n : inbox[i].kind = "event" /\ inbox[i].pid = p})

WorkerEvent ==
  /\ Receives("event")
  /\ \E failed \in MayFail :
       LET newest == inbox[Burst]
           seen   == [el |-> newest.el, whole |-> ~failed]
       IN  /\ memo' = Remembered(newest.pid, seen)
           /\ calls' = Append(calls, [pid |-> newest.pid, seen |-> seen])
           /\ Faulty(failed)
  /\ retained' = retained - Released(Burst)
  /\ inbox' = SubSeq(inbox, Burst + 1, Len(inbox))
  /\ UNCHANGED <<worker, posted, resources, told, active>>
  /\ UNCHANGED system /\ UNCHANGED binder

\* A failed poll is dropped; an identity the memo already holds is not
\* announced again.
WorkerPoll ==
  /\ Receives("poll")
  /\ inbox' = Tail(inbox)
  /\ \E failed \in MayFail :
       LET p    == Head(inbox).pid
           seen == [el |-> focused[p], whole |-> TRUE]
       IN  /\ IF failed \/ memo[p] = seen
              THEN UNCHANGED <<memo, calls>>
              ELSE /\ memo' = [memo EXCEPT ![p] = seen]
                   /\ calls' = Append(calls, [pid |-> p, seen |-> seen])
           /\ Faulty(failed)
  /\ UNCHANGED <<worker, posted, resources, retained, told, active>>
  /\ UNCHANGED system /\ UNCHANGED binder

\* The installer registers an observer and answers the rebind poller.
WorkerInstall ==
  /\ Receives("install")
  /\ inbox' = Tail(inbox)
  /\ \E failed \in MayFail :
       LET b == [pid |-> Head(inbox).pid, id |-> Head(inbox).id]
       IN  /\ resources' = IF failed THEN resources ELSE resources \cup {b}
           /\ rebind' = [rebind EXCEPT !.at = "swap",
                                       !.next = IF failed THEN NoBinding ELSE b]
           /\ Faulty(failed)
  /\ UNCHANGED <<worker, posted, retained, memo, bound, nextId>>
  /\ UNCHANGED system /\ UNCHANGED consumer

\* Dropping the resource unregisters it, with what macOS had queued for it.
WorkerRemove ==
  /\ Receives("remove")
  /\ inbox' = Tail(inbox)
  /\ resources' = {r \in resources : r.id # Head(inbox).id}
  /\ posted' = SelectSeq(posted, LAMBDA n : n.id # Head(inbox).id)
  /\ UNCHANGED <<worker, retained, memo, faults>>
  /\ UNCHANGED system /\ UNCHANGED consumer /\ UNCHANGED binder

\* Mutant: the reply channel of a queued install outlives the loop.
WaitsForever(r) == r

\* An installer still waiting loses its reply, and the installation fails.
Unanswered(r) == IF r.at = "asked" THEN [r EXCEPT !.at = "swap", !.next = NoBinding]
                 ELSE r

\* The loop ends: its resources are dropped, and with its receiver every queued
\* message.
WorkerStop ==
  /\ Receives("stop")
  /\ worker' = "stopped"
  /\ resources' = {}
  /\ posted' = <<>>
  /\ inbox' = <<>>
  /\ rebind' = Unanswered(rebind)
  /\ UNCHANGED <<retained, memo, bound, nextId, faults>>
  /\ UNCHANGED system /\ UNCHANGED consumer

Worker == \/ Callback \/ WorkerEvent \/ WorkerPoll
          \/ WorkerInstall \/ WorkerRemove \/ WorkerStop

-----------------------------------------------------------------------------
(* The pollers and the dispatcher *)

\* The bindings whose safety poller runs: the current one and, from its
\* installation on, the one the rebinder is about to publish.
Polled == {bound, rebind.next} \ {NoBinding}

\* A tick of a safety poller.  A tick that would only queue a second copy of
\* its own message is left out: it bounds the channel.
SafetyPoll(b) ==
  /\ worker = "running"
  /\ Len(inbox) < MaxQueue /\ Len(calls) < MaxQueue
  /\ \A i \in DOMAIN inbox : inbox[i] # Poll(b)
  /\ inbox' = Sent(<<Poll(b)>>)
  /\ UNCHANGED <<worker, faults>>
  /\ UNCHANGED system /\ UNCHANGED observers /\ UNCHANGED consumer /\ UNCHANGED binder

\* Mutant: a poller left without a binding by a failed install gives up.
GivesUpUnbound(desired) == bound # NoBinding /\ desired # bound.pid

\* The poller acts when the frontmost app is not the one it is bound to.
NeedsRebind(desired) == desired # bound.pid

\* A tick of the rebind poller: it asks the worker for an observer of the
\* frontmost app and waits; with no app there is nothing to install.
RebindTick ==
  /\ rebind.at = "idle" /\ active
  /\ NeedsRebind(front)
  /\ LET b     == [pid |-> front, id |-> nextId]
         asks  == front # NoApp /\ worker = "running"
     IN  /\ rebind' = [at   |-> IF asks THEN "asked" ELSE "swap",
                       was  |-> bound.pid,
                       next |-> NoBinding]
         /\ inbox' = IF asks THEN Sent(<<Install(b)>>) ELSE inbox
         /\ nextId' = IF asks THEN nextId + 1 ELSE nextId
  /\ UNCHANGED <<worker, bound, faults>>
  /\ UNCHANGED system /\ UNCHANGED observers /\ UNCHANGED consumer

\* Replacing a binding drops it.
Dropped(old) == DropOf(old)

\* The rebind poller has its answer: it publishes the new binding, or none, if
\* the current one is still what it read.
RebindSwap ==
  /\ rebind.at = "swap"
  /\ LET publishes == bound.pid = rebind.was
     IN  /\ bound' = IF publishes THEN rebind.next ELSE bound
         /\ inbox' = Sent(Dropped(IF publishes THEN bound ELSE rebind.next))
  /\ rebind' = [rebind EXCEPT !.at = "idle", !.next = NoBinding]
  /\ UNCHANGED <<worker, nextId, faults>>
  /\ UNCHANGED system /\ UNCHANGED observers /\ UNCHANGED consumer

\* The cancelled subscription joins the rebind poller between two ticks, then
\* drops the current binding.
CancelEnds ==
  /\ ~active /\ rebind.at = "idle"
  /\ rebind' = [rebind EXCEPT !.at = "ended"]
  /\ bound' = NoBinding
  /\ inbox' = Sent(DropOf(bound))
  /\ UNCHANGED <<worker, nextId, faults>>
  /\ UNCHANGED system /\ UNCHANGED observers /\ UNCHANGED consumer

\* The dispatcher runs the subscription's closure: a cancelled subscription, an
\* app that is not in front and a field already told are dropped.
Dispatch ==
  /\ calls # <<>>
  /\ calls' = Tail(calls)
  /\ told' = IF active /\ front = Head(calls).pid THEN Head(calls) ELSE told
  /\ UNCHANGED <<active, worker, inbox, faults>>
  /\ UNCHANGED system /\ UNCHANGED observers /\ UNCHANGED binder

-----------------------------------------------------------------------------
(* The host *)

Cancel ==
  /\ active
  /\ active' = FALSE
  /\ UNCHANGED <<calls, told, worker, inbox, faults>>
  /\ UNCHANGED system /\ UNCHANGED observers /\ UNCHANGED binder

\* The adapter's shutdown; the host joins the worker before anything else.
Shutdown ==
  /\ worker = "running"
  /\ \A i \in DOMAIN inbox : inbox[i] # Stop
  /\ inbox' = Sent(<<Stop>>)
  /\ UNCHANGED <<worker, faults>>
  /\ UNCHANGED system /\ UNCHANGED observers /\ UNCHANGED consumer /\ UNCHANGED binder

\* subscribe_focus has returned: one observer on the frontmost app.
AxInit ==
  /\ front = CHOOSE p \in Apps : TRUE
  /\ focused = [p \in Apps |-> CHOOSE e \in Elements : TRUE]
  /\ posted = <<>>
  /\ worker = "running"
  /\ inbox = <<>>
  /\ bound = [pid |-> front, id |-> 1]
  /\ resources = {bound}
  /\ retained = 0
  /\ memo = [p \in Apps |-> Unknown]
  /\ calls = <<>>
  /\ told = [pid |-> NoApp, seen |-> Unknown]
  /\ active = TRUE
  /\ rebind = [at |-> "idle", was |-> NoApp, next |-> NoBinding]
  /\ nextId = 2
  /\ visits = [p \in Apps \cup {NoApp} |-> IF p = front THEN 1 ELSE 0]
  /\ steps = 0 /\ faults = 0

User == \/ \E p \in Apps \cup {NoApp} : SwitchTo(p)
        \/ \E p \in Apps, e \in Elements : MoveFocus(p, e)

Threads == Worker \/ RebindTick \/ RebindSwap \/ CancelEnds \/ Dispatch

AxNext == \/ User \/ Threads \/ Cancel \/ Shutdown
          \/ \E b \in Polled : SafetyPoll(b)

\* Every thread runs when it can: the operating system schedules them, channels
\* wake their receivers and the pollers wake on a timer.
Fairness ==
  /\ WF_axVars(Worker)
  /\ WF_axVars(RebindTick) /\ WF_axVars(RebindSwap) /\ WF_axVars(CancelEnds)
  /\ WF_axVars(Dispatch)
  /\ WF_axVars(\E b \in Polled : SafetyPoll(b))

AxSpec == AxInit /\ [][AxNext]_axVars /\ Fairness

-----------------------------------------------------------------------------
(* Properties *)

Queued(kind) == {i \in DOMAIN inbox : inbox[i].kind = kind}

\* While the worker runs, the retains that the callback took are exactly those
\* of the events still queued: the drain of a burst, the resolution and a failed
\* resolution each give back what they took, once (ax_worker.rs 1676-1685).
RetainsAreBalanced == worker = "running" => retained = Cardinality(Queued("event"))

\* No observer stays registered without an owner: each is the current binding's
\* or the prepared one's, or its removal is queued.
NoOrphanObserver ==
  \A r \in resources : r \in {bound, rebind.next} \/ \E i \in Queued("remove") : inbox[i].id = r.id

\* Nothing the worker took from the system is left without an owner, neither a
\* retained element nor a registered observer.
NothingLeaks == RetainsAreBalanced /\ NoOrphanObserver

Serving == active /\ worker = "running"

\* When the user stays in an app, the subscription ends up with exactly one
\* observer, on that app, whatever installs failed on the way.
BindingFollowsTheUser ==
  \A p \in Apps :
    <>[](front = p /\ Serving /\ Queued("stop") = {})
      => <>[](bound.pid = p /\ resources = {bound})

Rests(p, e) == front = p /\ focused[p] = e /\ Serving /\ Queued("stop") = {}
Told(p, e) == told = [pid |-> p, seen |-> [el |-> e, whole |-> TRUE]]

\* On the first visit to an app the subscriber ends up with the focused field,
\* even when macOS loses notifications, reads fail and an old notification
\* arrives after a newer poll (the safety poll of G6 and its memo of G21).
FocusIsTold ==
  \A p \in Apps, e \in Elements :
    <>[](Rests(p, e) /\ visits[p] = 1) => <>[]Told(p, e)

\* The same for every visit: "the 4 Hz safety poll exists to catch focus the
\* callbacks missed" (ax_worker.rs 834) and "a later return to a previous state
\* still reads as a change" (1083).
ReturnIsTold ==
  \A p \in Apps, e \in Elements : <>[]Rests(p, e) => <>[]Told(p, e)

\* A cancelled subscription, and a stopped worker, leave no observer, no thread
\* waiting for an answer that never comes and no binding.
TeardownEnds ==
  /\ ~active ~> (rebind.at = "ended" /\ bound = NoBinding /\ resources = {})
  /\ (Queued("stop") # {}) ~> (worker = "stopped" /\ resources = {} /\ rebind.at # "asked")
=============================================================================
