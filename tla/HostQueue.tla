------------------------------ MODULE HostQueue ------------------------------
(***************************************************************************)
(* The host event queue of app/run_loop.rs.  Platform callbacks on other   *)
(* threads push focus changes, caret reports and pressed keys; the host    *)
(* loop drains a bounded batch per turn, drops the caret reads a later one *)
(* makes redundant, and handles the rest with the lock released.  A full   *)
(* queue makes room by dropping its oldest focus or caret report.          *)
(*                                                                         *)
(* Each report is numbered as it is made.  The queue only grows at its     *)
(* back, so a set of numbered events is the sequence the code keeps.       *)
(***************************************************************************)
EXTENDS Integers, FiniteSets

CONSTANTS
    None,
    Fields,   \* the text fields of the desktop
    Cap,      \* MAX_HOST_EVENT_QUEUE
    PerTick,  \* MAX_HOST_EVENTS_PER_TICK
    Reports   \* Nat, or a bounded prefix: the reports a behaviour may make

ASSUME QueueAssumption ==
    /\ Cap \in Nat \ {0} /\ PerTick \in Nat \ {0}
    /\ Reports \subseteq Nat
    /\ None \notin Fields

VARIABLES
    queue,      \* host_events
    batch,      \* what a turn has drained and not handled yet
    reported,   \* history: the number of reports so far
    lastFocus,  \* history: the last focus report of each field, or 0
    owed,       \* history: accepted key presses not handled yet
    lost        \* history: the focus reports dropped or refused

vars == <<queue, batch, reported, lastFocus, owed, lost>>

Kinds == {"Focus", "Caret", "Key"}

\* "of" is history: the focus report of its field a caret report came after.
Event == [kind : Kinds, field : Fields \cup {None}, id : Nat, of : Nat]

\* host_event_is_backpressure_droppable
Droppable(e) == e.kind \in {"Focus", "Caret"}

Before(a, b) == a.id < b.id

Oldest(S) == CHOOSE e \in S : \A o \in S : e.id <= o.id


Full == Cardinality(queue) >= Cap

\* Mutant: every caret of the field goes, also those of a later focus.
AllOfField(d) ==
    {c \in queue : d.kind = "Focus" /\ c.kind = "Caret" /\ c.field = d.field}

\* The carets that lose their focus with it: those queued between it and the
\* next focus on its field.
Dependents(d) ==
    {c \in queue :
        /\ d.kind = "Focus" /\ c.kind = "Caret" /\ c.field = d.field
        /\ Before(d, c)
        /\ ~\E r \in queue : /\ r.kind = "Focus" /\ r.field = d.field
                             /\ Before(d, r) /\ Before(r, c)}

\* Mutant: the oldest event goes, whatever it is.
AnyVictim == queue

\* What a full queue gives up: its oldest report, never a key.
Victims == {e \in queue : Droppable(e)}

----------------------------------------------------------------------------
(* Pushes. *)

Enqueued(e) ==
    \/ /\ ~Full
       /\ queue' = queue \cup {e}
       /\ lost' = lost
    \/ /\ Full /\ Victims # {}
       /\ LET d == Oldest(Victims) IN
            /\ queue' = (queue \ ({d} \cup Dependents(d))) \cup {e}
            /\ lost' = IF d.kind = "Focus" THEN lost \cup {d.id} ELSE lost

Refused(e) ==
    /\ Full /\ Victims = {}
    /\ queue' = queue
    /\ lost' = IF e.kind = "Focus" THEN lost \cup {e.id} ELSE lost

Report(kind, f, of) ==
    [kind |-> kind, field |-> f, id |-> reported + 1, of |-> of]

Reporting ==
    /\ reported + 1 \in Reports
    /\ reported' = reported + 1
    /\ UNCHANGED batch

ReportFocus(f) ==
    /\ Reporting
    /\ LET e == Report("Focus", f, 0) IN Enqueued(e) \/ Refused(e)
    /\ lastFocus' = [lastFocus EXCEPT ![f] = reported + 1]
    /\ UNCHANGED owed

ReportCaret(f) ==
    /\ Reporting
    /\ LET e == Report("Caret", f, lastFocus[f]) IN Enqueued(e) \/ Refused(e)
    /\ UNCHANGED <<lastFocus, owed>>

PressKey ==
    /\ Reporting
    /\ LET e == Report("Key", None, 0) IN
        \/ Enqueued(e) /\ owed' = owed \cup {e.id}
        \/ Refused(e) /\ owed' = owed
    /\ UNCHANGED lastFocus

----------------------------------------------------------------------------
(* The turn of the host loop. *)

\* Mutant: the batch is taken from the back.
DrainedFromBack ==
    {e \in queue : Cardinality({o \in queue : Before(e, o)}) < PerTick}

Drained == {e \in queue : Cardinality({o \in queue : Before(o, e)}) < PerTick}

Adjacent(c, n, S) ==
    Before(c, n) /\ ~\E o \in S : Before(c, o) /\ Before(o, n)

\* Mutant: a caret is redundant whenever a later one of its field follows.
CoalescedAcross(S) ==
    {e \in S : ~\E n \in S : /\ Before(e, n)
                             /\ e.kind = "Caret" /\ n.kind = "Caret"
                             /\ n.field = e.field}

\* coalesce_caret_reads: of a run of carets of one field the last remains.
Coalesced(S) ==
    {e \in S : ~\E n \in S : /\ Adjacent(e, n, S)
                             /\ e.kind = "Caret" /\ n.kind = "Caret"
                             /\ n.field = e.field}

Drain ==
    /\ batch = {} /\ queue # {}
    /\ queue' = queue \ Drained
    /\ batch' = Coalesced(Drained)
    /\ UNCHANGED <<reported, lastFocus, owed, lost>>

\* What is left of the batch when its event e has been handled.
Rest(e) == batch \ {e}

Handle ==
    /\ batch # {}
    /\ LET e == Oldest(batch) IN
        /\ batch' = Rest(e)
        /\ owed' = owed \ {e.id}
    /\ UNCHANGED <<queue, reported, lastFocus, lost>>

Init ==
    /\ queue = {} /\ batch = {} /\ reported = 0
    /\ lastFocus = [f \in Fields |-> 0]
    /\ owed = {} /\ lost = {}

Next ==
    \/ \E f \in Fields : ReportFocus(f) \/ ReportCaret(f)
    \/ PressKey \/ Drain \/ Handle

Spec == Init /\ [][Next]_vars

----------------------------------------------------------------------------
(* Properties. *)

\* Types and bounds: the queue never outgrows its cap.
TypeOK ==
    /\ queue \subseteq Event /\ batch \subseteq Event
    /\ IsFiniteSet(queue) /\ Cardinality(queue) <= Cap
    /\ reported \in Nat /\ lastFocus \in [Fields -> Nat]
    /\ owed \subseteq Nat /\ lost \subseteq Nat

\* A key press that push_host_event has accepted is never lost: until it is
\* handled it is in the queue or in the batch, whatever pressure drops.
KeysAreKept == owed = {e.id : e \in {k \in queue \cup batch : k.kind = "Key"}}

\* Keys are handled in the order they were pressed.
KeysInOrder == [][\A k \in owed \ owed' : \A j \in owed : k <= j]_vars

\* Making room drops one report and, if it is a focus, exactly the carets that
\* were reported after it and before the field's next focus: no caret of a
\* later focus goes, and none stays behind (enqueue_host_event).
PrunesItsOwnCarets ==
    [][reported' # reported =>
        LET gone == queue \ queue' IN
        gone # {} =>
            \E d \in gone :
                /\ d.kind # "Key"
                /\ gone = {d} \cup (IF d.kind = "Focus"
                                    THEN {c \in queue : c.of = d.id} ELSE {})]_vars

\* The newest caret report of each field in S before the number n.
LastReads(S, n) ==
    {c \in S : /\ c.kind = "Caret" /\ c.id < n
               /\ ~\E o \in S : /\ o.kind = "Caret" /\ o.field = c.field
                                /\ Before(c, o) /\ o.id < n}

\* Coalescing is invisible: at every key and focus change of a batch, and at
\* its end, the last read of every field is the one it would have been.
CoalescingIsInvisible ==
    [][(batch = {} /\ batch' # {}) =>
        LET taken == queue \ queue' IN
        \A n \in {e.id : e \in {t \in taken : t.kind # "Caret"}} \cup {reported + 1} :
            LastReads(batch', n) = LastReads(taken, n)]_vars

\* The test host_event_queue_never_orphans_caret_when_dropping_focus: "a
\* retained caret must keep its preceding focus boundary".
NoOrphanCaret == \A c \in queue : c.kind = "Caret" => c.of \notin lost
=============================================================================
