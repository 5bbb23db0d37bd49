----------------------------- MODULE TypedMemory -----------------------------
(***************************************************************************)
(* What the host remembers of what is typed (app/src/run_loop.rs): the     *)
(* reports of focus, caret and accept are handled against the tracker, the *)
(* insertions wait in pending until the policy of the turn is known, they  *)
(* are put together in one buffer per field up to a blank, and a finished  *)
(* run goes to the store. The user erases, changes modes and policies, and *)
(* the host's own insertions come back as reads of the field.              *)
(***************************************************************************)
EXTENDS FieldTracker, MemoryStore

CONSTANTS
    AppOf,         \* the application of a field
    Browsers,      \* the applications whose pages have a domain
    Excluded,      \* the domains the user excluded
    BufferCap,     \* MAX_MONITORED_BUFFER_CHARS
    KeyFields,     \* the fields that take an insertion as key events, later
    MaxReports, MaxTyped, MaxAccepts, MaxChanges, MaxErases    \* bounds

ASSUME BoundsAssumption ==
    /\ {BufferCap, MaxReports} \subseteq Nat \ {0}
    /\ {MaxRecords, RingCapacity} \subseteq Nat

\* An application and a domain are columns of their own: their names cannot meet.
ASSUME ScopeAssumption ==
    /\ AppOf \in [Fields -> Apps] /\ NoField \notin Fields
    /\ Apps \cap Domains = {} /\ NoDomain \notin Apps \cup Domains

VARIABLES
    text, page, target, reports, synthetic,         \* the system
    domain,                                         \* the cached domain
    pending, buffers,                               \* MonitoredInput
    mode, enabled, wasEnabled, allowed,             \* the policy
    secureInput, secure, wasSecure,
    phase,                                          \* of the turn
    run, era, erased,                               \* history, see below
    budget

systemVars == <<text, page, target, reports, synthetic>>
policyVars == <<mode, enabled, wasEnabled, allowed, secureInput, secure, wasSecure>>
history == <<run, era, erased>>
vars == <<trackerVars, storeVars, systemVars, domain, pending, buffers,
          policyVars, phase, history, budget>>

Pieces == {<<"k">>, <<"k", "k">>, <<Blank>>}     \* typed or pasted at once
Set == {"g", "G"}         \* written by the host, and what the application adds to it
Sent == "s"               \* sent by the host as a key event
Meant(f) == IF f \in KeyFields THEN <<Sent>> ELSE <<"g">>
NoBuffer == [kind |-> "none"]
NoCache == [app |-> "none", host |-> NoDomain]
EmptyRun == [size |-> 0, domain |-> NoDomain]

(***************************************************************************)
(* History. run counts the characters inserted in a field since the last   *)
(* blank, page or policy transition; era counts the erasures, and erased   *)
(* holds the era of the last one of an app or a domain. What is remembered *)
(* is stamped with its size in run, its era and whether it was allowed to  *)
(* be remembered when it was read.                                         *)
(***************************************************************************)

HasBlank(chars) == \E i \in DOMAIN chars : chars[i] = Blank
Spend(kind) == budget[kind] > 0 /\ budget' = [budget EXCEPT ![kind] = @ - 1]

(***************************************************************************)
(* The policy of the host.                                                 *)
(***************************************************************************)

CollectionActive == mode # "off" /\ handle # "closed"
MonitoredActive == mode = "all" /\ handle # "closed"

CollectionGates(item) ==
    /\ enabled /\ item.app \in allowed
    /\ item.app \in Browsers /\ Excluded # {} => item.domain # NoDomain
    /\ item.domain \notin Excluded

DomainIn(entry, f) == IF entry.app = AppOf[f] THEN entry.host ELSE NoDomain

\* The page of a browser is read, which can fail; other fields have none.
PageEntry(f, failed) ==
    IF AppOf[f] \in Browsers /\ ~failed THEN [app |-> AppOf[f], host |-> page] ELSE NoCache

\* It is read again for each edit when it may matter.
TypingEntry(f, failed) ==
    IF AppOf[f] \in Browsers /\ (CollectionActive \/ Excluded # {})
    THEN PageEntry(f, failed) ELSE domain

\* A policy transition drops what waits; run, the length of what should be in
\* the buffer, restarts with it.
Dropped == pending' = <<>> /\ buffers' = [f \in Fields |-> NoBuffer]
ClearMonitored == Dropped /\ run' = [f \in Fields |-> EmptyRun]

(***************************************************************************)
(* The system: the user types, navigates and moves the focus. The policy   *)
(* reads none of it, so that only what comes before the handling is taken. *)
(***************************************************************************)

Report(report) ==
    /\ phase = "events"
    /\ Len(reports) < MaxReports
    /\ reports' = IF reports # <<>> /\ Last(reports) = report THEN reports
                  ELSE Append(reports, report)

UserTypes ==
    /\ Spend("typed")
    /\ Report([kind |-> "caret", field |-> target])
    /\ \E piece \in Pieces : text' = [text EXCEPT ![target] = @ \o piece]
    /\ UNCHANGED <<trackerVars, storeVars, page, target, synthetic, domain, pending, buffers,
                   policyVars, phase, history>>

UserNavigates ==
    /\ AppOf[target] \in Browsers
    /\ Spend("changes")
    /\ Report([kind |-> "caret", field |-> target])
    /\ \E d \in Domains \ {page} : page' = d
    /\ text' = [text EXCEPT ![target] = <<>>]
    /\ UNCHANGED <<trackerVars, storeVars, target, synthetic, domain, pending, buffers,
                   policyVars, phase, history>>

UserFocuses ==
    /\ \E f \in Fields \ {target} :
        /\ target' = f
        /\ Report([kind |-> "focus", field |-> f])
    /\ Spend("changes")
    /\ UNCHANGED <<trackerVars, storeVars, text, page, synthetic, domain, pending, buffers,
                   policyVars, phase, history>>

UserAccepts ==
    /\ Spend("accepts")
    /\ Report([kind |-> "accept", field |-> target])
    /\ UNCHANGED <<trackerVars, storeVars, text, page, target, synthetic, domain, pending, buffers,
                   policyVars, phase, history>>

FieldTakesKeys ==
    /\ synthetic # {}
    /\ \E f \in synthetic :
        /\ synthetic' = synthetic \ {f}
        /\ text' = [text EXCEPT ![f] = Append(@, Sent)]
        /\ Report([kind |-> "caret", field |-> f])
    /\ UNCHANGED <<trackerVars, storeVars, page, target, domain, pending, buffers,
                   policyVars, phase, history, budget>>

SystemSecures ==
    /\ Spend("changes")
    /\ secureInput' = ~secureInput
    /\ UNCHANGED <<trackerVars, storeVars, systemVars, domain, pending, buffers,
                   mode, enabled, wasEnabled, allowed, secure, wasSecure, phase, history>>

System == UserTypes \/ UserNavigates \/ UserFocuses \/ UserAccepts
          \/ FieldTakesKeys \/ SystemSecures

(***************************************************************************)
(* The events of a turn.                                                   *)
(***************************************************************************)

Handling(kind) ==
    /\ phase = "events" /\ reports # <<>> /\ Head(reports).kind = kind
    /\ UNCHANGED <<policyVars, phase, era, erased>>

\* Each of the reads of an event can fail.
Reads(failure) == IF failure THEN Spend("changes") ELSE UNCHANGED budget

HandleFocus == \E textFails, pageFails \in BOOLEAN :
    /\ Handling("focus") /\ Reads(textFails \/ pageFails)
    /\ reports' = Tail(reports)
    /\ ClearMonitored
    /\ LET f == Head(reports).field
       IN  /\ domain' = PageEntry(f, pageFails)
           /\ rings' = IF AppOf[f] \in allowed THEN Hydrated(AppOf[f]) ELSE rings
           /\ IF MonitoredActive /\ ~textFails THEN Observe(f, text[f]) ELSE ResetTracker
    /\ UNCHANGED <<rows, handle, crossRing, text, page, target, synthetic>>

Enqueued(f, inserted, host) ==
    LET oversized == Len(inserted) > BufferCap
        allows == MonitoredActive /\ ~secure /\ CollectionGates([app |-> AppOf[f], domain |-> host])
        item == [field |-> f, app |-> AppOf[f], domain |-> host, oversized |-> oversized,
                 text |-> IF ~oversized THEN inserted ELSE IF HasBlank(inserted) THEN <<Blank>> ELSE <<>>,
                 size |-> Len(inserted), at |-> era, agreed |-> allows]
    IN  IF inserted = <<>> THEN pending ELSE Append(pending, item)

HandleCaret == \E textFails, pageFails \in BOOLEAN :
    /\ Handling("caret") /\ Reads(textFails \/ pageFails)
    /\ reports' = Tail(reports)
    /\ LET f == Head(reports).field
       IN /\ IF textFails THEN UNCHANGED trackerVars ELSE Observe(f, text[f])
          /\ IF textFails \/ IsMove(f, text[f]) THEN UNCHANGED <<domain, pending>>
             ELSE LET entry == TypingEntry(f, pageFails)
                  IN  /\ domain' = entry
                      /\ pending' = IF MonitoredActive
                                    THEN Enqueued(f, Inserted(f, text[f]), DomainIn(entry, f))
                                    ELSE pending
    /\ UNCHANGED <<storeVars, text, page, target, synthetic, buffers, run>>

\* A full accept is remembered, a word is not; the insertion may have failed.
AcceptedRecord(f) ==
    [app |-> AppOf[f], domain |-> DomainIn(domain, f), kind |-> "accepted", text |-> Meant(f),
     size |-> 1, at |-> era, agreed |-> TRUE]

RecordFullAccept(f) ==
    IF AppOf[f] \in allowed
    THEN /\ rings' = [rings EXCEPT ![AppOf[f]] = Recent(@, AcceptedRecord(f))]
         /\ crossRing' = Recent(crossRing, AcceptedRecord(f))
         /\ rows' = Remembered(rows, AcceptedRecord(f))
    ELSE UNCHANGED <<rings, crossRing, rows>>

\* The field holds the text now, as written or as its app changed it, or the
\* keys are on their way.
Insert(f) ==
    IF f \in KeyFields
    THEN synthetic' = synthetic \cup {f} /\ reports' = Tail(reports) /\ UNCHANGED text
    ELSE /\ \E taken \in {<<"g">>, <<"g", "G">>} : text' = [text EXCEPT ![f] = @ \o taken]
         /\ reports' = Append(Tail(reports), [kind |-> "caret", field |-> f])
         /\ UNCHANGED synthetic

HandleAccept ==
    /\ Handling("accept") /\ UNCHANGED budget
    /\ LET f == Head(reports).field
       IN  \/ /\ Insert(f) /\ ApplySelfInsert(f, Meant(f))
             /\ \/ RecordFullAccept(f)
                \/ UNCHANGED <<rings, crossRing, rows>>
          \/ /\ reports' = Tail(reports)
             /\ UNCHANGED <<trackerVars, rings, crossRing, rows, text, synthetic>>
    /\ UNCHANGED <<handle, page, target, domain, pending, buffers, run>>

EndEvents ==
    /\ phase = "events"
    /\ phase' = "policy"
    /\ UNCHANGED <<trackerVars, storeVars, systemVars, domain, pending, buffers, policyVars,
                   history, budget>>

Events == HandleFocus \/ HandleCaret \/ HandleAccept \/ EndEvents

(***************************************************************************)
(* The policy of a turn: what the user asked for in the menu, the settings *)
(* and the panes since the turn before.                                    *)
(***************************************************************************)

InPolicy(kind) ==
    /\ phase = "policy" /\ Spend(kind)
    /\ UNCHANGED <<trackerVars, systemVars, domain, phase>>

ToggleGlobal ==
    /\ InPolicy("changes")
    /\ enabled' = ~enabled
    /\ ClearMonitored
    /\ UNCHANGED <<storeVars, mode, wasEnabled, allowed, secureInput, secure, wasSecure, era, erased>>

\* The menu's own switch is a bare flag; only its edge is seen, in EndTurn.
TrayToggle ==
    /\ InPolicy("changes")
    /\ enabled' = ~enabled
    /\ UNCHANGED <<storeVars, pending, buffers, mode, wasEnabled, allowed, secureInput, secure,
                   wasSecure, history>>

ToggleCollection ==
    /\ InPolicy("changes")
    /\ LET a == AppOf[target]
       IN  allowed' = IF a \in allowed THEN allowed \ {a} ELSE allowed \cup {a}
    /\ ClearMonitored
    /\ UNCHANGED <<storeVars, mode, enabled, wasEnabled, secureInput, secure, wasSecure, era, erased>>

\* The row of an app in the settings; what waits is left as it is.
EditPolicy ==
    /\ InPolicy("changes")
    /\ \E a \in Apps : allowed' = IF a \in allowed THEN allowed \ {a} ELSE allowed \cup {a}
    /\ UNCHANGED <<storeVars, pending, buffers, mode, enabled, wasEnabled, secureInput, secure,
                   wasSecure, history>>

Poll ==
    /\ InPolicy("changes")
    /\ secure' = secureInput
    /\ UNCHANGED <<storeVars, pending, buffers, mode, enabled, wasEnabled, allowed, secureInput,
                   wasSecure, history>>

\* Mutant: the store keeps the mode that was not saved.
KeepsDesired(open, desired) == IF open THEN desired ELSE handle

AfterFailedSave(open, desired) == IF open THEN mode ELSE handle

\* The store is opened for the new mode, which can fail, then takes the mode;
\* when the setting cannot be saved the store goes back to the old one.
ChangeMode ==
    /\ InPolicy("changes")
    /\ \E desired \in Modes \ {mode}, opened, persisted \in BOOLEAN :
        IF handle = "closed" /\ desired # "off" /\ ~opened
        THEN UNCHANGED <<handle, rings, crossRing, mode, pending, buffers, run>>
        ELSE LET open == handle # "closed" \/ desired # "off"
             IN  IF persisted
                 THEN /\ handle' = IF open THEN desired ELSE handle
                      /\ mode' = desired
                      /\ ClearMonitored /\ ClearRings
                 ELSE /\ handle' = AfterFailedSave(open, desired)
                      /\ UNCHANGED <<rings, crossRing, mode, pending, buffers, run>>
    /\ UNCHANGED <<rows, enabled, wasEnabled, allowed, secureInput, secure, wasSecure, era, erased>>

\* A confirmed erasure whose deletion fails changes nothing.
Erasing(scopes) ==
    /\ handle # "closed"
    /\ era' = era + 1
    /\ erased' = [x \in DOMAIN erased |-> IF x \in scopes THEN era' ELSE erased[x]]
    /\ UNCHANGED <<handle, policyVars>>

EraseAll ==
    /\ InPolicy("erases") /\ Erasing(Apps)
    /\ DeleteAll /\ ClearRings
    /\ ClearMonitored

EraseApp ==
    /\ InPolicy("erases")
    /\ \E a \in {rows[i].app : i \in DOMAIN rows} :
        /\ Erasing({a})
        /\ DeleteApp(a) /\ ClearRing(a)
        /\ pending' = Only(pending, {item \in Range(pending) : item.app # a})
        /\ buffers' = [f \in Fields |-> IF AppOf[f] = a THEN NoBuffer ELSE buffers[f]]
        /\ run' = [f \in Fields |-> IF AppOf[f] = a THEN EmptyRun ELSE run[f]]

EraseDomain ==
    /\ InPolicy("erases")
    /\ \E d \in Domains :
        /\ Erasing({d})
        /\ DeleteDomain(d) /\ ClearRings
    /\ ClearMonitored

Policy == ToggleGlobal \/ TrayToggle \/ ToggleCollection \/ EditPolicy \/ Poll
          \/ ChangeMode \/ EraseAll \/ EraseApp \/ EraseDomain

(***************************************************************************)
(* The flush and the edges that end a turn, and the end of the process.    *)
(***************************************************************************)

SameScope(old, item) == old.kind # "none" /\ old.domain = item.domain
\* Mutant: the end of a run that was dropped is taken for a run.
NeverDropped(old, item) == FALSE

IsDropped(old, item) == SameScope(old, item) /\ old.kind = "dropped"

\* A buffer of another page is dropped, and so is one that outgrows its cap,
\* with all that follows up to a blank.
FlushItem(state, item) ==
    LET f == item.field
        old == state.buffers[f]
        sameScope == SameScope(old, item)
        size == item.size + IF state.run[f].domain = item.domain THEN state.run[f].size ELSE 0
        dropped == IsDropped(old, item)
        collected == IF sameScope /\ old.kind = "collecting"
                     THEN [old EXCEPT !.text = @ \o item.text, !.agreed = @ /\ item.agreed]
                     ELSE [kind |-> "collecting", app |-> item.app, domain |-> item.domain,
                           text |-> item.text, at |-> item.at, agreed |-> item.agreed]
        dropping == dropped \/ item.oversized \/ Len(collected.text) > BufferCap
        finished == ~dropping /\ HasBlank(item.text)
        refused == ~CollectionGates(item)
        record == [app |-> item.app, domain |-> item.domain, kind |-> "monitored", size |-> size,
                   text |-> collected.text, at |-> collected.at, agreed |-> collected.agreed]
    IN  [buffers |-> [state.buffers EXCEPT ![f] =
            IF refused \/ HasBlank(item.text) THEN NoBuffer
            ELSE IF dropping THEN [kind |-> "dropped", app |-> item.app, domain |-> item.domain]
            ELSE collected],
         run |-> [state.run EXCEPT ![f] =
            IF refused \/ HasBlank(item.text) THEN EmptyRun
            ELSE [size |-> size, domain |-> item.domain]],
         stored |-> IF finished /\ ~refused
                    THEN Append(state.stored, record) ELSE state.stored]

Flushed == FoldLeft(FlushItem, [buffers |-> buffers, run |-> run, stored |-> <<>>], pending)

EndTurn ==
    /\ phase = "policy"
    /\ phase' = "events"
    /\ secure' = IF MonitoredActive /\ (pending # <<>> \/ \E f \in Fields : buffers[f] # NoBuffer)
                 THEN secureInput ELSE secure
    /\ pending' = <<>>
    /\ LET blocked == secure' \/ ~enabled
       IN  /\ buffers' = IF blocked THEN [f \in Fields |-> NoBuffer] ELSE Flushed.buffers
           /\ run' = IF blocked THEN [f \in Fields |-> EmptyRun] ELSE Flushed.run
    /\ rows' = IF secure' THEN rows ELSE FoldLeft(Remembered, rows, Flushed.stored)
    /\ IF wasSecure /\ ~secure' THEN ResetTracker ELSE UNCHANGED trackerVars
    /\ wasSecure' = secure' /\ wasEnabled' = enabled
    /\ UNCHANGED <<handle, rings, crossRing, systemVars, domain, mode, enabled, allowed,
                   secureInput, era, erased, budget>>

\* The process ends, at any point, and is started again: the table and the
\* settings are kept, and the store may not open.
Restart ==
    /\ Spend("changes")
    /\ ResetTracker
    /\ handle' \in {mode, "closed"}
    /\ ClearRings /\ ClearMonitored
    /\ domain' = NoCache /\ reports' = <<>> /\ phase' = "events"
    /\ enabled' = wasEnabled
    /\ secure' = FALSE /\ wasSecure' = FALSE
    /\ UNCHANGED <<rows, text, page, target, synthetic, mode, wasEnabled, allowed, secureInput,
                   era, erased>>

Init ==
    /\ InitTracker /\ InitStore("all")
    /\ text = [f \in Fields |-> <<>>]
    /\ page \in Domains \ Excluded /\ target \in Fields
    /\ reports = <<[kind |-> "focus", field |-> target]>> /\ synthetic = {}
    /\ domain = NoCache
    /\ pending = <<>> /\ buffers = [f \in Fields |-> NoBuffer]
    /\ mode = "all" /\ enabled = TRUE /\ wasEnabled = TRUE /\ allowed = Apps
    /\ secureInput = FALSE /\ secure = FALSE /\ wasSecure = FALSE
    /\ phase = "events"
    /\ run = [f \in Fields |-> EmptyRun] /\ era = 0 /\ erased = [x \in Apps \cup Domains |-> 0]
    /\ budget = [typed |-> MaxTyped, accepts |-> MaxAccepts, changes |-> MaxChanges,
                 erases |-> MaxErases]

Next == System \/ Events \/ Policy \/ EndTurn \/ Restart

Spec == Init /\ [][Next]_vars

(***************************************************************************)
(* What the memory promises.                                               *)
(***************************************************************************)

Waiting ==
    {pending[i] : i \in DOMAIN pending}
    \cup {b \in {buffers[f] : f \in Fields} : b.kind = "collecting"}

Monitored == {r \in {rows[i] : i \in DOMAIN rows} : r.kind = "monitored"}

\* What the host wrote itself is never taken for typing: not as it wrote it,
\* and not as the application changed it (FieldTracker's resync).
EchoIsNotTyping ==
    \A item \in Waiting \cup Monitored : \A i \in DOMAIN item.text : item.text[i] \notin Set

\* The comment of apply_self_insert (app/src/wiring.rs:168): a self-applied
\* edit's readback is an echo, not typing. The same for the keys that are sent.
KeysAreNotTyping ==
    \A item \in Waiting \cup Monitored : \A i \in DOMAIN item.text : item.text[i] # Sent

\* A monitored record is all that was typed in its field since a blank, a page
\* or a policy transition, up to a blank, and no part of a longer run: a run
\* that outgrows the buffer is dropped with its tail (buffered_monitored_text).
RecordIsWholeRun ==
    \A r \in Monitored : Len(r.text) = r.size /\ r.size <= BufferCap /\ HasBlank(r.text)

\* What was remembered before an app or a domain was erased is gone from the
\* table, from the rings and from what waits, and does not come back with a
\* ring that is filled from the table or with the next blank.
ErasedIsGone ==
    LET remembered == {rows[i] : i \in DOMAIN rows} \cup {crossRing[i] : i \in DOMAIN crossRing}
                      \cup UNION {{rings[a][i] : i \in DOMAIN rings[a]} : a \in Apps}
    IN  \A item \in remembered \cup Waiting :
            \A scope \in {item.app, item.domain} \ {NoDomain} : item.at >= erased[scope]

\* The open store remembers what the mode says, also after a change that was
\* not saved and was rolled back (transition_memory_mode).
ModeIsKept == handle \in {"closed", mode}

\* The comment of MonitoredInput (app/src/loop_state.rs:107): what is typed while
\* it may not be remembered does not wait for the permission to come.
AgreedToRemember == \A r \in Monitored : r.agreed
=============================================================================
