------------------------------ MODULE ScreenOcr ------------------------------
(***************************************************************************)
(* The screen reader of app/screen_ocr.rs: a worker thread per handle that *)
(* reads the display for the newest request it has been given and publishes*)
(* the text, stamped with that request, into a cell the inference worker   *)
(* shares.  A handle is dropped and another spawned while a worker may be  *)
(* in the middle of a capture: it is detached, never joined.               *)
(***************************************************************************)
EXTENDS Integers

CONSTANTS
    None,
    Handles,  \* 1 .. n: the handles a behaviour may spawn, in order
    Stamps    \* the stamps of completion requests: Nat, or a bounded prefix

Text == [stamp : Stamps, by : Handles]

ASSUME OcrAssumption ==
    /\ Handles \subseteq Nat \ {0} /\ Stamps \subseteq Nat
    /\ None \notin Nat /\ None \notin Text
    /\ None \notin {"spawned", "drop", "close", "clear", "dropped"}

VARIABLES
    spawned,   \* the handles spawned so far
    handle,    \* screen_ocr, or None
    edge,      \* the step the screen-context edge has reached, or None
    waits,     \* screen_wait_ms is not zero
    active,    \* the active flag of each handle
    slot,      \* the newest request of each handle's queue, or None
    reading,   \* what each handle's worker is capturing, or None
    cell       \* the screen cell: whose text it holds, or None

ocrVars == <<spawned, handle, edge, waits, active, slot, reading, cell>>

OcrInit ==
    /\ spawned = {} /\ handle = None /\ edge = None /\ waits = FALSE
    /\ active = [h \in Handles |-> FALSE]
    /\ slot = [h \in Handles |-> None]
    /\ reading = [h \in Handles |-> None]
    /\ cell = None

----------------------------------------------------------------------------
(* The host: apply_screen_context_edge, statement by statement, for the    *)
(* workers run meanwhile.  An edge without permission, or whose spawn      *)
(* fails, leaves everything as it was.                                     *)

SpawnOcr ==
    /\ edge = None /\ handle = None
    /\ \E h \in Handles \ spawned :
        /\ \A g \in Handles \ spawned : h <= g
        /\ spawned' = spawned \cup {h} /\ handle' = h
        /\ active' = [active EXCEPT ![h] = TRUE]
    /\ edge' = "spawned"
    /\ UNCHANGED <<waits, slot, reading, cell>>

SetWait ==
    /\ edge \in {"spawned", "dropped"}
    /\ waits' = (edge = "spawned")
    /\ edge' = None
    /\ UNCHANGED <<spawned, handle, active, slot, reading, cell>>

TurnOff ==
    /\ edge = None /\ handle # None
    /\ cell' = None
    /\ edge' = "drop"
    /\ UNCHANGED <<spawned, handle, waits, active, slot, reading>>

\* Drop for ScreenOcr.
Deactivate ==
    /\ edge = "drop"
    /\ active' = [active EXCEPT ![handle] = FALSE]
    /\ edge' = "close"
    /\ UNCHANGED <<spawned, handle, waits, slot, reading, cell>>

CloseQueue ==
    /\ edge = "close"
    /\ slot' = [slot EXCEPT ![handle] = None]
    /\ edge' = "clear"
    /\ UNCHANGED <<spawned, handle, waits, active, reading, cell>>

ClearCell ==
    /\ edge = "clear"
    /\ cell' = None
    /\ edge' = "dropped" /\ handle' = None
    /\ UNCHANGED <<spawned, waits, active, slot, reading>>

\* LatestRequestQueue::submit; without a handle nothing is asked for.
RequestScreen(stamp) ==
    /\ slot' = IF handle = None THEN slot ELSE [slot EXCEPT ![handle] = stamp]
    /\ UNCHANGED <<spawned, handle, edge, waits, active, reading, cell>>

----------------------------------------------------------------------------
(* The workers. *)

StartReading(h) ==
    /\ reading[h] = None /\ slot[h] # None
    /\ reading' = [reading EXCEPT ![h] = slot[h]]
    /\ slot' = [slot EXCEPT ![h] = None]
    /\ UNCHANGED <<spawned, handle, edge, waits, active, cell>>

\* Mutant: a worker publishes whatever became of its handle.
AlwaysPublishes(h) == h \in spawned

\* publish_screen_context asks under the lock of the cell.
MayPublish(h) == active[h]

\* The capture ends with a text or with none, which clears the cell.
Publish(h) ==
    /\ reading[h] # None
    /\ reading' = [reading EXCEPT ![h] = None]
    /\ cell' \in IF MayPublish(h)
                 THEN {None, [stamp |-> reading[h], by |-> h]} ELSE {cell}
    /\ UNCHANGED <<spawned, handle, edge, waits, active, slot>>

OcrEdge ==
    SpawnOcr \/ SetWait \/ TurnOff \/ Deactivate \/ CloseQueue \/ ClearCell

OcrWork == \E h \in Handles : StartReading(h) \/ Publish(h)

----------------------------------------------------------------------------

OcrTypeOK ==
    /\ spawned \subseteq Handles /\ handle \in spawned \cup {None}
    /\ edge \in {None, "spawned", "drop", "close", "clear", "dropped"}
    /\ waits \in BOOLEAN
    /\ active \in [Handles -> BOOLEAN]
    /\ slot \in [Handles -> Stamps \cup {None}]
    /\ reading \in [Handles -> Stamps \cup {None}]
    /\ cell \in Text \cup {None}

\* What the cell holds was captured for the handle in use (screen_ocr.rs, Drop
\* and publish_screen_context): once a handle has been dropped its detached
\* worker, which may be in the middle of a capture, never brings a text back,
\* even when another handle has been spawned since.
CellIsOfLiveHandle == cell # None => cell.by = handle

=============================================================================
