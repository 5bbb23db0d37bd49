----------------------------- MODULE MemoryStore -----------------------------
(***************************************************************************)
(* The encrypted store of typing history (memory/src/lib.rs) and the rings *)
(* of recent inputs of the process (app/src/inference.rs). The rows are on *)
(* disk and the rings are not. Encryption and redaction leave no trace     *)
(* here: a record is its scope and its text.                               *)
(***************************************************************************)
EXTENDS Naturals, Sequences, SequencesExt

CONSTANTS Apps, Domains, NoDomain, MaxRecords, RingCapacity

VARIABLES
    rows,          \* the table, oldest first
    handle,        \* the collection mode of the open store, or "closed"
    rings,         \* per app, the recent inputs, oldest first
    crossRing      \* the ring shared by the apps

storeVars == <<rows, handle, rings, crossRing>>

Modes == {"off", "accepted", "all"}
Blank == "_"
NoRing == <<>>          \* a ring never gets empty again

\* What is left of a sequence, in its order, when only members of kept stay.
Only(seq, kept) ==
    FoldLeft(LAMBDA left, e : IF e \in kept THEN Append(left, e) ELSE left, <<>>, seq)

Newest(seq, n) == SubSeq(seq, IF Len(seq) > n THEN Len(seq) - n + 1 ELSE 1, Len(seq))

\* INSERT and the trim to the cap, in one transaction.
Stored(table, record) == Newest(Append(table, record), MaxRecords)

Remembers(mode, record) == mode = "all" \/ (mode = "accepted" /\ record.kind = "accepted")
Remembered(table, record) == IF Remembers(handle, record) THEN Stored(table, record) ELSE table

\* A text that is already in the ring moves to its newest end.
Recent(ring, entry) ==
    Newest(Append(Only(ring, {e \in Range(ring) : e.text # entry.text}), entry), RingCapacity)

RecentOf(a, n) == Newest(Only(rows, {r \in Range(rows) : r.app = a}), n)

IsBlank(r) == \A i \in DOMAIN r.text : r.text[i] = Blank

\* The first focus of an app fills its ring from the store.
Hydrated(a) ==
    IF handle \in {"closed", "off"} \/ rings[a] # NoRing
    THEN rings
    ELSE LET stored == RecentOf(a, RingCapacity)
         IN  [rings EXCEPT ![a] =
                 FoldLeft(Recent, NoRing, Only(stored, {r \in Range(stored) : ~IsBlank(r)}))]

ClearRings == rings' = [a \in Apps |-> NoRing] /\ crossRing' = <<>>
\* Mutant: only the ring of the app is cleared.
ClearOwnRing(a) == rings' = [rings EXCEPT ![a] = NoRing] /\ UNCHANGED crossRing

ClearRing(a) == rings' = [rings EXCEPT ![a] = NoRing] /\ crossRing' = <<>>

DeleteAll == rows' = <<>>
DeleteApp(a) == rows' = Only(rows, {r \in Range(rows) : r.app # a})
DeleteDomain(d) == rows' = Only(rows, {r \in Range(rows) : r.domain # d})

InitStore(mode) ==
    /\ rows = <<>>
    /\ handle = mode
    /\ rings = [a \in Apps |-> NoRing]
    /\ crossRing = <<>>
==============================================================================
