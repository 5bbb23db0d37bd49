--------------------------- MODULE Reports_proofs ---------------------------
(***************************************************************************)
(* Theorems about the two modules a report of focus goes through, for      *)
(* every value of their constants: HostQueue, where no key is lost, keys   *)
(* stay in order, pruning takes what it should and the reads coalescing    *)
(* drops are not missed; and AxWorker in front of it, where nothing leaks. *)
(***************************************************************************)
EXTENDS HostQueue, AxWorker, FiniteSetTheorems, FunctionTheorems, SequenceTheorems,
        WellFoundedInduction, TLAPS

USE QueueAssumption

Live == queue \cup batch

----------------------------------------------------------------------------
(* The inductive invariant. *)

Typed ==
    /\ queue \subseteq Event /\ batch \subseteq Event
    /\ IsFiniteSet(queue) /\ Cardinality(queue) <= Cap
    /\ reported \in Nat /\ lastFocus \in [Fields -> Nat]
    /\ owed \subseteq Nat /\ lost \subseteq Nat

\* Every event has a number of its own, and the batch is older than the queue.
Numbered ==
    /\ \A e \in Live : 0 < e.id /\ e.id <= reported
    /\ \A a, b \in Live : a.id = b.id => a = b
    /\ \A a \in batch, b \in queue : a.id < b.id

\* A caret knows the newest focus on its field that was reported before it.
Linked ==
    /\ \A f \in Fields : lastFocus[f] <= reported
    /\ \A r \in queue, f \in Fields :
        r.kind = "Focus" =>
            /\ r.field = f => r.id <= lastFocus[f]
            /\ r.id = lastFocus[f] => r.field = f
    /\ \A c \in queue : c.kind # "Caret" => c.of = 0
    /\ \A c \in queue : c.kind = "Caret" => c.field \in Fields /\ c.of < c.id
    /\ \A c, r \in queue :
        c.kind = "Caret" /\ r.kind = "Focus" =>
            /\ r.field = c.field /\ r.id < c.id => r.id <= c.of
            /\ r.id = c.of => r.field = c.field

\* A focus is in the queue as long as any report older than it is.
InQueue(n, f) == \E r \in queue : r.kind = "Focus" /\ r.field = f /\ r.id = n
OldestGoFirst ==
    \A d \in queue :
        Droppable(d) =>
            /\ \A f \in Fields : lastFocus[f] > d.id => InQueue(lastFocus[f], f)
            /\ \A c \in queue :
                c.kind = "Caret" /\ c.of > d.id => InQueue(c.of, c.field)

Inductive == Typed /\ Numbered /\ KeysAreKept /\ Linked /\ OldestGoFirst

----------------------------------------------------------------------------
(* The operators. *)

\* A nonempty set of events has an oldest one.
LEMMA OldestExists ==
    ASSUME NEW S, S # {}, \A e \in S : e.id \in Nat
    PROVE  /\ Oldest(S) \in S
           /\ \A o \in S : Oldest(S).id <= o.id
<1> DEFINE ids  == {e.id : e \in S}
           less == {ss \in Nat \X Nat : ss[1] < ss[2]}
<1>1. ids \subseteq Nat /\ ids # {}
  OBVIOUS
<1>2. IsWellFoundedOn(less, Nat)
  BY NatLessThanWellFounded DEF OpToRel
<1>3. \E x \in ids : \A y \in ids : x <= y
  <2> HIDE DEF ids, less
  <2>1. PICK x \in ids : \A y \in ids : ~(<<y, x>> \in less)
    BY <1>1, <1>2, WFMin
  <2>2. ASSUME NEW y \in ids PROVE x <= y
    <3>1. x \in Nat /\ y \in Nat /\ <<y, x>> \notin less
      BY <1>1, <2>1, <2>2
    <3>2. ASSUME y < x PROVE <<y, x>> \in less
      BY <3>1, <3>2 DEF less
    <3> QED
      BY <3>1, <3>2
  <2> QED
    BY <2>2
<1>4. \E e \in S : \A o \in S : e.id <= o.id
  BY <1>3
<1> QED
  BY <1>4 DEF Oldest

\* A nonempty set of events numbered up to n has a newest one.
LEMMA NewestExists ==
    ASSUME NEW S, NEW n \in Nat, S # {}, \A e \in S : e.id \in Nat /\ e.id <= n
    PROVE  \E e \in S : \A o \in S : o.id <= e.id
<1> DEFINE Mirror(e) == [id |-> n - e.id, event |-> e]
           mirrored == {Mirror(e) : e \in S}
<1>1. \A e \in S : Mirror(e).id \in Nat /\ Mirror(e).id = n - e.id
  OBVIOUS
<1>2. PICK m \in mirrored : \A o \in mirrored : m.id <= o.id
  <2>1. mirrored # {}
    OBVIOUS
  <2>2. \A m \in mirrored : m.id \in Nat
    BY <1>1
  <2> HIDE DEF mirrored
  <2> QED
    BY <2>1, <2>2, OldestExists
<1>3. PICK e \in S : m = Mirror(e)
  OBVIOUS
<1>4. ASSUME NEW o \in S PROVE o.id <= e.id
  <2>1. Mirror(o) \in mirrored
    OBVIOUS
  <2>2. Mirror(e).id <= Mirror(o).id
    BY <1>2, <1>3, <2>1
  <2>3. n - e.id <= n - o.id
    BY <1>1, <2>2
  <2> QED
    BY <2>3
<1> QED
  BY <1>4

\* What is older than a drained event is drained with it.
LEMMA DrainedFromFront ==
    ASSUME Typed, NEW a \in Drained, NEW b \in queue, b.id < a.id
    PROVE  b \in Drained
<1> DEFINE older(e) == {o \in queue : Before(o, e)}
<1>1. a \in queue /\ Cardinality(older(a)) < PerTick
  BY DEF Drained
<1>2. older(b) \subseteq older(a)
  BY <1>1 DEF Typed, Event, Before
<1>3. IsFiniteSet(older(a))
  BY FS_Subset DEF Typed
<1>4. /\ IsFiniteSet(older(b))
      /\ Cardinality(older(b)) <= Cardinality(older(a))
  BY <1>2, <1>3, FS_Subset
<1>5. Cardinality(older(a)) \in Nat /\ Cardinality(older(b)) \in Nat
  BY <1>3, <1>4, FS_CardinalityType
<1>6. Cardinality(older(b)) < PerTick
  BY <1>1, <1>4, <1>5
<1> QED
  BY <1>6 DEF Drained

\* The carets pruned with a focus are those that came after it and no later one.
LEMMA DependentsAreItsOwn ==
    ASSUME Inductive, NEW d \in queue, d.kind = "Focus"
    PROVE  Dependents(d) = {c \in queue : c.of = d.id}
<1>1. d.id \in Nat /\ d.id > 0
  BY DEF Inductive, Typed, Numbered, Event, Live
<1>2. ASSUME NEW c \in queue, c.of = d.id
      PROVE  c \in Dependents(d)
  <2>1. c.kind = "Caret" /\ c.field = d.field /\ d.id < c.id
    BY <1>1, <1>2 DEF Inductive, Linked
  <2>2. ~\E r \in queue : /\ r.kind = "Focus" /\ r.field = d.field
                          /\ Before(d, r) /\ Before(r, c)
    BY <1>1, <1>2, <2>1 DEF Inductive, Linked, Before, Typed, Event
  <2> QED
    BY <2>1, <2>2 DEF Dependents, Before
<1>3. ASSUME NEW c \in Dependents(d)
      PROVE  c \in queue /\ c.of = d.id
  <2>1. /\ c \in queue /\ c.kind = "Caret" /\ c.field = d.field /\ d.id < c.id
        /\ ~\E r \in queue : /\ r.kind = "Focus" /\ r.field = d.field
                             /\ d.id < r.id /\ r.id < c.id
    BY <1>3 DEF Dependents, Before
  <2>2. c.of \in Nat /\ d.id <= c.of /\ c.of < c.id
    BY <2>1 DEF Inductive, Linked, Typed, Event
  <2>3. ASSUME d.id < c.of PROVE FALSE
    BY <2>1, <2>2, <2>3 DEF Inductive, OldestGoFirst, InQueue, Droppable
  <2> QED
    BY <1>1, <2>1, <2>2, <2>3
<1> QED
  BY <1>2, <1>3 DEF Dependents

\* Coalescing drops only carets.
LEMMA CoalescingKeepsKeys ==
    ASSUME NEW S PROVE /\ Coalesced(S) \subseteq S
                       /\ \A e \in S : e.kind # "Caret" => e \in Coalesced(S)
BY DEF Coalesced

\* The last read of a field before n is the last of its run, if no caret has
\* the number n: it remains, and no other caret becomes a last read.
LEMMA LastReadsRemain ==
    ASSUME NEW S, NEW n \in Nat, NEW top \in Nat,
           \A e \in S : e.id \in Nat /\ e.id <= top,
           n = top + 1 \/ \E t \in S : t.id = n,
           \A e \in S : e.id = n => e.kind # "Caret"
    PROVE  LastReads(Coalesced(S), n) = LastReads(S, n)
<1>1. ASSUME NEW c \in LastReads(S, n) PROVE c \in Coalesced(S)
  <2>1. /\ c \in S /\ c.kind = "Caret" /\ c.id < n
        /\ ~\E o \in S : o.kind = "Caret" /\ o.field = c.field /\ c.id < o.id /\ o.id < n
    BY <1>1 DEF LastReads, Before
  <2>2. ASSUME NEW m \in S, Adjacent(c, m, S), m.kind = "Caret", m.field = c.field
        PROVE  FALSE
    <3>1. c.id < m.id /\ ~\E o \in S : c.id < o.id /\ o.id < m.id
      BY <2>2 DEF Adjacent, Before
    <3>2. ~(m.id < n)
      BY <2>1, <2>2, <3>1
    <3>3. m.id # n /\ m.id \in Nat /\ m.id <= top
      BY <2>2
    <3>4. PICK t \in S : t.id = n
      BY <3>2, <3>3
    <3> QED
      BY <2>1, <3>1, <3>2, <3>3, <3>4
  <2> QED
    BY <2>1, <2>2 DEF Coalesced
<1>2. LastReads(S, n) \subseteq LastReads(Coalesced(S), n)
  BY <1>1, CoalescingKeepsKeys DEF LastReads
<1>3. ASSUME NEW c \in LastReads(Coalesced(S), n) PROVE c \in LastReads(S, n)
  <2> DEFINE later == {o \in S : /\ o.kind = "Caret" /\ o.field = c.field
                                 /\ c.id < o.id /\ o.id < n}
  <2>1. /\ c \in S /\ c.kind = "Caret" /\ c.id < n
        /\ ~\E o \in Coalesced(S) : o \in later
    BY <1>3, CoalescingKeepsKeys DEF LastReads, Before
  <2>2. ASSUME later # {} PROVE FALSE
    <3>1. PICK o \in later : \A p \in later : p.id <= o.id
      <4>1. \A p \in later : p.id \in Nat /\ p.id <= top
        OBVIOUS
      <4> HIDE DEF later
      <4> QED
        BY <2>2, <4>1, NewestExists
    <3>2. ASSUME NEW p \in S, p.kind = "Caret", p.field = o.field, o.id < p.id, p.id < n
          PROVE  FALSE
      <4>1. p.id \in Nat /\ o.id \in Nat /\ c.id \in Nat
        BY <2>1
      <4>2. p \in later
        BY <3>2, <4>1
      <4> QED
        BY <3>1, <3>2, <4>1, <4>2
    <3>3. o \in LastReads(S, n)
      BY <3>2 DEF LastReads, Before
    <3> QED
      BY <1>1, <2>1, <3>3
  <2> QED
    BY <2>1, <2>2 DEF LastReads, Before
<1> QED
  BY <1>2, <1>3

----------------------------------------------------------------------------
(* Pushes preserve the invariant. *)

\* An event as a push finds it: new, and linked to the last focus on its field.
Fresh(e) ==
    /\ e \in Event /\ e.id = reported + 1
    /\ e.kind = "Caret" => e.field \in Fields /\ e.of = lastFocus[e.field]
    /\ e.kind # "Caret" => e.of = 0

\* The victim of a full queue is its oldest report.
LEMMA VictimIsOldest ==
    ASSUME Inductive, Victims # {}
    PROVE  /\ Oldest(Victims) \in queue /\ Droppable(Oldest(Victims))
           /\ \A o \in queue : Droppable(o) => Oldest(Victims).id <= o.id
<1>1. \A e \in Victims : e.id \in Nat
  BY DEF Victims, Inductive, Typed, Event
<1>2. /\ Oldest(Victims) \in Victims
      /\ \A o \in Victims : Oldest(Victims).id <= o.id
  BY <1>1, OldestExists
<1> QED
  BY <1>2 DEF Victims

\* What a push takes from the queue.
LEMMA PushTakes ==
    ASSUME Inductive, NEW e, Fresh(e), Enqueued(e)
    PROVE  \E gone \in SUBSET queue :
              /\ queue' = (queue \ gone) \cup {e}
              /\ gone = {} => ~Full
              /\ gone # {} =>
                   \E d \in gone :
                      /\ Droppable(d)
                      /\ \A o \in queue : Droppable(o) => d.id <= o.id
                      /\ gone = {d} \cup (IF d.kind = "Focus"
                                          THEN {c \in queue : c.of = d.id} ELSE {})
                      /\ \A c \in gone \ {d} : c.kind = "Caret"
<1>1. CASE ~Full
  BY <1>1 DEF Enqueued
<1>2. CASE Full
  <2>1. Victims # {}
    BY <1>2 DEF Enqueued
  <2> DEFINE d == Oldest(Victims)
             gone == {d} \cup Dependents(d)
  <2>2. queue' = (queue \ gone) \cup {e}
    BY <1>2 DEF Enqueued
  <2>3. /\ d \in queue /\ Droppable(d)
        /\ \A o \in queue : Droppable(o) => d.id <= o.id
    BY <2>1, VictimIsOldest
  <2>4. /\ d.kind = "Focus" => Dependents(d) = {c \in queue : c.of = d.id}
        /\ d.kind # "Focus" => Dependents(d) = {}
        /\ \A c \in Dependents(d) : c \in queue /\ c.kind = "Caret"
    BY <2>3, DependentsAreItsOwn DEF Dependents
  <2> HIDE DEF d
  <2>5. gone \in SUBSET queue /\ gone # {} /\ d \in gone
    BY <2>3, <2>4
  <2>6. gone = {d} \cup (IF d.kind = "Focus"
                         THEN {c \in queue : c.of = d.id} ELSE {})
    BY <2>4
  <2>7. \A c \in gone \ {d} : c.kind = "Caret"
    BY <2>4
  <2> QED
    BY <2>2, <2>3, <2>5, <2>6, <2>7
<1> QED
  BY <1>1, <1>2

\* A push leaves the queue within its cap.
LEMMA PushBounded ==
    ASSUME Inductive, NEW e, Fresh(e), Enqueued(e)
    PROVE  IsFiniteSet(queue') /\ Cardinality(queue') <= Cap
<1>1. PICK gone \in SUBSET queue : /\ queue' = (queue \ gone) \cup {e}
                                   /\ gone = {} => ~Full
  BY PushTakes
<1>2. IsFiniteSet(queue) /\ Cardinality(queue) \in Nat /\ Cardinality(queue) <= Cap
  BY FS_CardinalityType DEF Inductive, Typed
<1>3. /\ IsFiniteSet(queue \ gone)
      /\ Cardinality(queue \ gone) <= Cardinality(queue)
      /\ gone # {} => Cardinality(queue \ gone) < Cardinality(queue)
  <2>1. queue \ gone \in SUBSET queue
    OBVIOUS
  <2>2. gone # {} => queue \ gone # queue
    OBVIOUS
  <2>3. /\ IsFiniteSet(queue \ gone)
        /\ Cardinality(queue \ gone) <= Cardinality(queue)
        /\ Cardinality(queue \ gone) = Cardinality(queue) => queue \ gone = queue
    BY <1>2, <2>1, FS_Subset
  <2>4. Cardinality(queue \ gone) \in Nat
    BY <2>3, FS_CardinalityType
  <2> QED
    BY <1>2, <2>2, <2>3, <2>4
<1>4. Cardinality(queue \ gone) \in Nat /\ Cardinality(queue \ gone) < Cap
  BY <1>1, <1>2, <1>3, FS_CardinalityType DEF Full
<1>5. /\ IsFiniteSet(queue')
      /\ \/ Cardinality(queue') = Cardinality(queue \ gone)
         \/ Cardinality(queue') = Cardinality(queue \ gone) + 1
  BY <1>1, <1>3, FS_AddElement
<1> QED
  BY <1>4, <1>5

\* What an accepted push preserves whatever the event is.
LEMMA PushInvariant ==
    ASSUME Inductive, NEW e, Fresh(e), Enqueued(e), reported' = reported + 1,
           batch' = batch, owed' = owed \cup (IF e.kind = "Key" THEN {e.id} ELSE {}),
           \/ e.kind # "Focus" /\ lastFocus' = lastFocus
           \/ /\ e.kind = "Focus" /\ e.field \in Fields
              /\ lastFocus' = [lastFocus EXCEPT ![e.field] = e.id]
    PROVE  Inductive'
<1>1. PICK gone \in SUBSET queue :
          /\ queue' = (queue \ gone) \cup {e}
          /\ gone # {} =>
               \E d \in gone :
                  /\ Droppable(d)
                  /\ \A o \in queue : Droppable(o) => d.id <= o.id
                  /\ \A c \in gone \ {d} : c.kind = "Caret"
  BY PushTakes
<1>2. reported \in Nat /\ reported + 1 \in Nat /\ e \in Event /\ e.id = reported + 1
      /\ e.kind \in Kinds
  BY DEF Inductive, Typed, Fresh, Event
<1>3. \A x \in queue \cup batch :
          x \in Event /\ x.id \in Nat /\ x.id < e.id /\ x.of \in Nat /\ x.id > 0
  BY <1>2 DEF Inductive, Typed, Numbered, Live, Event
<1>4. Typed'
  <2>1. lost' \subseteq Nat
    <3>1. CASE ~Full
      BY <3>1 DEF Enqueued, Inductive, Typed
    <3>2. CASE Full
      <4>1. Oldest(Victims) \in queue
        BY <3>2, VictimIsOldest DEF Enqueued
      <4>2. Oldest(Victims).id \in Nat /\ lost \subseteq Nat
        BY <4>1, <1>3 DEF Inductive, Typed
      <4>3. lost' \subseteq lost \cup {Oldest(Victims).id}
        BY <3>2, Zenon DEF Enqueued
      <4> QED
        BY <4>2, <4>3
    <3> QED
      BY <3>1, <3>2
  <2>2. queue' \subseteq Event /\ batch' \subseteq Event
    BY <1>1, <1>2, <1>3 DEF Inductive, Typed
  <2>3. owed' \subseteq Nat /\ lastFocus' \in [Fields -> Nat]
    BY <1>2 DEF Inductive, Typed
  <2> QED
    BY <1>2, <2>1, <2>2, <2>3, PushBounded DEF Typed
<1>5. Numbered'
  BY <1>1, <1>2, <1>3 DEF Inductive, Numbered, Live
<1>6. KeysAreKept'
  <2>1. \A x \in gone : x.kind # "Key"
    BY <1>1 DEF Droppable
  <2>2. {x.id : x \in {k \in queue' \cup batch' : k.kind = "Key"}}
          = {x.id : x \in {k \in queue \cup batch : k.kind = "Key"}}
              \cup (IF e.kind = "Key" THEN {e.id} ELSE {})
    BY <1>1, <2>1
  <2> QED
    BY <2>2 DEF Inductive, KeysAreKept
<1>7. Linked'
  <2> USE <1>1, <1>2, <1>3 DEF Inductive
  <2>1. \A f \in Fields : lastFocus[f] \in Nat /\ lastFocus[f] <= reported
    BY DEF Linked, Typed
  <2>2. \A f \in Fields : lastFocus'[f] <= reported'
    BY <2>1 DEF Typed
  <2>3. \A r \in queue', f \in Fields :
          r.kind = "Focus" =>
              /\ r.field = f => r.id <= lastFocus'[f]
              /\ r.id = lastFocus'[f] => r.field = f
    BY <2>1 DEF Linked, Typed
  <2>4. /\ \A c \in queue' : c.kind # "Caret" => c.of = 0
        /\ \A c \in queue' : c.kind = "Caret" => c.field \in Fields /\ c.of < c.id
    BY <2>1 DEF Linked, Fresh
  <2>5. \A c, r \in queue' :
          c.kind = "Caret" /\ r.kind = "Focus" =>
              /\ r.field = c.field /\ r.id < c.id => r.id <= c.of
              /\ r.id = c.of => r.field = c.field
    <3> SUFFICES ASSUME NEW c \in queue', NEW r \in queue',
                        c.kind = "Caret", r.kind = "Focus"
                 PROVE  /\ r.field = c.field /\ r.id < c.id => r.id <= c.of
                        /\ r.id = c.of => r.field = c.field
      OBVIOUS
    <3>1. CASE c = e
      BY <3>1 DEF Linked, Fresh
    <3>2. CASE c # e /\ r = e
      BY <3>2 DEF Linked, Fresh
    <3>3. CASE c # e /\ r # e
      BY <3>3 DEF Linked
    <3> QED
      BY <3>1, <3>2, <3>3
  <2> QED
    BY <2>2, <2>3, <2>4, <2>5 DEF Linked
<1>8. OldestGoFirst'
  \* A focus younger than a report that stays in the queue stays there itself.
  <2>1. ASSUME NEW x \in queue, x \in queue', Droppable(x), NEW n \in Nat, n > x.id,
               NEW f, InQueue(n, f)
        PROVE  \E r \in queue' : r.kind = "Focus" /\ r.field = f /\ r.id = n
    <3>1. PICK r \in queue : r.kind = "Focus" /\ r.field = f /\ r.id = n
      BY <2>1 DEF InQueue
    <3>2. r \notin gone
      BY <1>1, <1>3, <2>1, <3>1
    <3> QED
      BY <1>1, <3>1, <3>2
  <2>2. \A f \in Fields : lastFocus[f] \in Nat /\ lastFocus[f] <= reported
    BY DEF Inductive, Linked, Typed
  <2>3. ASSUME NEW x \in queue', Droppable(x), NEW f \in Fields, lastFocus'[f] > x.id
        PROVE  \E r \in queue' : r.kind = "Focus" /\ r.field = f /\ r.id = lastFocus'[f]
    <3>1. CASE e.kind = "Focus" /\ f = e.field
      BY <1>1, <3>1 DEF Inductive, Typed
    <3>2. CASE ~(e.kind = "Focus" /\ f = e.field)
      <4>1. lastFocus'[f] = lastFocus[f]
        BY <3>2 DEF Inductive, Typed
      <4>2. x # e
        BY <1>2, <2>2, <2>3, <4>1
      <4>3. x \in queue
        BY <1>1, <4>2
      <4>4. InQueue(lastFocus[f], f)
        BY <2>3, <4>1, <4>3 DEF Inductive, OldestGoFirst
      <4> QED
        BY <2>1, <2>2, <2>3, <4>1, <4>3, <4>4
    <3> QED
      BY <3>1, <3>2
  <2>4. ASSUME NEW x \in queue', Droppable(x), NEW c \in queue',
               c.kind = "Caret", c.of > x.id
        PROVE  \E r \in queue' : r.kind = "Focus" /\ r.field = c.field /\ r.id = c.of
    <3>1. c.of \in Nat /\ c.of <= reported /\ (c = e => c.field \in Fields)
      BY <1>1, <1>2, <1>3, <2>2, <2>4 DEF Inductive, Linked, Fresh
    <3>2. x # e /\ x \in queue
      BY <1>1, <1>2, <2>4, <3>1
    <3>3. InQueue(c.of, c.field)
      <4>1. CASE c = e
        BY <2>4, <3>1, <3>2, <4>1 DEF Inductive, OldestGoFirst, Fresh
      <4>2. CASE c # e
        BY <1>1, <2>4, <3>2, <4>2 DEF Inductive, OldestGoFirst
      <4> QED
        BY <4>1, <4>2
    <3> QED
      BY <2>1, <2>4, <3>1, <3>2, <3>3
  <2> QED
    BY <2>3, <2>4 DEF OldestGoFirst, InQueue
<1> QED
  BY <1>4, <1>5, <1>6, <1>7, <1>8 DEF Inductive

----------------------------------------------------------------------------
(* Every step preserves the invariant. *)

\* The empty queue satisfies the invariant.
LEMMA InitInvariant == Init => Inductive
<1> SUFFICES ASSUME Init PROVE Inductive
  OBVIOUS
<1>1. IsFiniteSet(queue) /\ Cardinality(queue) = 0
  BY FS_EmptySet DEF Init
<1>2. Typed
  BY <1>1 DEF Init, Typed
<1> QED
  BY <1>2 DEF Init, Inductive, Numbered, Live, KeysAreKept, Linked, OldestGoFirst

\* A refused report leaves no trace in the queue, which holds only keys.
LEMMA RefusedInvariant ==
    ASSUME Inductive, NEW e, Fresh(e), Refused(e), reported' = reported + 1,
           batch' = batch, owed' = owed,
           \/ e.kind # "Focus" /\ lastFocus' = lastFocus
           \/ /\ e.kind = "Focus" /\ e.field \in Fields
              /\ lastFocus' = [lastFocus EXCEPT ![e.field] = e.id]
    PROVE  Inductive'
<1>1. /\ queue' = queue /\ \A x \in queue : x.kind = "Key" /\ ~Droppable(x)
      /\ e.id \in Nat /\ e.id = reported + 1 /\ reported \in Nat
  BY DEF Refused, Victims, Inductive, Typed, Event, Kinds, Droppable, Fresh
<1>2. Typed'
  <2>1. lost' \subseteq Nat
    BY <1>1 DEF Refused, Inductive, Typed
  <2> QED
    BY <1>1, <2>1 DEF Inductive, Typed
<1>3. Numbered' /\ KeysAreKept'
  BY <1>1 DEF Inductive, Typed, Numbered, KeysAreKept, Live, Event
<1>4. Linked'
  BY <1>1 DEF Inductive, Typed, Linked, Fresh
<1>5. OldestGoFirst'
  BY <1>1 DEF OldestGoFirst, Droppable
<1> QED
  BY <1>2, <1>3, <1>4, <1>5 DEF Inductive

\* A push preserves the invariant, accepted or refused.
LEMMA PushStep ==
    ASSUME Inductive, NEW e, Fresh(e), Enqueued(e) \/ Refused(e),
           reported' = reported + 1, batch' = batch,
           \/ Enqueued(e) /\ owed' = owed \cup (IF e.kind = "Key" THEN {e.id} ELSE {})
           \/ Refused(e) /\ owed' = owed,
           \/ e.kind # "Focus" /\ lastFocus' = lastFocus
           \/ /\ e.kind = "Focus" /\ e.field \in Fields
              /\ lastFocus' = [lastFocus EXCEPT ![e.field] = e.id]
    PROVE  Inductive'
BY PushInvariant, RefusedInvariant

\* A drain preserves the invariant: it takes the front of the queue.
LEMMA DrainInvariant == ASSUME Inductive, Drain PROVE Inductive'
<1>1. /\ queue' = queue \ Drained /\ batch = {} /\ batch' = Coalesced(Drained)
      /\ Drained \subseteq queue /\ batch' \subseteq Drained
      /\ reported' = reported /\ lastFocus' = lastFocus /\ owed' = owed /\ lost' = lost
  BY CoalescingKeepsKeys DEF Drain, Drained
<1>2. \A x \in queue : x \in Event /\ x.id \in Nat
  BY DEF Inductive, Typed, Event
<1>3. Typed'
  <2>1. IsFiniteSet(queue') /\ Cardinality(queue') <= Cardinality(queue)
    BY <1>1, FS_Subset DEF Inductive, Typed
  <2>2. Cardinality(queue) \in Nat /\ Cardinality(queue') \in Nat
    BY <2>1, FS_CardinalityType DEF Inductive, Typed
  <2>3. Cardinality(queue') <= Cap
    BY <2>1, <2>2 DEF Inductive, Typed
  <2> QED
    BY <1>1, <1>2, <2>1, <2>3 DEF Inductive, Typed
<1>4. Numbered'
  <2>1. \A e \in Live' : e \in Live
    BY <1>1 DEF Live
  <2>2. ASSUME NEW a \in batch', NEW b \in queue' PROVE a.id < b.id
    <3>1. a \in Drained /\ a \in queue /\ b \in queue /\ b \notin Drained
      BY <1>1
    <3>2. ~(b.id < a.id)
      BY <3>1, DrainedFromFront DEF Inductive
    <3>3. a.id # b.id
      BY <3>1 DEF Inductive, Numbered, Live
    <3> QED
      BY <1>2, <3>1, <3>2, <3>3
  <2>3. /\ \A e \in Live' : 0 < e.id /\ e.id <= reported'
        /\ \A a, b \in Live' : a.id = b.id => a = b
    BY <1>1, <2>1 DEF Inductive, Numbered
  <2> QED
    BY <2>2, <2>3 DEF Numbered
<1>5. KeysAreKept'
  <2>1. {k \in queue' \cup batch' : k.kind = "Key"} = {k \in queue \cup batch : k.kind = "Key"}
    BY <1>1, CoalescingKeepsKeys
  <2>2. KeysAreKept
    BY DEF Inductive
  <2> QED
    BY <1>1, <2>1, <2>2 DEF KeysAreKept
<1>6. Linked'
  BY <1>1 DEF Inductive, Linked
<1>7. OldestGoFirst'
  <2>1. ASSUME NEW d \in queue', NEW n, NEW f, d.id < n, InQueue(n, f)
        PROVE  \E r \in queue' : r.kind = "Focus" /\ r.field = f /\ r.id = n
    <3>1. PICK r \in queue : r.kind = "Focus" /\ r.field = f /\ r.id = n
      BY <2>1 DEF InQueue
    <3>2. r \notin Drained
      BY <1>1, <2>1, <3>1, DrainedFromFront DEF Inductive
    <3> QED
      BY <1>1, <3>1, <3>2
  <2>2. ASSUME NEW d \in queue', Droppable(d), NEW f \in Fields, lastFocus'[f] > d.id
        PROVE  \E r \in queue' : r.kind = "Focus" /\ r.field = f /\ r.id = lastFocus'[f]
    <3>1. lastFocus[f] > d.id /\ InQueue(lastFocus[f], f)
      BY <1>1, <2>2 DEF Inductive, OldestGoFirst
    <3>2. lastFocus[f] \in Nat /\ d.id \in Nat
      BY <1>1, <1>2 DEF Inductive, Typed
    <3>3. d.id < lastFocus[f]
      BY <3>1, <3>2
    <3> QED
      BY <1>1, <2>1, <3>1, <3>3
  <2>3. ASSUME NEW d \in queue', Droppable(d), NEW c \in queue',
               c.kind = "Caret", c.of > d.id
        PROVE  \E r \in queue' : r.kind = "Focus" /\ r.field = c.field /\ r.id = c.of
    <3>1. InQueue(c.of, c.field)
      BY <1>1, <2>3 DEF Inductive, OldestGoFirst
    <3>2. c.of \in Nat /\ d.id \in Nat
      BY <1>1, <1>2 DEF Event
    <3>3. d.id < c.of
      BY <2>3, <3>2
    <3> QED
      BY <2>1, <3>1, <3>3
  <2> QED
    BY <2>2, <2>3 DEF OldestGoFirst, InQueue
<1> QED
  BY <1>3, <1>4, <1>5, <1>6, <1>7 DEF Inductive

\* A turn handles the oldest event it has drained, and only that.
LEMMA HandleTakesOldest ==
    ASSUME Inductive, Handle
    PROVE  \E e \in batch : /\ \A o \in Live : e.id <= o.id
                            /\ batch' = batch \ {e} /\ owed' = owed \ {e.id}
<1>1. \A e \in batch : e.id \in Nat
  BY DEF Inductive, Typed, Event
<1>2. Oldest(batch) \in batch /\ \A o \in batch : Oldest(batch).id <= o.id
  BY <1>1, OldestExists DEF Handle
<1>3. \A o \in queue : o.id \in Nat /\ Oldest(batch).id < o.id
  BY <1>2 DEF Inductive, Typed, Numbered, Event
<1>4. \A o \in Live : Oldest(batch).id <= o.id
  BY <1>1, <1>2, <1>3 DEF Live
<1> QED
  BY <1>2, <1>4 DEF Handle, Rest

\* Handling an event preserves the invariant.
LEMMA HandleInvariant == ASSUME Inductive, Handle PROVE Inductive'
<1>1. PICK e \in batch : batch' = batch \ {e} /\ owed' = owed \ {e.id}
  BY HandleTakesOldest
<1>2. queue' = queue /\ reported' = reported /\ lastFocus' = lastFocus /\ lost' = lost
  BY DEF Handle
<1>3. Typed'
  BY <1>1, <1>2 DEF Inductive, Typed
<1>4. Numbered'
  BY <1>1, <1>2 DEF Inductive, Numbered, Live
<1>5. Linked' /\ OldestGoFirst'
  BY <1>2 DEF Inductive, Linked, OldestGoFirst, InQueue
<1>6. KeysAreKept'
  <2> DEFINE keys == {k \in queue \cup batch : k.kind = "Key"}
             kept == {k \in queue' \cup batch' : k.kind = "Key"}
  <2>1. kept = keys \ {e}
    <3>1. \A b \in queue : b.id \in Nat /\ e.id < b.id
      BY DEF Inductive, Numbered, Typed, Event
    <3>2. e \notin queue
      BY <3>1
    <3> QED
      BY <1>1, <1>2, <3>2
  <2>2. \A k \in keys : k.id = e.id => k = e
    BY DEF Inductive, Numbered, Live
  <2>3. {k.id : k \in keys \ {e}} = {k.id : k \in keys} \ {e.id}
    BY <2>2
  <2>4. owed = {k.id : k \in keys}
    BY DEF Inductive, KeysAreKept
  <2>5. owed' = {k.id : k \in kept}
    BY <1>1, <2>1, <2>3, <2>4
  <2> QED
    BY <2>5 DEF KeysAreKept
<1> QED
  BY <1>3, <1>4, <1>5, <1>6 DEF Inductive

\* The pushes of Next are pushes of a fresh event.
LEMMA ReportsPush ==
    ASSUME Inductive, Reporting,
           (\E f \in Fields : ReportFocus(f) \/ ReportCaret(f)) \/ PressKey
    PROVE  \E e : /\ Fresh(e) /\ reported' = reported + 1 /\ batch' = batch
                  /\ \/ /\ Enqueued(e)
                        /\ owed' = owed \cup (IF e.kind = "Key" THEN {e.id} ELSE {})
                     \/ Refused(e) /\ owed' = owed
                  /\ \/ e.kind # "Focus" /\ lastFocus' = lastFocus
                     \/ /\ e.kind = "Focus" /\ e.field \in Fields
                        /\ lastFocus' = [lastFocus EXCEPT ![e.field] = e.id]
<1>1. reported \in Nat /\ reported' = reported + 1 /\ batch' = batch
  BY DEF Reporting, Inductive, Typed
<1>2. ASSUME NEW f \in Fields, ReportFocus(f)
      PROVE  \E e : /\ Fresh(e) /\ (Enqueued(e) \/ Refused(e)) /\ owed' = owed
                    /\ e.kind = "Focus" /\ e.field \in Fields
                    /\ lastFocus' = [lastFocus EXCEPT ![e.field] = e.id]
  <2> DEFINE e == Report("Focus", f, 0)
  <2>1. Fresh(e) /\ e.kind = "Focus" /\ e.field = f /\ e.id = reported + 1
    BY <1>1, <1>2 DEF Fresh, Report, Event, Kinds
  <2>2. (Enqueued(e) \/ Refused(e)) /\ owed' = owed
    BY <1>2 DEF ReportFocus
  <2>3. lastFocus' = [lastFocus EXCEPT ![f] = reported + 1]
    BY <1>2 DEF ReportFocus
  <2> HIDE DEF e
  <2> QED
    BY <1>2, <2>1, <2>2, <2>3
<1>3. ASSUME NEW f \in Fields, ReportCaret(f)
      PROVE  \E e : /\ Fresh(e) /\ (Enqueued(e) \/ Refused(e)) /\ owed' = owed
                    /\ e.kind = "Caret" /\ lastFocus' = lastFocus
  <2> DEFINE e == Report("Caret", f, lastFocus[f])
  <2>1. Fresh(e) /\ e.kind = "Caret"
    BY <1>1, <1>3 DEF Fresh, Report, Event, Kinds, Inductive, Typed
  <2>2. (Enqueued(e) \/ Refused(e)) /\ owed' = owed /\ lastFocus' = lastFocus
    BY <1>3 DEF ReportCaret
  <2> HIDE DEF e
  <2> QED
    BY <2>1, <2>2
<1>4. ASSUME PressKey
      PROVE  \E e : /\ Fresh(e) /\ e.kind = "Key" /\ lastFocus' = lastFocus
                    /\ \/ Enqueued(e) /\ owed' = owed \cup {e.id}
                       \/ Refused(e) /\ owed' = owed
  <2> DEFINE e == Report("Key", None, 0)
  <2>1. Fresh(e) /\ e.kind = "Key"
    BY <1>1 DEF Fresh, Report, Event, Kinds
  <2>2. /\ lastFocus' = lastFocus
        /\ \/ Enqueued(e) /\ owed' = owed \cup {e.id}
           \/ Refused(e) /\ owed' = owed
    BY <1>4 DEF PressKey
  <2> HIDE DEF e
  <2> QED
    BY <2>1, <2>2
<1> QED
  BY <1>1, <1>2, <1>3, <1>4

\* Every step of the queue preserves the invariant.
LEMMA NextInvariant == Inductive /\ [Next]_vars => Inductive'
<1> SUFFICES ASSUME Inductive, [Next]_vars PROVE Inductive'
  OBVIOUS
<1>1. CASE (\E f \in Fields : ReportFocus(f) \/ ReportCaret(f)) \/ PressKey
  <2>1. Reporting
    BY <1>1 DEF ReportFocus, ReportCaret, PressKey
  <2> QED
    BY <1>1, <2>1, ReportsPush, PushStep
<1>2. CASE Drain
  BY <1>2, DrainInvariant
<1>3. CASE Handle
  BY <1>3, HandleInvariant
<1>4. CASE UNCHANGED vars
  BY <1>4 DEF vars, Inductive, Typed, Numbered, Live, KeysAreKept, Linked,
              OldestGoFirst, InQueue
<1> QED
  BY <1>1, <1>2, <1>3, <1>4 DEF Next

----------------------------------------------------------------------------
(* Theorems. *)

\* The queue's invariant holds in every reachable state.
THEOREM QueueInvariant == Spec => []Inductive
BY InitInvariant, NextInvariant, PTL DEF Spec

\* The queue is well-formed and never outgrows its cap.
THEOREM QueueTypeCorrect == Spec => []TypeOK
<1>1. Inductive => TypeOK
  BY DEF Inductive, Typed, TypeOK
<1> QED
  BY <1>1, QueueInvariant, PTL

\* push_host_event never loses a key it accepted, whatever is dropped around it.
THEOREM QueueKeepsKeys == Spec => []KeysAreKept
<1>1. Inductive => KeysAreKept
  BY DEF Inductive
<1> QED
  BY <1>1, QueueInvariant, PTL

\* The host loop handles keys in the order they were pressed.
THEOREM QueueKeepsOrder == Spec => KeysInOrder
<1> DEFINE Ordered == \A k \in owed \ owed' : \A j \in owed : k <= j
<1>1. Inductive /\ [Next]_vars => [Ordered]_vars
  <2> SUFFICES ASSUME Inductive, Next PROVE Ordered
    OBVIOUS
  <2>1. CASE Handle
    <3>1. PICK e \in batch : /\ \A o \in Live : e.id <= o.id
                             /\ owed' = owed \ {e.id}
      BY <2>1, HandleTakesOldest
    <3>2. \A j \in owed : \E o \in Live : o.id = j
      BY DEF Inductive, KeysAreKept, Live
    <3> QED
      BY <3>1, <3>2
  <2>2. CASE ~Handle
    <3>1. owed \subseteq owed'
      BY <2>2 DEF Next, ReportFocus, ReportCaret, PressKey, Drain
    <3> QED
      BY <3>1
  <2> QED
    BY <2>1, <2>2
<1> QED
  BY <1>1, QueueInvariant, PTL DEF Spec, KeysInOrder

\* A full queue drops one report, and with a focus exactly the carets that
\* were reported after it and before the next focus on its field.
THEOREM QueuePrunesItsOwn == Spec => PrunesItsOwnCarets
<1> DEFINE Prunes ==
        reported' # reported =>
            LET gone == queue \ queue' IN
            gone # {} =>
                \E d \in gone :
                    /\ d.kind # "Key"
                    /\ gone = {d} \cup (IF d.kind = "Focus"
                                        THEN {c \in queue : c.of = d.id} ELSE {})
<1>1. Inductive /\ [Next]_vars => [Prunes]_vars
  <2> SUFFICES ASSUME Inductive, Next, reported' # reported PROVE Prunes
    OBVIOUS
  <2>1. /\ (\E f \in Fields : ReportFocus(f) \/ ReportCaret(f)) \/ PressKey
        /\ Reporting
    BY DEF Next, Drain, Handle, ReportFocus, ReportCaret, PressKey
  <2>2. PICK e : Fresh(e) /\ (Enqueued(e) \/ Refused(e))
    BY <2>1, ReportsPush
  <2>3. CASE Refused(e)
    BY <2>3 DEF Refused
  <2>4. CASE Enqueued(e)
    <3>1. PICK gone \in SUBSET queue :
              /\ queue' = (queue \ gone) \cup {e}
              /\ gone # {} =>
                   \E d \in gone :
                      /\ Droppable(d)
                      /\ gone = {d} \cup (IF d.kind = "Focus"
                                          THEN {c \in queue : c.of = d.id} ELSE {})
      BY <2>2, <2>4, PushTakes
    <3>2. e \notin queue
      BY <2>2 DEF Fresh, Inductive, Typed, Numbered, Live, Event
    <3>3. queue \ queue' = gone
      BY <3>1, <3>2
    <3> QED
      BY <3>1, <3>3 DEF Droppable
  <2> QED
    BY <2>2, <2>3, <2>4
<1> QED
  BY <1>1, QueueInvariant, PTL DEF Spec, PrunesItsOwnCarets

\* coalesce_caret_reads hides nothing: at every key and focus of a batch, and
\* at its end, the last read of each field is the one it would have been.
THEOREM QueueCoalescesUnseen == Spec => CoalescingIsInvisible
<1> DEFINE Unseen ==
        (batch = {} /\ batch' # {}) =>
            LET taken == queue \ queue' IN
            \A n \in {e.id : e \in {t \in taken : t.kind # "Caret"}} \cup {reported + 1} :
                LastReads(batch', n) = LastReads(taken, n)
<1>1. Inductive /\ [Next]_vars => [Unseen]_vars
  <2> SUFFICES ASSUME Inductive, Next, batch = {}, batch' # {} PROVE Unseen
    OBVIOUS
  <2>1. Drain
    BY DEF Next, ReportFocus, ReportCaret, PressKey, Reporting, Handle
  <2>2. queue \ queue' = Drained /\ batch' = Coalesced(Drained) /\ Drained \subseteq queue
    BY <2>1 DEF Drain, Drained
  <2>3. /\ reported \in Nat
        /\ \A e \in Drained : e.id \in Nat /\ e.id <= reported
        /\ \A a, b \in Drained : a.id = b.id => a = b
    BY <2>2 DEF Inductive, Typed, Numbered, Live, Event
  <2>4. ASSUME NEW n \in {e.id : e \in {t \in Drained : t.kind # "Caret"}} \cup {reported + 1}
        PROVE  LastReads(Coalesced(Drained), n) = LastReads(Drained, n)
    <3>1. CASE n = reported + 1
      <4>1. \A e \in Drained : e.id # n
        BY <2>3, <3>1
      <4> QED
        BY <2>3, <3>1, <4>1, LastReadsRemain
    <3>2. CASE n # reported + 1
      <4>1. PICK t \in Drained : t.kind # "Caret" /\ t.id = n
        BY <2>4, <3>2
      <4>2. \A e \in Drained : e.id = n => e.kind # "Caret"
        BY <2>3, <4>1
      <4>3. n \in Nat
        BY <2>3, <4>1
      <4> QED
        BY <2>3, <4>1, <4>2, <4>3, LastReadsRemain
    <3> QED
      BY <3>1, <3>2
  <2> QED
    BY <2>2, <2>4
<1> QED
  BY <1>1, QueueInvariant, PTL DEF Spec, CoalescingIsInvisible

HIDE QueueAssumption

----------------------------------------------------------------------------
(* The channel of the worker. *)

\* The places of the messages of a kind.
Of(s, kind) == {i \in DOMAIN s : s[i].kind = kind}

\* What is sent comes last.
LEMMA Sends ==
    ASSUME NEW S, NEW s \in Seq(S), NEW m
    PROVE  /\ s \o <<m>> \in Seq(Range(s \o <<m>>))
           /\ Len(s) \in Nat /\ DOMAIN s = 1 .. Len(s)
           /\ DOMAIN (s \o <<m>>) = 1 .. Len(s) + 1
           /\ \A i \in 1 .. Len(s) : (s \o <<m>>)[i] = s[i]
           /\ (s \o <<m>>)[Len(s) + 1] = m
<1> DEFINE t == s \o <<m>>
           W == S \cup {m}
<1>1. s \in Seq(W) /\ <<m>> \in Seq(W) /\ Len(s) \in Nat /\ DOMAIN s = 1 .. Len(s)
  <2>1. s \in Seq(W)
    BY SeqMonotonic
  <2> QED
    BY <2>1
<1>2. /\ t \in Seq(W) /\ Len(t) = Len(s) + 1
      /\ \A i \in 1 .. Len(s) : t[i] = s[i]
      /\ t[Len(s) + 1] = m
  <2> HIDE DEF W
  <2>1. Len(<<m>>) = 1 /\ <<m>>[1] = m
    OBVIOUS
  <2>2. /\ t \in Seq(W) /\ Len(t) = Len(s) + Len(<<m>>)
        /\ \A i \in 1 .. Len(s) + Len(<<m>>) :
              t[i] = IF i <= Len(s) THEN s[i] ELSE <<m>>[i - Len(s)]
    BY <1>1, ConcatProperties
  <2> HIDE DEF t
  <2> QED
    BY <1>1, <2>1, <2>2
<1> HIDE DEF t
<1>3. t \in Seq(Range(t))
  <2>1. DOMAIN t = 1 .. Len(t) /\ Len(t) \in Nat
    BY <1>2
  <2>2. \A i \in 1 .. Len(t) : t[i] \in Range(t)
    BY <2>1 DEF Range
  <2>3. t = [i \in 1 .. Len(t) |-> t[i]]
    BY <1>2, <2>1
  <2> QED
    BY <2>1, <2>2, <2>3
<1>4. DOMAIN t = 1 .. Len(s) + 1
  BY <1>2
<1> QED
  BY <1>1, <1>2, <1>3, <1>4 DEF t

\* What is received comes first.
LEMMA Takes ==
    ASSUME NEW S, NEW s \in Seq(S), NEW n \in Nat, n <= Len(s)
    PROVE  /\ SubSeq(s, n + 1, Len(s)) \in Seq(Range(SubSeq(s, n + 1, Len(s))))
           /\ Len(s) \in Nat /\ DOMAIN s = 1 .. Len(s)
           /\ DOMAIN SubSeq(s, n + 1, Len(s)) = 1 .. Len(s) - n
           /\ \A i \in 1 .. Len(s) - n : SubSeq(s, n + 1, Len(s))[i] = s[n + i]
<1> DEFINE t == SubSeq(s, n + 1, Len(s))
<1>1. Len(s) \in Nat /\ DOMAIN s = 1 .. Len(s)
  OBVIOUS
<1>2. /\ t \in Seq(S) /\ Len(t) = Len(s) - n
      /\ \A i \in 1 .. Len(s) - n : t[i] = s[n + i]
  <2>1. \A i \in n + 1 .. Len(s) : s[i] \in S
    BY <1>1
  <2>2. /\ t \in Seq(S)
        /\ Len(t) = IF n + 1 <= Len(s) THEN Len(s) - (n + 1) + 1 ELSE 0
        /\ \A i \in 1 .. Len(s) - (n + 1) + 1 : t[i] = s[(n + 1) + i - 1]
    BY <1>1, <2>1, SubSeqProperties
  <2> HIDE DEF t
  <2>3. Len(t) = Len(s) - n
    <3>1. Len(t) = IF n + 1 <= Len(s) THEN Len(s) - (n + 1) + 1 ELSE 0
      BY <2>2
    <3>2. CASE n + 1 <= Len(s)
      BY <1>1, <3>1, <3>2
    <3>3. CASE n = Len(s)
      BY <1>1, <3>1, <3>3
    <3>4. Len(s) \in Nat
      BY <1>1
    <3>5. n + 1 <= Len(s) \/ n = Len(s)
      BY <3>4
    <3> QED
      BY <3>2, <3>3, <3>5
  <2>4. ASSUME NEW i \in 1 .. Len(s) - n PROVE t[i] = s[n + i]
    <3>1. i \in 1 .. Len(s) - (n + 1) + 1 /\ (n + 1) + i - 1 = n + i
      BY <1>1
    <3>2. t[i] = s[(n + 1) + i - 1]
      BY <2>2, <3>1
    <3> QED
      BY <3>1, <3>2
  <2> QED
    BY <2>2, <2>3, <2>4
<1> HIDE DEF t
<1>3. t \in Seq(Range(t))
  <2>1. DOMAIN t = 1 .. Len(t) /\ Len(t) \in Nat
    BY <1>2
  <2>2. \A i \in 1 .. Len(t) : t[i] \in Range(t)
    BY <2>1 DEF Range
  <2>3. t = [i \in 1 .. Len(t) |-> t[i]]
    BY <1>2, <2>1
  <2> QED
    BY <2>1, <2>2, <2>3
<1>4. DOMAIN t = 1 .. Len(s) - n
  BY <1>2
<1> QED
  BY <1>1, <1>2, <1>3, <1>4 DEF t

\* The messages of a kind are finitely many, and one more when one is sent.
LEMMA SentCounts ==
    ASSUME NEW S, NEW s \in Seq(S), NEW m, NEW kind
    PROVE  /\ IsFiniteSet(Of(s, kind)) /\ Cardinality(Of(s, kind)) \in Nat
           /\ Cardinality(Of(s \o <<m>>, kind)) =
                 Cardinality(Of(s, kind)) + IF m.kind = kind THEN 1 ELSE 0
<1> DEFINE t == s \o <<m>>
<1>1. /\ DOMAIN t = 1 .. Len(s) + 1 /\ DOMAIN s = 1 .. Len(s) /\ Len(s) \in Nat
      /\ \A i \in 1 .. Len(s) : t[i] = s[i]
      /\ t[Len(s) + 1] = m
  BY Sends
<1> HIDE DEF t
<1>2. IsFiniteSet(Of(s, kind)) /\ Cardinality(Of(s, kind)) \in Nat
  <2>1. IsFiniteSet(1 .. Len(s)) /\ Of(s, kind) \in SUBSET (1 .. Len(s))
    BY <1>1, FS_Interval DEF Of
  <2>2. IsFiniteSet(Of(s, kind))
    BY <2>1, FS_Subset
  <2> QED
    BY <2>2, FS_CardinalityType
<1>3. Len(s) + 1 \notin Of(s, kind)
  BY <1>1 DEF Of
<1>4. CASE m.kind = kind
  <2>1. Of(t, kind) = Of(s, kind) \cup {Len(s) + 1}
    BY <1>1, <1>4 DEF Of
  <2> QED
    BY <1>2, <1>3, <1>4, <2>1, FS_AddElement DEF t
<1>5. CASE m.kind # kind
  <2>1. Of(t, kind) = Of(s, kind)
    BY <1>1, <1>5 DEF Of
  <2> QED
    BY <1>2, <1>5, <2>1 DEF t
<1> QED
  BY <1>2, <1>4, <1>5

\* Receiving n messages of a kind leaves n fewer of it, and as many of another.
LEMMA ReceivedCounts ==
    ASSUME NEW S, NEW s \in Seq(S), NEW n \in Nat, n <= Len(s), NEW kind,
           \/ \A i \in 1 .. n : s[i].kind = kind
           \/ \A i \in 1 .. n : s[i].kind # kind
    PROVE  Cardinality(Of(SubSeq(s, n + 1, Len(s)), kind)) =
              Cardinality(Of(s, kind)) - IF \A i \in 1 .. n : s[i].kind = kind THEN n ELSE 0
<1> DEFINE t == SubSeq(s, n + 1, Len(s))
           late == {i \in Of(s, kind) : i > n}
           early == {i \in Of(s, kind) : i <= n}
           shift == [i \in late |-> i - n]
<1>1. /\ DOMAIN t = 1 .. Len(s) - n /\ DOMAIN s = 1 .. Len(s) /\ Len(s) \in Nat
      /\ \A i \in 1 .. Len(s) - n : t[i] = s[n + i]
  BY Takes
<1>2. IsFiniteSet(Of(s, kind))
  BY SentCounts
<1>3. IsFiniteSet(late) /\ IsFiniteSet(early) /\ IsFiniteSet(late \cap early)
  BY <1>2, FS_Subset
<1>4. Cardinality(late) \in Nat /\ Cardinality(early) \in Nat
  BY <1>3, FS_CardinalityType
<1>5. Cardinality(Of(s, kind)) = Cardinality(late) + Cardinality(early)
  <2>1. late \cap early = {} /\ late \cup early = Of(s, kind)
    BY <1>1 DEF Of
  <2>2. Cardinality(late \cap early) = 0
    BY <2>1, FS_EmptySet
  <2> HIDE DEF late, early
  <2>3. Cardinality(late \cup early)
            = Cardinality(late) + Cardinality(early) - Cardinality(late \cap early)
    BY <1>3, FS_Union
  <2>4. Cardinality(late \cup early) = Cardinality(Of(s, kind))
    BY <2>1, Zenon
  <2> QED
    BY <1>4, <2>2, <2>3, <2>4
<1>6. Cardinality(Of(t, kind)) = Cardinality(late)
  <2>1. shift \in Bijection(late, Of(t, kind))
    <3>1. \A i \in late : i - n \in Of(t, kind)
      <4> SUFFICES ASSUME NEW i \in late PROVE i - n \in Of(t, kind)
        OBVIOUS
      <4>1. i \in 1 .. Len(s) /\ i > n /\ s[i].kind = kind
        BY <1>1 DEF Of
      <4>2. i - n \in 1 .. Len(s) - n /\ n + (i - n) = i
        BY <1>1, <4>1
      <4>3. t[i - n] = s[i]
        BY <1>1, <4>2
      <4> HIDE DEF t
      <4> QED
        BY <1>1, <4>1, <4>2, <4>3 DEF Of
    <3>2. \A j \in Of(t, kind) : j + n \in late /\ (j + n) - n = j
      <4> SUFFICES ASSUME NEW j \in Of(t, kind) PROVE j + n \in late /\ (j + n) - n = j
        OBVIOUS
      <4>1. j \in 1 .. Len(s) - n /\ t[j].kind = kind
        <5> HIDE DEF t
        <5> QED
          BY <1>1 DEF Of
      <4>2. j + n \in 1 .. Len(s) /\ j + n > n /\ (j + n) - n = j /\ n + j = j + n
        BY <1>1, <4>1
      <4>3. s[j + n].kind = kind
        BY <1>1, <4>1, <4>2
      <4> QED
        BY <1>1, <4>2, <4>3 DEF Of
    <3>3. \A i, j \in late : i - n = j - n => i = j
      BY <1>1 DEF Of
    <3> HIDE DEF t, late
    <3> QED
      BY <3>1, <3>2, <3>3, Fun_IsBij
  <2>2. ExistsBijection(late, Of(t, kind))
    BY <2>1 DEF ExistsBijection
  <2> HIDE DEF t, late
  <2> QED
    BY <1>3, <2>2, FS_Bijection
<1>7. Cardinality(early) = IF \A i \in 1 .. n : s[i].kind = kind THEN n ELSE 0
  <2>1. CASE \A i \in 1 .. n : s[i].kind = kind
    <3>1. early = 1 .. n
      BY <1>1, <2>1 DEF Of
    <3>2. Cardinality(1 .. n) = n
      BY FS_Interval
    <3> QED
      BY <2>1, <3>1, <3>2
  <2>2. CASE n # 0 /\ \A i \in 1 .. n : s[i].kind # kind
    <3>1. early = {}
      BY <1>1, <2>2 DEF Of
    <3>2. ~ \A i \in 1 .. n : s[i].kind = kind
      BY <2>2
    <3> QED
      BY <3>1, <3>2, FS_EmptySet
  <2> QED
    BY <2>1, <2>2
<1> HIDE DEF late, early
<1> QED
  BY <1>4, <1>5, <1>6, <1>7 DEF t

\* A burst has an end: the least bound of its positions.
LEMMA MaxExists ==
    ASSUME NEW n \in Nat, NEW s \in SUBSET (0 .. n), s # {}
    PROVE  Max(s) \in s
<1> DEFINE less == {ss \in Nat \X Nat : ss[1] < ss[2]}
           bounds == {k \in Nat : \A x \in s : x <= k}
<1>1. IsWellFoundedOn(less, Nat)
  BY NatLessThanWellFounded DEF OpToRel
<1>2. bounds \subseteq Nat /\ bounds # {}
  <2>1. n \in bounds
    OBVIOUS
  <2> QED
    BY <2>1
<1>3. PICK k \in bounds : \A j \in bounds : ~(<<j, k>> \in less)
  <2> HIDE DEF less, bounds
  <2> QED
    BY <1>1, <1>2, WFMin
<1>4. k \in Nat /\ \A x \in s : x \in Nat /\ x <= k
  BY <1>3
<1>5. k \in s
  <2>1. CASE k = 0
    <3>1. PICK x \in s : TRUE
      OBVIOUS
    <3>2. x = 0
      BY <1>4, <2>1
    <3> QED
      BY <2>1, <3>2
  <2>2. CASE k # 0
    <3>1. k - 1 \in Nat /\ <<k - 1, k>> \in less
      BY <1>4, <2>2
    <3>2. k - 1 \notin bounds
      BY <1>3, <3>1
    <3>3. PICK x \in s : ~(x <= k - 1)
      BY <3>1, <3>2
    <3>4. x = k
      BY <1>4, <3>3
    <3> QED
      BY <3>4
  <2> QED
    BY <2>1, <2>2
<1> QED
  BY <1>4, <1>5 DEF Max

----------------------------------------------------------------------------
(* The inductive invariant. *)

Removing(x) == \E i \in Queued("remove") : inbox[i].id = x

\* A sequence of whatever was sent; the ids of observers start at 1.
Channels ==
    /\ inbox \in Seq(Range(inbox))
    /\ nextId \in Nat \ {0}
    /\ rebind = [at |-> rebind.at, was |-> rebind.was, next |-> rebind.next]

\* The poller asks for one observer at a time and prepares none before the
\* answer.
AsksOnce ==
    /\ \A i, j \in Queued("install") : i = j
    /\ \A i \in Queued("install") : rebind.at = "asked" /\ inbox[i].id # 0
    /\ rebind.at # "swap" => rebind.next = NoBinding

\* A worker that has ended has no observer.
EndsEmpty ==
    /\ NoBinding \notin resources
    /\ worker = "running" \/ resources = {}

WorkerInvariant == Channels /\ AsksOnce /\ EndsEmpty /\ NothingLeaks

\* What happens to the channel loses no removal and adds no installation.
Orderly ==
    /\ inbox' \in Seq(Range(inbox'))
    /\ \A i, j \in Queued("install")' : i = j
    /\ \A i \in Queued("install")' : rebind.at = "asked" /\ inbox'[i].id # 0
    /\ \A x : Removing(x) => Removing(x)'

\* A message that asks for no observer.
LEMMA SendKeeps ==
    ASSUME WorkerInvariant, NEW m, m.kind # "install", inbox' = inbox \o <<m>>
    PROVE  /\ Orderly
           /\ Cardinality(Queued("event"))' =
                 Cardinality(Queued("event")) + IF m.kind = "event" THEN 1 ELSE 0
           /\ m.kind = "remove" => Removing(m.id)'
<1>1. inbox \in Seq(Range(inbox))
  BY DEF WorkerInvariant, Channels
<1>2. /\ inbox' \in Seq(Range(inbox'))
      /\ Len(inbox) \in Nat /\ DOMAIN inbox = 1 .. Len(inbox)
      /\ DOMAIN inbox' = 1 .. Len(inbox) + 1
      /\ \A i \in 1 .. Len(inbox) : inbox'[i] = inbox[i]
      /\ inbox'[Len(inbox) + 1] = m
  BY <1>1, Sends
<1>3. Cardinality(Queued("event"))' =
         Cardinality(Queued("event")) + IF m.kind = "event" THEN 1 ELSE 0
  <2>1. Queued("event") = Of(inbox, "event") /\ Queued("event")' = Of(inbox \o <<m>>, "event")
    BY DEF Of, Queued
  <2>2. Cardinality(Of(inbox \o <<m>>, "event")) =
           Cardinality(Of(inbox, "event")) + IF m.kind = "event" THEN 1 ELSE 0
    BY <1>1, SentCounts
  <2> QED
    BY <2>1, <2>2, Zenon
<1>4. \A i \in Queued("install")' : i \in Queued("install") /\ inbox'[i] = inbox[i]
  BY <1>2 DEF Queued
<1>5. \A i \in Queued("remove") : i \in Queued("remove")' /\ inbox'[i] = inbox[i]
  BY <1>2 DEF Queued
<1>6. m.kind = "remove" => Len(inbox) + 1 \in Queued("remove")'
  BY <1>2 DEF Queued
<1>7. /\ \A i, j \in Queued("install")' : i = j
      /\ \A i \in Queued("install")' : rebind.at = "asked" /\ inbox'[i].id # 0
  BY <1>4 DEF WorkerInvariant, AsksOnce
<1>8. \A x : Removing(x) => Removing(x)'
  BY <1>5 DEF Removing
<1>9. m.kind = "remove" => Removing(m.id)'
  BY <1>2, <1>6 DEF Removing
<1> QED
  BY <1>2, <1>3, <1>7, <1>8, <1>9 DEF Orderly

\* The same through Sent, which sends nothing to a worker that has ended.
LEMMA SentKeeps ==
    ASSUME WorkerInvariant, NEW ms, inbox' = Sent(ms),
           \/ ms = <<>>
           \/ \E m : ms = <<m>> /\ m.kind \notin {"install", "event"}
    PROVE  /\ Orderly
           /\ Cardinality(Queued("event"))' = Cardinality(Queued("event"))
           /\ \A m : ms = <<m>> /\ m.kind = "remove" /\ worker = "running" => Removing(m.id)'
<1>1. inbox \in Seq(Range(inbox))
  BY DEF WorkerInvariant, Channels
<1>2. CASE inbox' = inbox /\ (worker = "running" => ms = <<>>)
  <2>1. Orderly
    BY <1>2 DEF WorkerInvariant, Channels, AsksOnce, Orderly, Queued, Removing
  <2>2. Queued("event")' = Queued("event")
    BY <1>2 DEF Queued
  <2> QED
    BY <1>2, <2>1, <2>2
<1>3. CASE worker = "running" /\ ms # <<>>
  <2>1. PICK m : ms = <<m>> /\ m.kind \notin {"install", "event"}
    BY <1>3
  <2>2. inbox' = inbox \o <<m>>
    BY <1>3, <2>1 DEF Sent
  <2>3. /\ Orderly
        /\ Cardinality(Queued("event"))' = Cardinality(Queued("event"))
        /\ m.kind = "remove" => Removing(m.id)'
    <3>1. Cardinality(Queued("event")) \in Nat
      BY <1>1, SentCounts DEF Of, Queued
    <3>2. m.kind # "install" /\ m.kind # "event"
      BY <2>1
    <3> QED
      BY <2>2, <3>1, <3>2, SendKeeps
  <2>4. \A x : ms = <<x>> => x = m
    BY <2>1
  <2> QED
    BY <2>3, <2>4
<1>4. inbox \o <<>> = inbox
  BY <1>1, ConcatEmptySeq
<1> QED
  BY <1>2, <1>3, <1>4 DEF Sent

\* Messages that are taken, and remove nothing.
LEMMA TakeKeeps ==
    ASSUME WorkerInvariant, NEW n \in Nat, n <= Len(inbox),
           inbox' = SubSeq(inbox, n + 1, Len(inbox))
    PROVE  /\ inbox' \in Seq(Range(inbox'))
           /\ \A i, j \in Queued("install")' : i = j
           /\ \A i \in Queued("install")' : rebind.at = "asked" /\ inbox'[i].id # 0
           /\ (\E i \in 1 .. n : inbox[i].kind = "install") => Queued("install")' = {}
           /\ \A x : Removing(x) => \/ Removing(x)'
                                    \/ \E i \in 1 .. n : inbox[i].kind = "remove" /\ inbox[i].id = x
<1>1. inbox \in Seq(Range(inbox))
  BY DEF WorkerInvariant, Channels
<1>2. /\ inbox' \in Seq(Range(inbox'))
      /\ Len(inbox) \in Nat /\ DOMAIN inbox = 1 .. Len(inbox)
      /\ DOMAIN inbox' = 1 .. Len(inbox) - n
      /\ \A i \in 1 .. Len(inbox) - n : inbox'[i] = inbox[n + i]
  BY <1>1, Takes
<1>3. ASSUME NEW i \in Queued("install")'
      PROVE  i \in 1 .. Len(inbox) - n /\ n + i \in Queued("install") /\ inbox'[i] = inbox[n + i]
  <2>1. i \in 1 .. Len(inbox) - n /\ inbox'[i].kind = "install"
    BY <1>2 DEF Queued
  <2>2. n + i \in 1 .. Len(inbox) /\ inbox'[i] = inbox[n + i]
    BY <1>2, <2>1
  <2> QED
    BY <1>2, <2>1, <2>2 DEF Queued
<1>4. \A i, j \in Queued("install")' : i = j
  <2> SUFFICES ASSUME NEW i \in Queued("install")', NEW j \in Queued("install")' PROVE i = j
    OBVIOUS
  <2>1. n + i = n + j
    BY <1>3 DEF WorkerInvariant, AsksOnce
  <2>2. i \in Nat /\ j \in Nat
    BY <1>2, <1>3
  <2> QED
    BY <2>1, <2>2
<1>5. \A i \in Queued("install")' : rebind.at = "asked" /\ inbox'[i].id # 0
  BY <1>3 DEF WorkerInvariant, AsksOnce
<1>6. ASSUME NEW k \in 1 .. n, inbox[k].kind = "install" PROVE Queued("install")' = {}
  <2> SUFFICES ASSUME NEW i \in Queued("install")' PROVE FALSE
    OBVIOUS
  <2>1. k \in Queued("install")
    BY <1>2, <1>6 DEF Queued
  <2>2. n + i = k
    BY <1>3, <2>1 DEF WorkerInvariant, AsksOnce
  <2> QED
    BY <1>2, <1>3, <2>2
<1>7. ASSUME NEW x, Removing(x), ~ \E i \in 1 .. n : inbox[i].kind = "remove" /\ inbox[i].id = x
      PROVE  Removing(x)'
  <2>1. PICK i \in 1 .. Len(inbox) : inbox[i].kind = "remove" /\ inbox[i].id = x
    BY <1>2, <1>7 DEF Removing, Queued
  <2>2. i > n
    BY <1>2, <1>7, <2>1
  <2>3. i - n \in 1 .. Len(inbox) - n /\ n + (i - n) = i
    BY <1>2, <2>1, <2>2
  <2>4. inbox'[i - n] = inbox[i]
    BY <1>2, <2>3
  <2>5. i - n \in Queued("remove")'
    BY <1>2, <2>1, <2>3, <2>4 DEF Queued
  <2> QED
    BY <2>1, <2>4, <2>5 DEF Removing
<1> QED
  BY <1>2, <1>4, <1>5, <1>6, <1>7

\* A step that leaves alone what the invariant speaks of.
LEMMA Untouched ==
    ASSUME WorkerInvariant,
           UNCHANGED <<inbox, worker, retained, resources, bound, rebind, nextId>>
    PROVE  WorkerInvariant'
BY DEF WorkerInvariant, Channels, AsksOnce, EndsEmpty, NothingLeaks, RetainsAreBalanced,
       NoOrphanObserver, Queued

\* The callback retains the element of the event it sends.
LEMMA CallbackKeeps ==
    ASSUME WorkerInvariant, Callback
    PROVE  WorkerInvariant'
<1> DEFINE n == Head(posted)
           m == ObserverEvent(n.pid, n.id, n.el)
<1>1. inbox \in Seq(Range(inbox))
  BY DEF WorkerInvariant, Channels
<1>2. inbox' = inbox \o <<m>>
  <2> HIDE DEF m
  <2>1. inbox \in Seq(Range(inbox) \cup {m})
    BY <1>1, SeqMonotonic
  <2> QED
    BY <2>1, AppendIsConcat DEF Callback, m, n
<1>3. m.kind = "event"
  BY DEF ObserverEvent, Message
<1> HIDE DEF m
<1>4. /\ Orderly
      /\ Cardinality(Queued("event"))' = Cardinality(Queued("event")) + 1
  BY <1>2, <1>3, SendKeeps
<1>5. RetainsAreBalanced'
  BY <1>4 DEF WorkerInvariant, NothingLeaks, RetainsAreBalanced, Callback
<1> QED
  BY <1>4, <1>5 DEF WorkerInvariant, Channels, AsksOnce, EndsEmpty, NothingLeaks,
       NoOrphanObserver, Removing, Orderly, Callback, binder

\* A drain releases what its burst retained.
LEMMA EventKeeps ==
    ASSUME WorkerInvariant, WorkerEvent
    PROVE  WorkerInvariant'
<1> DEFINE p == Head(inbox).pid
           bursts == {n \in 1 .. Len(inbox) :
                        \A i \in 1 .. n : inbox[i].kind = "event" /\ inbox[i].pid = p}
<1>1. inbox \in Seq(Range(inbox)) /\ inbox # <<>> /\ Head(inbox).kind = "event"
  BY DEF WorkerInvariant, Channels, WorkerEvent, Receives
<1>2. Len(inbox) \in Nat /\ 1 <= Len(inbox) /\ Head(inbox) = inbox[1]
  BY <1>1
<1>3. Burst \in bursts
  <2>1. 1 \in bursts
    BY <1>1, <1>2
  <2>2. bursts \in SUBSET (0 .. Len(inbox)) /\ bursts # {}
    BY <1>2, <2>1
  <2>3. Burst = Max(bursts)
    BY DEF Burst
  <2> HIDE DEF bursts
  <2> QED
    BY <1>2, <2>2, <2>3, MaxExists
<1>4. /\ Burst \in Nat /\ Burst <= Len(inbox)
      /\ \A i \in 1 .. Burst : inbox[i].kind = "event"
  BY <1>2, <1>3
<1>5. inbox' = SubSeq(inbox, Burst + 1, Len(inbox))
  BY DEF WorkerEvent
<1>6. Orderly
  BY <1>4, <1>5, TakeKeeps DEF Orderly
<1>7. Cardinality(Queued("event"))' = Cardinality(Queued("event")) - Burst
  <2>1. Cardinality(Of(SubSeq(inbox, Burst + 1, Len(inbox)), "event")) =
           Cardinality(Of(inbox, "event")) - Burst
    BY <1>1, <1>4, ReceivedCounts
  <2>2. /\ Queued("event") = Of(inbox, "event")
        /\ Queued("event")' = Of(SubSeq(inbox, Burst + 1, Len(inbox)), "event")
    BY <1>5 DEF Of, Queued
  <2> QED
    BY <2>1, <2>2, Zenon
<1>8. RetainsAreBalanced'
  BY <1>7 DEF WorkerInvariant, NothingLeaks, RetainsAreBalanced, WorkerEvent, Receives, Released
<1> QED
  BY <1>6, <1>8 DEF WorkerInvariant, Channels, AsksOnce, EndsEmpty, NothingLeaks,
       NoOrphanObserver, Removing, Orderly, WorkerEvent, binder

\* The next message, when it is no event.
LEMMA NextKeeps ==
    ASSUME WorkerInvariant, inbox # <<>>, Head(inbox).kind # "event", inbox' = Tail(inbox)
    PROVE  /\ inbox' \in Seq(Range(inbox'))
           /\ \A i, j \in Queued("install")' : i = j
           /\ \A i \in Queued("install")' : rebind.at = "asked" /\ inbox'[i].id # 0
           /\ Head(inbox).kind = "install" => Queued("install")' = {}
           /\ \A x : Removing(x) => \/ Removing(x)'
                                    \/ Head(inbox).kind = "remove" /\ Head(inbox).id = x
           /\ Cardinality(Queued("event"))' = Cardinality(Queued("event"))
<1>1. inbox \in Seq(Range(inbox))
  BY DEF WorkerInvariant, Channels
<1>2. Len(inbox) \in Nat /\ 1 <= Len(inbox) /\ Head(inbox) = inbox[1]
  BY <1>1
<1>3. inbox' = SubSeq(inbox, 1 + 1, Len(inbox))
  BY <1>1, TailIsSubSeq
<1>4. /\ inbox' \in Seq(Range(inbox'))
      /\ \A i, j \in Queued("install")' : i = j
      /\ \A i \in Queued("install")' : rebind.at = "asked" /\ inbox'[i].id # 0
      /\ (\E i \in 1 .. 1 : inbox[i].kind = "install") => Queued("install")' = {}
      /\ \A x : Removing(x) => \/ Removing(x)'
                               \/ \E i \in 1 .. 1 : inbox[i].kind = "remove" /\ inbox[i].id = x
  BY <1>2, <1>3, TakeKeeps
<1>5. Cardinality(Queued("event"))' = Cardinality(Queued("event"))
  <2>1. Cardinality(Of(SubSeq(inbox, 1 + 1, Len(inbox)), "event")) =
           Cardinality(Of(inbox, "event")) - 0
    <3>1. \A i \in 1 .. 1 : inbox[i].kind # "event"
      BY <1>2
    <3>2. ~ \A i \in 1 .. 1 : inbox[i].kind = "event"
      BY <1>2
    <3> QED
      BY <1>1, <1>2, <3>1, <3>2, ReceivedCounts
  <2>2. Cardinality(Of(inbox, "event")) \in Nat
    BY <1>1, SentCounts
  <2>3. /\ Queued("event") = Of(inbox, "event")
        /\ Queued("event")' = Of(SubSeq(inbox, 1 + 1, Len(inbox)), "event")
    BY <1>3 DEF Of, Queued
  <2>4. Cardinality(Of(SubSeq(inbox, 1 + 1, Len(inbox)), "event")) = Cardinality(Of(inbox, "event"))
    BY <2>1, <2>2
  <2> QED
    BY <2>3, <2>4, Zenon
<1>6. Head(inbox).kind = "install" => Queued("install")' = {}
  <2>1. 1 \in 1 .. 1
    OBVIOUS
  <2> QED
    BY <1>2, <1>4, <2>1
<1>7. \A x : Removing(x) => \/ Removing(x)'
                            \/ Head(inbox).kind = "remove" /\ Head(inbox).id = x
  <2>1. \A i \in 1 .. 1 : i = 1
    OBVIOUS
  <2> QED
    BY <1>2, <1>4, <2>1
<1> QED
  BY <1>4, <1>5, <1>6, <1>7

\* A safety poll changes no observer.
LEMMA PollKeeps ==
    ASSUME WorkerInvariant, WorkerPoll
    PROVE  WorkerInvariant'
<1>1. /\ inbox # <<>> /\ Head(inbox).kind = "poll" /\ inbox' = Tail(inbox)
      /\ UNCHANGED <<worker, resources, retained, bound, rebind, nextId>>
  BY DEF WorkerPoll, Receives, binder
<1>2. /\ Orderly
      /\ Cardinality(Queued("event"))' = Cardinality(Queued("event"))
  BY <1>1, NextKeeps DEF Orderly
<1> QED
  BY <1>1, <1>2 DEF WorkerInvariant, Channels, AsksOnce, EndsEmpty, NothingLeaks,
       RetainsAreBalanced, NoOrphanObserver, Removing, Orderly

\* The observer that is registered is the one the poller has asked for.
LEMMA InstallKeeps ==
    ASSUME WorkerInvariant, WorkerInstall
    PROVE  WorkerInvariant'
<1>1. inbox # <<>> /\ Head(inbox).kind = "install" /\ inbox' = Tail(inbox)
  BY DEF WorkerInstall, Receives
<1>2. 1 \in Queued("install") /\ inbox[1] = Head(inbox)
  <2>1. inbox \in Seq(Range(inbox))
    BY DEF WorkerInvariant, Channels
  <2>2. 1 \in DOMAIN inbox /\ inbox[1] = Head(inbox)
    BY <1>1, <2>1
  <2> QED
    BY <1>1, <2>2 DEF Queued
<1>3. rebind.at = "asked" /\ Head(inbox).id # 0 /\ rebind.next = NoBinding
  BY <1>2 DEF WorkerInvariant, AsksOnce
<1>4. /\ inbox' \in Seq(Range(inbox'))
      /\ Queued("install")' = {}
      /\ \A x : Removing(x) => Removing(x)'
      /\ Cardinality(Queued("event"))' = Cardinality(Queued("event"))
  BY <1>1, NextKeeps
<1> DEFINE b == [pid |-> Head(inbox).pid, id |-> Head(inbox).id]
<1>5. PICK failed \in BOOLEAN :
         /\ resources' = IF failed THEN resources ELSE resources \cup {b}
         /\ rebind' = [rebind EXCEPT !.at = "swap",
                                     !.next = IF failed THEN NoBinding ELSE b]
  BY DEF WorkerInstall, MayFail
<1>6. UNCHANGED <<worker, retained, bound, nextId>> /\ worker = "running"
  BY DEF WorkerInstall, Receives
<1>7. b # NoBinding
  BY <1>3 DEF NoBinding
<1>8. /\ rebind'.at = "swap" /\ rebind'.next = IF failed THEN NoBinding ELSE b
      /\ rebind' = [at |-> rebind'.at, was |-> rebind'.was, next |-> rebind'.next]
  <2>1. rebind = [at |-> rebind.at, was |-> rebind.was, next |-> rebind.next]
    BY DEF WorkerInvariant, Channels
  <2> HIDE DEF b
  <2> QED
    BY <1>5, <2>1
<1> HIDE DEF b
<1>9. NoOrphanObserver'
  <2> SUFFICES ASSUME NEW r \in resources'
               PROVE  r \in {bound', rebind'.next} \/ Removing(r.id)'
    BY DEF NoOrphanObserver, Removing
  <2>1. CASE r \in resources
    <3>1. r # NoBinding
      BY <2>1 DEF WorkerInvariant, EndsEmpty
    <3>2. r = bound \/ Removing(r.id)
      BY <1>3, <2>1, <3>1 DEF WorkerInvariant, NothingLeaks, NoOrphanObserver, Removing
    <3> QED
      BY <1>4, <1>6, <3>2
  <2>2. CASE r \notin resources
    BY <1>5, <1>8, <2>2
  <2> QED
    BY <2>1, <2>2
<1>10. EndsEmpty'
  BY <1>5, <1>6, <1>7 DEF WorkerInvariant, EndsEmpty
<1>11. Channels' /\ AsksOnce'
  BY <1>4, <1>6, <1>8 DEF WorkerInvariant, Channels, AsksOnce
<1>12. RetainsAreBalanced'
  BY <1>4, <1>6 DEF WorkerInvariant, NothingLeaks, RetainsAreBalanced
<1> QED
  BY <1>9, <1>10, <1>11, <1>12 DEF WorkerInvariant, NothingLeaks

\* A removal takes the observers it was queued for.
LEMMA RemoveKeeps ==
    ASSUME WorkerInvariant, WorkerRemove
    PROVE  WorkerInvariant'
<1>1. /\ inbox # <<>> /\ Head(inbox).kind = "remove" /\ inbox' = Tail(inbox)
      /\ UNCHANGED <<worker, retained, bound, rebind, nextId>>
      /\ resources' = {r \in resources : r.id # Head(inbox).id}
  BY DEF WorkerRemove, Receives, binder
<1>2. /\ inbox' \in Seq(Range(inbox'))
      /\ \A i, j \in Queued("install")' : i = j
      /\ \A i \in Queued("install")' : rebind.at = "asked" /\ inbox'[i].id # 0
      /\ \A x : Removing(x) => Removing(x)' \/ Head(inbox).id = x
      /\ Cardinality(Queued("event"))' = Cardinality(Queued("event"))
  BY <1>1, NextKeeps
<1>3. NoOrphanObserver'
  <2> SUFFICES ASSUME NEW r \in resources'
               PROVE  r \in {bound', rebind'.next} \/ Removing(r.id)'
    BY DEF NoOrphanObserver, Removing
  <2>1. r \in {bound, rebind.next} \/ Removing(r.id)
    BY <1>1 DEF WorkerInvariant, NothingLeaks, NoOrphanObserver, Removing
  <2> QED
    BY <1>1, <1>2, <2>1
<1>4. Channels' /\ AsksOnce' /\ EndsEmpty' /\ RetainsAreBalanced'
  BY <1>1, <1>2 DEF WorkerInvariant, Channels, AsksOnce, EndsEmpty, NothingLeaks,
       RetainsAreBalanced
<1> QED
  BY <1>3, <1>4 DEF WorkerInvariant, NothingLeaks

\* The end of the loop drops everything.
LEMMA StopKeeps ==
    ASSUME WorkerInvariant, WorkerStop
    PROVE  WorkerInvariant'
<1>1. /\ worker' = "stopped" /\ resources' = {} /\ inbox' = <<>>
      /\ rebind' = Unanswered(rebind) /\ nextId' = nextId
  BY DEF WorkerStop
<1>2. rebind = [at |-> rebind.at, was |-> rebind.was, next |-> rebind.next]
  BY DEF WorkerInvariant, Channels
<1>3. /\ rebind' = [at |-> rebind'.at, was |-> rebind'.was, next |-> rebind'.next]
      /\ rebind'.at # "swap" => rebind'.next = NoBinding
  <2>1. CASE rebind.at = "asked"
    <3>1. rebind' = [rebind EXCEPT !.at = "swap", !.next = NoBinding]
      BY <1>1, <2>1 DEF Unanswered
    <3> QED
      BY <1>2, <3>1
  <2>2. CASE rebind.at # "asked"
    <3>1. rebind' = rebind
      BY <1>1, <2>2 DEF Unanswered
    <3> QED
      BY <1>2, <3>1 DEF WorkerInvariant, AsksOnce
  <2> QED
    BY <2>1, <2>2
<1>4. Queued("install")' = {} /\ <<>> \in Seq(Range(<<>>))
  BY <1>1 DEF Queued
<1> QED
  BY <1>1, <1>3, <1>4 DEF WorkerInvariant, Channels, AsksOnce, EndsEmpty, NothingLeaks,
       RetainsAreBalanced, NoOrphanObserver

\* What only sends a message of its own: a tick of a safety poller, a shutdown.
LEMMA OneMessageKeeps ==
    ASSUME WorkerInvariant, NEW m, m.kind \notin {"install", "event"}, inbox' = Sent(<<m>>),
           UNCHANGED <<worker, retained, resources, bound, rebind, nextId>>
    PROVE  WorkerInvariant'
<1>1. Orderly /\ Cardinality(Queued("event"))' = Cardinality(Queued("event"))
  BY SentKeeps
<1> QED
  BY <1>1 DEF WorkerInvariant, Channels, AsksOnce, EndsEmpty, NothingLeaks,
       RetainsAreBalanced, NoOrphanObserver, Removing, Orderly

\* The poller asks only when nothing is asked for.
LEMMA TickKeeps ==
    ASSUME WorkerInvariant, RebindTick
    PROVE  WorkerInvariant'
<1> DEFINE b == [pid |-> front, id |-> nextId]
           asks == front # NoApp /\ worker = "running"
<1>1. /\ rebind.at = "idle"
      /\ rebind' = [at |-> IF asks THEN "asked" ELSE "swap", was |-> bound.pid,
                    next |-> NoBinding]
      /\ inbox' = IF asks THEN Sent(<<Install(b)>>) ELSE inbox
      /\ nextId' = IF asks THEN nextId + 1 ELSE nextId
      /\ UNCHANGED <<worker, bound, retained, resources>>
  BY DEF RebindTick, observers
<1>2. Queued("install") = {} /\ rebind.next = NoBinding
  BY <1>1 DEF WorkerInvariant, AsksOnce
<1>3. /\ rebind'.next = NoBinding
      /\ rebind' = [at |-> rebind'.at, was |-> rebind'.was, next |-> rebind'.next]
      /\ rebind'.at = IF asks THEN "asked" ELSE "swap"
  BY <1>1
<1>4. nextId \in Nat \ {0} /\ nextId' \in Nat \ {0} /\ inbox \in Seq(Range(inbox))
  BY <1>1 DEF WorkerInvariant, Channels
<1> HIDE DEF asks
<1>5. CASE ~asks
  <2>1. UNCHANGED inbox
    BY <1>1, <1>5
  <2> QED
    BY <1>1, <1>2, <1>3, <1>4, <1>5, <2>1 DEF WorkerInvariant, Channels, AsksOnce, EndsEmpty,
         NothingLeaks, RetainsAreBalanced, NoOrphanObserver, Queued
<1>6. CASE asks
  <2> DEFINE m == Install(b)
  <2>1. m.kind = "install" /\ m.id = nextId
    BY DEF Install, Message
  <2> HIDE DEF m
  <2>2. inbox' = inbox \o <<m>>
    BY <1>1, <1>6 DEF Sent, asks, m
  <2>3. /\ inbox' \in Seq(Range(inbox'))
        /\ Len(inbox) \in Nat /\ DOMAIN inbox = 1 .. Len(inbox)
        /\ DOMAIN inbox' = 1 .. Len(inbox) + 1
        /\ \A i \in 1 .. Len(inbox) : inbox'[i] = inbox[i]
        /\ inbox'[Len(inbox) + 1] = m
    BY <1>4, <2>2, Sends
  <2>4. Queued("event")' = Queued("event")
    BY <2>1, <2>3 DEF Queued
  <2>5. \A i \in Queued("install")' : i = Len(inbox) + 1
    BY <1>2, <2>3 DEF Queued
  <2>6. \A x : Removing(x) => Removing(x)'
    BY <2>3 DEF Removing, Queued
  <2>7. Channels' /\ AsksOnce'
    BY <1>3, <1>4, <1>6, <2>1, <2>3, <2>5 DEF Channels, AsksOnce
  <2>8. NothingLeaks'
    BY <1>1, <1>2, <1>3, <2>4, <2>6 DEF WorkerInvariant, NothingLeaks, RetainsAreBalanced,
         NoOrphanObserver, Removing
  <2> QED
    BY <1>1, <2>7, <2>8 DEF WorkerInvariant, EndsEmpty
<1> QED
  BY <1>5, <1>6

\* Dropping a binding queues the removal of its observer, if it has one.
LEMMA DropKeeps ==
    ASSUME WorkerInvariant, NEW b, inbox' = Sent(DropOf(b))
    PROVE  /\ Orderly
           /\ Cardinality(Queued("event"))' = Cardinality(Queued("event"))
           /\ b \in resources => Removing(b.id)'
<1>1. CASE b = NoBinding
  <2>1. inbox' = Sent(<<>>)
    BY <1>1 DEF DropOf
  <2>2. NoBinding \notin resources
    BY DEF WorkerInvariant, EndsEmpty
  <2> QED
    BY <1>1, <2>1, <2>2, SentKeeps
<1>2. CASE b # NoBinding
  <2> DEFINE m == Removal(b)
  <2>1. m.kind = "remove" /\ m.id = b.id
    BY DEF Removal, Message
  <2>2. inbox' = Sent(<<m>>)
    BY <1>2 DEF DropOf
  <2> HIDE DEF m
  <2>3. /\ Orderly
        /\ Cardinality(Queued("event"))' = Cardinality(Queued("event"))
        /\ worker = "running" => Removing(m.id)'
    BY <2>1, <2>2, SentKeeps
  <2>4. b \in resources => worker = "running"
    BY DEF WorkerInvariant, EndsEmpty
  <2> QED
    BY <2>1, <2>3, <2>4
<1> QED
  BY <1>1, <1>2

\* The binding that is not kept is dropped.
LEMMA SwapKeeps ==
    ASSUME WorkerInvariant, RebindSwap
    PROVE  WorkerInvariant'
<1> DEFINE publishes == bound.pid = rebind.was
           dropped == IF publishes THEN bound ELSE rebind.next
<1>1. /\ rebind.at = "swap"
      /\ bound' = IF publishes THEN rebind.next ELSE bound
      /\ inbox' = Sent(DropOf(dropped))
      /\ rebind' = [rebind EXCEPT !.at = "idle", !.next = NoBinding]
      /\ UNCHANGED <<worker, nextId, retained, resources>>
  BY DEF RebindSwap, Dropped, observers
<1>2. /\ rebind'.at = "idle" /\ rebind'.next = NoBinding
      /\ rebind' = [at |-> rebind'.at, was |-> rebind'.was, next |-> rebind'.next]
  <2>1. rebind = [at |-> rebind.at, was |-> rebind.was, next |-> rebind.next]
    BY DEF WorkerInvariant, Channels
  <2> QED
    BY <1>1, <2>1
<1>3. {bound, rebind.next} \subseteq {bound', dropped}
  BY <1>1
<1> HIDE DEF publishes, dropped
<1>4. PICK d : d = dropped
  OBVIOUS
<1>5. /\ Orderly
      /\ Cardinality(Queued("event"))' = Cardinality(Queued("event"))
      /\ d \in resources => Removing(d.id)'
  <2>1. inbox' = Sent(DropOf(d))
    BY <1>1, <1>4
  <2> QED
    BY <2>1, DropKeeps
<1>6. \A i \in Queued("install")' : FALSE
  BY <1>1, <1>5 DEF Orderly
<1>7. NoOrphanObserver'
  <2> SUFFICES ASSUME NEW r \in resources
               PROVE  r = bound' \/ Removing(r.id)'
    BY <1>1 DEF NoOrphanObserver, Removing
  <2>1. r \in {bound, rebind.next} \/ Removing(r.id)
    BY DEF WorkerInvariant, NothingLeaks, NoOrphanObserver, Removing
  <2>2. CASE Removing(r.id)
    BY <1>5, <2>2 DEF Orderly
  <2>3. CASE r \in {bound, rebind.next}
    BY <1>3, <1>5, <1>4, <2>3
  <2> QED
    BY <2>1, <2>2, <2>3
<1> QED
  BY <1>1, <1>2, <1>5, <1>6, <1>7 DEF WorkerInvariant, Channels, AsksOnce, EndsEmpty,
       NothingLeaks, RetainsAreBalanced, Orderly

\* A subscription that is cancelled drops its binding.
LEMMA CancelKeeps ==
    ASSUME WorkerInvariant, CancelEnds
    PROVE  WorkerInvariant'
<1>1. /\ rebind.at = "idle" /\ rebind' = [rebind EXCEPT !.at = "ended"]
      /\ bound' = NoBinding /\ inbox' = Sent(DropOf(bound))
      /\ UNCHANGED <<worker, nextId, retained, resources>>
  BY DEF CancelEnds, observers
<1>2. /\ rebind'.at = "ended" /\ rebind'.next = NoBinding /\ rebind.next = NoBinding
      /\ rebind' = [at |-> rebind'.at, was |-> rebind'.was, next |-> rebind'.next]
  <2>1. /\ rebind = [at |-> rebind.at, was |-> rebind.was, next |-> rebind.next]
        /\ rebind.next = NoBinding
    BY <1>1 DEF WorkerInvariant, Channels, AsksOnce
  <2> QED
    BY <1>1, <2>1
<1>3. PICK d : d = bound
  OBVIOUS
<1>4. /\ Orderly
      /\ Cardinality(Queued("event"))' = Cardinality(Queued("event"))
      /\ d \in resources => Removing(d.id)'
  <2>1. inbox' = Sent(DropOf(d))
    BY <1>1, <1>3
  <2> QED
    BY <2>1, DropKeeps
<1>5. \A i \in Queued("install")' : FALSE
  BY <1>1, <1>4 DEF Orderly
<1>6. NoOrphanObserver'
  <2> SUFFICES ASSUME NEW r \in resources
               PROVE  Removing(r.id)'
    BY <1>1 DEF NoOrphanObserver, Removing
  <2>1. r # NoBinding
    BY DEF WorkerInvariant, EndsEmpty
  <2>2. r = bound \/ Removing(r.id)
    BY <1>2, <2>1 DEF WorkerInvariant, NothingLeaks, NoOrphanObserver, Removing
  <2> QED
    BY <1>4, <1>3, <2>2 DEF Orderly
<1> QED
  BY <1>1, <1>2, <1>4, <1>5, <1>6 DEF WorkerInvariant, Channels, AsksOnce, EndsEmpty,
       NothingLeaks, RetainsAreBalanced, Orderly

LEMMA WorkerInitially == AxInit => WorkerInvariant
<1> SUFFICES ASSUME AxInit PROVE WorkerInvariant
  OBVIOUS
<1>1. /\ inbox = <<>> /\ resources = {bound} /\ bound.id = 1 /\ retained = 0 /\ nextId = 2
      /\ rebind = [at |-> "idle", was |-> NoApp, next |-> NoBinding]
      /\ worker = "running"
  BY DEF AxInit
<1>2. bound # NoBinding
  BY <1>1 DEF NoBinding
<1>3. Queued("event") = {} /\ Queued("install") = {}
  BY <1>1 DEF Queued
<1>4. Cardinality({}) = 0 /\ <<>> \in Seq(Range(<<>>))
  BY FS_EmptySet
<1>5. Channels /\ AsksOnce /\ EndsEmpty
  BY <1>1, <1>2, <1>3, <1>4 DEF Channels, AsksOnce, EndsEmpty
<1>6. RetainsAreBalanced
  BY <1>1, <1>3, <1>4, Zenon DEF RetainsAreBalanced
<1>7. NoOrphanObserver
  BY <1>1 DEF NoOrphanObserver
<1> QED
  BY <1>5, <1>6, <1>7 DEF WorkerInvariant, NothingLeaks

LEMMA WorkerStep == WorkerInvariant /\ [AxNext]_axVars => WorkerInvariant'
<1> SUFFICES ASSUME WorkerInvariant, [AxNext]_axVars PROVE WorkerInvariant'
  OBVIOUS
<1>1. CASE User
  BY <1>1, Untouched DEF User, SwitchTo, MoveFocus, observers, binder
<1>2. CASE Worker
  BY <1>2, CallbackKeeps, EventKeeps, PollKeeps, InstallKeeps, RemoveKeeps, StopKeeps DEF Worker
<1>3. CASE RebindTick
  BY <1>3, TickKeeps
<1>4. CASE RebindSwap
  BY <1>4, SwapKeeps
<1>5. CASE CancelEnds
  BY <1>5, CancelKeeps
<1>6. CASE Dispatch \/ Cancel
  BY <1>6, Untouched DEF Dispatch, Cancel, observers, binder
<1>7. CASE Shutdown
  <2>1. Stop.kind = "stop"
    BY DEF Stop, Message
  <2> QED
    BY <1>7, <2>1, OneMessageKeeps DEF Shutdown, observers, binder
<1>8. ASSUME NEW b \in Polled, SafetyPoll(b) PROVE WorkerInvariant'
  <2>1. Poll(b).kind = "poll"
    BY DEF Poll, Message
  <2> QED
    BY <1>8, <2>1, OneMessageKeeps DEF SafetyPoll, observers, binder
<1>9. CASE UNCHANGED axVars
  BY <1>9, Untouched DEF axVars
<1> QED
  BY <1>1, <1>2, <1>3, <1>4, <1>5, <1>6, <1>7, <1>8, <1>9 DEF AxNext, Threads

\* Every element the callback retains is released once, and every observer has
\* an owner or its removal is queued (run_ax_worker_loop, the rebind poller).
THEOREM NothingIsLeaked == AxSpec => []NothingLeaks
<1>1. WorkerInvariant => NothingLeaks
  BY DEF WorkerInvariant
<1> QED
  BY <1>1, WorkerInitially, WorkerStep, PTL DEF AxSpec
=============================================================================
