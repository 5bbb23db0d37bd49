------------------------ MODULE TypedMemory_proofs ------------------------
(***************************************************************************)
(* Theorems about TypedMemory, for every value of its constants.  The      *)
(* model folds sequences (FoldLeft): the first lemmas say what a fold      *)
(* keeps, by induction on the length of the prefix it has consumed.        *)
(***************************************************************************)
EXTENDS TypedMemory, SequenceTheorems, WellFoundedInduction, TLAPS

----------------------------------------------------------------------------
(* Folds. *)

\* What holds at 0 and of the next holds of all.
LEMMA NatSets ==
    ASSUME NEW S, 0 \in S, \A k \in Nat : k \in S => k + 1 \in S
    PROVE  Nat \subseteq S
<1> DEFINE less == {ss \in Nat \X Nat : ss[1] < ss[2]}
           T == Nat \ S
<1>1. IsWellFoundedOn(less, Nat)
  BY NatLessThanWellFounded DEF OpToRel
<1>2. SUFFICES ASSUME T # {} PROVE FALSE
  OBVIOUS
<1>3. T \subseteq Nat
  OBVIOUS
<1>4. PICK x \in T : \A y \in T : ~(<<y, x>> \in less)
  <2> HIDE DEF less, T
  <2> QED
    BY <1>1, <1>2, <1>3, WFMin
<1>5. x \in Nat /\ x # 0 /\ x - 1 \in Nat
  OBVIOUS
<1>6. <<x - 1, x>> \in less
  BY <1>5
<1>7. x - 1 \in S
  BY <1>4, <1>5, <1>6
<1> QED
  BY <1>5, <1>7

\* A nonempty set of positions has a largest.
LEMMA MaxExists ==
    ASSUME NEW n \in Nat, NEW s \in SUBSET (0 .. n), s # {}
    PROVE  Max(s) \in s /\ \A x \in s : Max(s) >= x
<1> DEFINE K == {k \in Nat : \A t \in SUBSET (0 .. k) :
                               t # {} => \E x \in t : \A y \in t : x >= y}
<1>1. 0 \in K
  <2> SUFFICES ASSUME NEW t \in SUBSET (0 .. 0), t # {}
               PROVE  \E x \in t : \A y \in t : x >= y
    OBVIOUS
  <2>1. PICK x \in t : TRUE
    OBVIOUS
  <2>2. \A y \in t : y = 0
    OBVIOUS
  <2> QED
    BY <2>1, <2>2
<1>2. ASSUME NEW k \in Nat, k \in K PROVE k + 1 \in K
  <2> SUFFICES ASSUME NEW t \in SUBSET (0 .. k + 1), t # {}
               PROVE  \E x \in t : \A y \in t : x >= y
    OBVIOUS
  <2>1. CASE k + 1 \in t
    BY <2>1
  <2>2. CASE k + 1 \notin t
    <3>1. t \in SUBSET (0 .. k)
      BY <2>2
    <3> QED
      BY <1>2, <3>1
  <2> QED
    BY <2>1, <2>2
<1>3. n \in K
  <2> HIDE DEF K
  <2> QED
    BY <1>1, <1>2, NatSets
<1>4. \E x \in s : \A y \in s : x >= y
  BY <1>3
<1> QED
  BY <1>4 DEF Max

\* The largest of a set of positions.
LEMMA MaxIs ==
    ASSUME NEW k \in Nat, NEW s \in SUBSET (1 .. k + 1), k + 1 \in s
    PROVE  Max(s) = k + 1
<1>1. \A x \in s : x \in Nat /\ k + 1 >= x
  OBVIOUS
<1>2. \A x \in s : (\A y \in s : x >= y) => x = k + 1
  BY <1>1
<1> QED
  BY <1>1, <1>2 DEF Max

\* A fold of a sequence exists ..
IsFold(J, k, S, step, base, seq) ==
    /\ J \in [SUBSET (1 .. k) -> S]
    /\ J[{}] = base
    /\ \A s \in SUBSET (1 .. k) : s # {} => J[s] = step[<<J[s \ {Max(s)}], seq[Max(s)]>>]

LEMMA FoldExists ==
    ASSUME NEW S, NEW T, NEW step \in [S \X T -> S], NEW base \in S, NEW seq \in Seq(T)
    PROVE  \E J : IsFold(J, Len(seq), S, step, base, seq)
<1> DEFINE Folds(k) == \E J : IsFold(J, k, S, step, base, seq)
           K == {k \in Nat : k <= Len(seq) => Folds(k)}
<1>1. Folds(0)
  <2> DEFINE J == [s \in SUBSET (1 .. 0) |-> base]
  <2>1. \A s \in SUBSET (1 .. 0) : s = {}
    OBVIOUS
  <2>2. J \in [SUBSET (1 .. 0) -> S] /\ J[{}] = base
    OBVIOUS
  <2>3. IsFold(J, 0, S, step, base, seq)
    BY <2>1, <2>2 DEF IsFold
  <2> QED
    BY <2>3
<1>2. ASSUME NEW k \in Nat, k \in K PROVE k + 1 \in K
  <2> SUFFICES ASSUME k + 1 <= Len(seq)
               PROVE  Folds(k + 1)
    OBVIOUS
  <2>1. PICK J : IsFold(J, k, S, step, base, seq)
    BY <1>2
  <2>2. /\ J \in [SUBSET (1 .. k) -> S] /\ J[{}] = base
        /\ \A s \in SUBSET (1 .. k) : s # {} => J[s] = step[<<J[s \ {Max(s)}], seq[Max(s)]>>]
    BY <2>1 DEF IsFold
  <2>3. seq[k + 1] \in T
    OBVIOUS
  <2> DEFINE L == [s \in SUBSET (1 .. k + 1) |->
                     IF k + 1 \in s THEN step[<<J[s \ {k + 1}], seq[k + 1]>>] ELSE J[s]]
  <2>4. \A s \in SUBSET (1 .. k + 1) :
            /\ s \ {k + 1} \in SUBSET (1 .. k)
            /\ k + 1 \notin s => s \in SUBSET (1 .. k)
    OBVIOUS
  <2>5. \A s \in SUBSET (1 .. k + 1) : s \ {k + 1} \in SUBSET (1 .. k + 1)
    OBVIOUS
  <2>6. L \in [SUBSET (1 .. k + 1) -> S]
    <3>1. ASSUME NEW s \in SUBSET (1 .. k + 1), k + 1 \in s
          PROVE  step[<<J[s \ {k + 1}], seq[k + 1]>>] \in S
      <4>1. J[s \ {k + 1}] \in S
        BY <2>2, <2>4
      <4> QED
        BY <2>3, <4>1
    <3>2. ASSUME NEW s \in SUBSET (1 .. k + 1), k + 1 \notin s
          PROVE  J[s] \in S
      BY <2>2, <2>4, <3>2
    <3> QED
      BY <3>1, <3>2
  <2>7. L[{}] = base
    <3>1. {} \in SUBSET (1 .. k + 1) /\ k + 1 \notin {}
      OBVIOUS
    <3> QED
      BY <2>2, <3>1
  <2>8. ASSUME NEW s \in SUBSET (1 .. k + 1), s # {}
        PROVE  L[s] = step[L[s \ {Max(s)}], seq[Max(s)]]
    <3>1. CASE k + 1 \in s
      <4>1. Max(s) = k + 1
        BY <3>1, MaxIs
      <4>2. L[s \ {k + 1}] = J[s \ {k + 1}]
        <5>1. k + 1 \notin s \ {k + 1}
          OBVIOUS
        <5> QED
          BY <2>5, <5>1
      <4>3. L[s] = step[<<J[s \ {k + 1}], seq[k + 1]>>]
        BY <3>1
      <4> HIDE DEF L
      <4> QED
        BY <4>1, <4>2, <4>3
    <3>2. CASE k + 1 \notin s
      <4>1. s \in SUBSET (1 .. k) /\ L[s] = J[s]
        BY <2>4, <3>2
      <4>2. J[s] = step[<<J[s \ {Max(s)}], seq[Max(s)]>>]
        BY <2>2, <2>8, <4>1
      <4>3. L[s \ {Max(s)}] = J[s \ {Max(s)}]
        <5>1. s \ {Max(s)} \in SUBSET (1 .. k + 1) /\ k + 1 \notin s \ {Max(s)}
          BY <3>2
        <5> QED
          BY <5>1
      <4> HIDE DEF L
      <4> QED
        BY <4>1, <4>2, <4>3
    <3> QED
      BY <3>1, <3>2
  <2>9. IsFold(L, k + 1, S, step, base, seq)
    <3> HIDE DEF L
    <3> QED
      BY <2>6, <2>7, <2>8 DEF IsFold
  <2> QED
    BY <2>9
<1>3. Len(seq) \in K
  <2>1. 0 \in K
    BY <1>1
  <2> HIDE DEF K
  <2> QED
    BY <1>2, <2>1, NatSets
<1> QED
  BY <1>3

\* .. and stays among what its steps stay among.
LEMMA FoldStays ==
    ASSUME NEW S, NEW n \in Nat, NEW J, J[{}] \in S,
           \A s \in SUBSET (1 .. n) : s # {} /\ J[s \ {Max(s)}] \in S => J[s] \in S
    PROVE  J[1 .. n] \in S
<1> DEFINE K == {k \in Nat : k <= n => J[1 .. k] \in S}
<1>1. 0 \in K
  <2>1. 1 .. 0 = {}
    OBVIOUS
  <2> QED
    BY <2>1
<1>2. ASSUME NEW k \in Nat, k \in K PROVE k + 1 \in K
  <2> SUFFICES ASSUME k + 1 <= n
               PROVE  J[1 .. k + 1] \in S
    OBVIOUS
  <2>1. 1 .. k + 1 \in SUBSET (1 .. n) /\ 1 .. k + 1 # {}
    <3>1. k + 1 \in 1 .. k + 1
      OBVIOUS
    <3>2. \A i \in 1 .. k + 1 : i \in 1 .. n
      OBVIOUS
    <3> QED
      BY <3>1, <3>2
  <2>2. Max(1 .. k + 1) = k + 1 /\ (1 .. k + 1) \ {k + 1} = 1 .. k
    BY MaxIs
  <2>3. J[1 .. k] \in S
    BY <1>2
  <2> QED
    BY <2>1, <2>2, <2>3
<1>3. n \in K
  <2> HIDE DEF K
  <2> QED
    BY <1>1, <1>2, NatSets
<1> QED
  BY <1>3

\* A nonempty set of positions of a sequence has a largest, and it is one.
LEMMA Positions ==
    ASSUME NEW T, NEW seq \in Seq(T)
    PROVE  /\ DOMAIN seq = 1 .. Len(seq) /\ Len(seq) \in Nat
           /\ \A s \in SUBSET DOMAIN seq : s # {} => Max(s) \in s /\ seq[Max(s)] \in T
<1>1. DOMAIN seq = 1 .. Len(seq) /\ Len(seq) \in Nat
  OBVIOUS
<1>2. ASSUME NEW s \in SUBSET DOMAIN seq, s # {} PROVE Max(s) \in s
  <2>1. s \in SUBSET (0 .. Len(seq))
    BY <1>1
  <2> QED
    BY <1>1, <1>2, <2>1, MaxExists
<1>3. \A i \in DOMAIN seq : seq[i] \in T
  BY <1>1, ElementOfSeq
<1> QED
  BY <1>1, <1>2, <1>3

\* What stays of a sequence is of it and of what is kept.
LEMMA OnlyKeeps ==
    ASSUME NEW U, NEW kept, NEW seq \in Seq(U)
    PROVE  Only(seq, kept) \in Seq(U \cap kept)
<1> DEFINE S == Seq(U \cap kept)
           T == U
           Step(done, e) == IF e \in kept THEN Append(done, e) ELSE done
           step == [p \in S \X T |-> Step(p[1], p[2])]
           Along(J) == [s \in SUBSET DOMAIN seq |->
                            IF s = {} THEN <<>> ELSE Step(J[s \ {Max(s)}], seq[Max(s)])]
           Fold == CHOOSE J : J = Along(J)
<1>1. <<>> \in S /\ \A done \in S, e \in T : Step(done, e) \in S
  OBVIOUS
<1>2. Only(seq, kept) = Fold[DOMAIN seq]
  BY Zenon DEF Only, FoldLeft, MapThenFoldSet
<1>3. seq \in Seq(T)
  OBVIOUS
<1> HIDE DEF S, T, Step
<1>4. step \in [S \X T -> S]
  BY <1>1
<1>5. /\ DOMAIN seq = 1 .. Len(seq) /\ Len(seq) \in Nat
      /\ \A s \in SUBSET DOMAIN seq : s # {} => Max(s) \in s /\ seq[Max(s)] \in T
  BY <1>3, Positions
<1>6. Fold = Along(Fold)
  <2>1. PICK J : IsFold(J, Len(seq), S, step, <<>>, seq)
    <3> HIDE DEF step
    <3> QED
      BY <1>1, <1>3, <1>4, FoldExists
  <2>2. /\ J \in [SUBSET DOMAIN seq -> S] /\ J[{}] = <<>>
        /\ \A s \in SUBSET DOMAIN seq :
              s # {} => J[s] = step[<<J[s \ {Max(s)}], seq[Max(s)]>>]
    BY <1>5, <2>1 DEF IsFold
  <2>3. \A s \in SUBSET DOMAIN seq : J[s] = Along(J)[s]
    BY <1>5, <2>2
  <2>4. J = Along(J)
    BY <2>2, <2>3
  <2> QED
    BY <2>4
<1>7. Fold[{}] \in S
  <2>1. Along(Fold)[{}] = <<>>
    OBVIOUS
  <2> QED
    BY <1>1, <1>6, <2>1
<1>8. ASSUME NEW s \in SUBSET (1 .. Len(seq)), s # {}, Fold[s \ {Max(s)}] \in S
      PROVE  Fold[s] \in S
  <2>1. Along(Fold)[s] = Step(Fold[s \ {Max(s)}], seq[Max(s)])
    <3> HIDE DEF Fold
    <3> QED
      BY <1>5, <1>8
  <2>2. Fold[s] = Along(Fold)[s]
    BY <1>6
  <2>3. seq[Max(s)] \in T
    BY <1>5, <1>8
  <2> HIDE DEF Fold, Along
  <2> QED
    BY <1>1, <1>8, <2>1, <2>2, <2>3
<1>9. Fold[1 .. Len(seq)] \in S
  <2> HIDE DEF Fold
  <2> QED
    BY <1>5, <1>7, <1>8, FoldStays
<1> QED
  BY <1>2, <1>5, <1>9 DEF S

----------------------------------------------------------------------------
(* The operators of the store. *)

\* The newest of a sequence are of it.
LEMMA NewestKeeps ==
    ASSUME NEW U, NEW seq \in Seq(U), NEW n \in Nat
    PROVE  Newest(seq, n) \in Seq(U)
<1> DEFINE first == IF Len(seq) > n THEN Len(seq) - n + 1 ELSE 1
<1>1. Len(seq) \in Nat /\ first \in Int /\ first >= 1
  OBVIOUS
<1>2. \A i \in first .. Len(seq) : seq[i] \in U
  BY <1>1
<1>3. SubSeq(seq, first, Len(seq)) \in Seq(U)
  <2> HIDE DEF first
  <2> QED
    BY <1>1, <1>2, SubSeqProperties
<1> QED
  BY <1>3 DEF Newest

\* A ring takes an entry.
LEMMA RecentKeeps ==
    ASSUME NEW U, NEW ring \in Seq(U), NEW entry \in U
    PROVE  Recent(ring, entry) \in Seq(U)
<1> DEFINE kept == {e \in Range(ring) : e.text # entry.text}
<1>1. Only(ring, kept) \in Seq(U)
  <2> HIDE DEF kept
  <2>1. Only(ring, kept) \in Seq(U \cap kept)
    BY OnlyKeeps
  <2> QED
    BY <2>1, SeqMonotonic
<1>2. Append(Only(ring, kept), entry) \in Seq(U)
  BY <1>1, AppendProperties
<1>3. RingCapacity \in Nat
  BY BoundsAssumption
<1> QED
  BY <1>2, <1>3, NewestKeeps DEF Recent

\* The table takes a record, or not.
LEMMA RememberedKeeps ==
    ASSUME NEW U, NEW table \in Seq(U), NEW record \in U
    PROVE  Remembered(table, record) \in Seq(U)
<1>1. Append(table, record) \in Seq(U)
  BY AppendProperties
<1>2. MaxRecords \in Nat
  BY BoundsAssumption
<1> QED
  BY <1>1, <1>2, NewestKeeps DEF Remembered, Stored

\* A ring that is filled holds what it is filled from.
LEMMA RingsFill ==
    ASSUME NEW U, NEW seq \in Seq(U)
    PROVE  FoldLeft(Recent, NoRing, seq) \in Seq(U)
<1> DEFINE S == Seq(U)
           T == U
           Step(done, e) == Recent(done, e)
           step == [p \in S \X T |-> Step(p[1], p[2])]
           Along(J) == [s \in SUBSET DOMAIN seq |->
                            IF s = {} THEN NoRing ELSE Step(J[s \ {Max(s)}], seq[Max(s)])]
           Fold == CHOOSE J : J = Along(J)
<1>1. NoRing \in S /\ \A done \in S, e \in T : Step(done, e) \in S
  BY RecentKeeps DEF NoRing
<1>2. FoldLeft(Recent, NoRing, seq) = Fold[DOMAIN seq]
  BY Zenon DEF FoldLeft, MapThenFoldSet
<1>3. seq \in Seq(T)
  OBVIOUS
<1> HIDE DEF S, T, Step
<1>4. step \in [S \X T -> S]
  BY <1>1
<1>5. /\ DOMAIN seq = 1 .. Len(seq) /\ Len(seq) \in Nat
      /\ \A s \in SUBSET DOMAIN seq : s # {} => Max(s) \in s /\ seq[Max(s)] \in T
  BY <1>3, Positions
<1>6. Fold = Along(Fold)
  <2>1. PICK J : IsFold(J, Len(seq), S, step, NoRing, seq)
    <3> HIDE DEF step
    <3> QED
      BY <1>1, <1>3, <1>4, FoldExists
  <2>2. /\ J \in [SUBSET DOMAIN seq -> S] /\ J[{}] = NoRing
        /\ \A s \in SUBSET DOMAIN seq :
              s # {} => J[s] = step[<<J[s \ {Max(s)}], seq[Max(s)]>>]
    BY <1>5, <2>1 DEF IsFold
  <2>3. \A s \in SUBSET DOMAIN seq : J[s] = Along(J)[s]
    BY <1>5, <2>2
  <2>4. J = Along(J)
    BY <2>2, <2>3
  <2> QED
    BY <2>4
<1>7. Fold[{}] \in S
  <2>1. Along(Fold)[{}] = NoRing
    OBVIOUS
  <2> QED
    BY <1>1, <1>6, <2>1
<1>8. ASSUME NEW s \in SUBSET (1 .. Len(seq)), s # {}, Fold[s \ {Max(s)}] \in S
      PROVE  Fold[s] \in S
  <2>1. Along(Fold)[s] = Step(Fold[s \ {Max(s)}], seq[Max(s)])
    <3> HIDE DEF Fold
    <3> QED
      BY <1>5, <1>8
  <2>2. Fold[s] = Along(Fold)[s]
    BY <1>6
  <2>3. seq[Max(s)] \in T
    BY <1>5, <1>8
  <2> HIDE DEF Fold, Along
  <2> QED
    BY <1>1, <1>8, <2>1, <2>2, <2>3
<1>9. Fold[1 .. Len(seq)] \in S
  <2> HIDE DEF Fold
  <2> QED
    BY <1>5, <1>7, <1>8, FoldStays
<1> QED
  BY <1>2, <1>5, <1>9 DEF S

\* What a table takes up joins what it holds.
LEMMA TablesFill ==
    ASSUME NEW U, NEW table \in Seq(U), NEW seq \in Seq(U)
    PROVE  FoldLeft(Remembered, table, seq) \in Seq(U)
<1> DEFINE S == Seq(U)
           T == U
           Step(done, e) == Remembered(done, e)
           step == [p \in S \X T |-> Step(p[1], p[2])]
           Along(J) == [s \in SUBSET DOMAIN seq |->
                            IF s = {} THEN table ELSE Step(J[s \ {Max(s)}], seq[Max(s)])]
           Fold == CHOOSE J : J = Along(J)
<1>1. table \in S /\ \A done \in S, e \in T : Step(done, e) \in S
  BY RememberedKeeps
<1>2. FoldLeft(Remembered, table, seq) = Fold[DOMAIN seq]
  BY Zenon DEF FoldLeft, MapThenFoldSet
<1>3. seq \in Seq(T)
  OBVIOUS
<1> HIDE DEF S, T, Step
<1>4. step \in [S \X T -> S]
  BY <1>1
<1>5. /\ DOMAIN seq = 1 .. Len(seq) /\ Len(seq) \in Nat
      /\ \A s \in SUBSET DOMAIN seq : s # {} => Max(s) \in s /\ seq[Max(s)] \in T
  BY <1>3, Positions
<1>6. Fold = Along(Fold)
  <2>1. PICK J : IsFold(J, Len(seq), S, step, table, seq)
    <3> HIDE DEF step
    <3> QED
      BY <1>1, <1>3, <1>4, FoldExists
  <2>2. /\ J \in [SUBSET DOMAIN seq -> S] /\ J[{}] = table
        /\ \A s \in SUBSET DOMAIN seq :
              s # {} => J[s] = step[<<J[s \ {Max(s)}], seq[Max(s)]>>]
    BY <1>5, <2>1 DEF IsFold
  <2>3. \A s \in SUBSET DOMAIN seq : J[s] = Along(J)[s]
    BY <1>5, <2>2
  <2>4. J = Along(J)
    BY <2>2, <2>3
  <2> QED
    BY <2>4
<1>7. Fold[{}] \in S
  <2>1. Along(Fold)[{}] = table
    OBVIOUS
  <2> QED
    BY <1>1, <1>6, <2>1
<1>8. ASSUME NEW s \in SUBSET (1 .. Len(seq)), s # {}, Fold[s \ {Max(s)}] \in S
      PROVE  Fold[s] \in S
  <2>1. Along(Fold)[s] = Step(Fold[s \ {Max(s)}], seq[Max(s)])
    <3> HIDE DEF Fold
    <3> QED
      BY <1>5, <1>8
  <2>2. Fold[s] = Along(Fold)[s]
    BY <1>6
  <2>3. seq[Max(s)] \in T
    BY <1>5, <1>8
  <2> HIDE DEF Fold, Along
  <2> QED
    BY <1>1, <1>8, <2>1, <2>2, <2>3
<1>9. Fold[1 .. Len(seq)] \in S
  <2> HIDE DEF Fold
  <2> QED
    BY <1>5, <1>7, <1>8, FoldStays
<1> QED
  BY <1>2, <1>5, <1>9 DEF S

\* What the store tells of an app is of the app.
LEMMA RecentOfKeeps ==
    ASSUME NEW U, rows \in Seq(U), NEW a, NEW n \in Nat
    PROVE  RecentOf(a, n) \in Seq({r \in U : r.app = a})
<1> DEFINE kept == {r \in Range(rows) : r.app = a}
<1>1. Only(rows, kept) \in Seq(U \cap kept)
  <2> HIDE DEF kept
  <2> QED
    BY OnlyKeeps
<1>2. U \cap kept \subseteq {r \in U : r.app = a}
  OBVIOUS
<1>3. Only(rows, kept) \in Seq({r \in U : r.app = a})
  <2> HIDE DEF kept
  <2> QED
    BY <1>1, <1>2, SeqMonotonic
<1> QED
  BY <1>3, NewestKeeps DEF RecentOf

\* A ring that is filled from the table holds records of its app.
LEMMA HydratedKeeps ==
    ASSUME NEW U, rows \in Seq(U), NEW a \in Apps, rings \in [Apps -> Seq(U)],
           \A b \in Apps : rings[b] \in Seq({r \in U : r.app = b})
    PROVE  /\ Hydrated(a) \in [Apps -> Seq(U)]
           /\ \A b \in Apps : Hydrated(a)[b] \in Seq({r \in U : r.app = b})
<1> DEFINE own == {r \in U : r.app = a}
           stored == RecentOf(a, RingCapacity)
           kept == {r \in Range(stored) : ~IsBlank(r)}
           ring == FoldLeft(Recent, NoRing, Only(stored, kept))
<1>1. RingCapacity \in Nat
  BY BoundsAssumption
<1>2. stored \in Seq(own)
  BY <1>1, RecentOfKeeps
<1>3. ring \in Seq(own)
  <2> HIDE DEF own, kept, stored
  <2>1. Only(stored, kept) \in Seq(own \cap kept)
    BY <1>2, OnlyKeeps
  <2>2. Only(stored, kept) \in Seq(own)
    BY <2>1, SeqMonotonic
  <2> QED
    BY <2>2, RingsFill
<1>4. ring \in Seq(U)
  <2>1. own \subseteq U
    OBVIOUS
  <2> HIDE DEF own, ring
  <2> QED
    BY <1>3, <2>1, SeqMonotonic
<1>5. Hydrated(a) = rings \/ Hydrated(a) = [rings EXCEPT ![a] = ring]
  BY DEF Hydrated
<1> HIDE DEF ring
<1> QED
  BY <1>3, <1>4, <1>5

----------------------------------------------------------------------------
(* The inductive invariant. *)

\* What is typed, or sent as a key, and what a text is made of.
Plain == {"k", Blank, Sent}
Chars == Plain \cup Set
Scopes == Domains \cup {NoDomain}

\* Nothing of what was erased since: last is the era of the erasure of a scope.
Current(x, last) ==
    /\ x.at >= last[x.app]
    /\ x.domain # NoDomain => x.at >= last[x.domain]

\* What waits to be put in a buffer.
Items(last) ==
    {x \in [field : Fields, app : Apps, domain : Scopes, oversized : BOOLEAN,
            text : Seq(Plain), size : Nat, at : Nat, agreed : BOOLEAN] :
        /\ x.app = AppOf[x.field]
        /\ ~x.oversized => Len(x.text) = x.size /\ x.size <= BufferCap
        /\ Current(x, last)}

\* What is in the table and the rings: a monitored record is a whole run.
Records(last) ==
    {r \in [app : Apps, domain : Scopes, kind : {"accepted", "monitored"},
            text : Seq(Chars), size : Nat, at : Nat, agreed : BOOLEAN] :
        /\ r.kind = "monitored" => /\ r.text \in Seq(Plain) /\ HasBlank(r.text)
                                   /\ Len(r.text) = r.size /\ r.size <= BufferCap
        /\ Current(r, last)}

RecordsOf(a, last) == {r \in Records(last) : r.app = a}

Buffers ==
    {NoBuffer}
    \cup [kind : {"dropped"}, app : Apps, domain : Scopes]
    \cup [kind : {"collecting"}, app : Apps, domain : Scopes, text : Seq(Plain),
          at : Nat, agreed : BOOLEAN]
Runs == [size : Nat, domain : Scopes]

\* The buffer of a field holds the run of the field, of the page it is of.
Fits(f, b, r, last) ==
    /\ b.kind = "none" => r = EmptyRun
    /\ b.kind # "none" => b.app = AppOf[f] /\ b.domain = r.domain
    /\ b.kind = "collecting" => /\ Len(b.text) = r.size /\ r.size <= BufferCap
                                /\ Current(b, last)

\* What a text has more than another one was typed: it goes on from it, or
\* nothing in it was written by the host.
TypedSince(old, new) ==
    \/ new \in Seq(Plain)
    \/ /\ Len(old) <= Len(new)
       /\ \A i \in 1 .. Len(old) : new[i] = old[i]
       /\ \A i \in Len(old) + 1 .. Len(new) : new[i] \in Plain

Reported == [kind : {"focus", "caret", "accept"}, field : Fields]

Typed ==
    /\ text \in [Fields -> Seq(Chars)] /\ page \in Domains /\ target \in Fields
    /\ reports \in Seq(Reported) /\ synthetic \subseteq Fields
    /\ baseline \in [field : Fields \cup {NoField}, text : Seq(Chars)]
    /\ domain \in [app : Apps \cup {"none"}, host : Scopes]
    /\ era \in Nat /\ erased \in [Apps \cup Domains -> Nat]
    /\ \A x \in Apps \cup Domains : erased[x] <= era

\* The read that follows is compared with all the host has written, unless it
\* is known to be an echo.
Read ==
    \A f \in Fields : Known(f) /\ ~resync => TypedSince(baseline.text, text[f])

Waits ==
    /\ pending \in Seq(Items(erased))
    /\ buffers \in [Fields -> Buffers] /\ run \in [Fields -> Runs]
    /\ \A f \in Fields : Fits(f, buffers[f], run[f], erased)

Kept ==
    /\ rows \in Seq(Records(erased)) /\ crossRing \in Seq(Records(erased))
    /\ rings \in [Apps -> Seq(Records(erased))]
    /\ \A a \in Apps : rings[a] \in Seq(RecordsOf(a, erased))

Inductive == Typed /\ Read /\ Waits /\ Kept /\ ModeIsKept

----------------------------------------------------------------------------
(* The operators of the host. *)

\* What the tracker takes for typed was typed.
LEMMA InsertedIsTyped ==
    ASSUME NEW old \in Seq(Chars), NEW new \in Seq(Chars), TypedSince(old, new)
    PROVE  InsertedText(old, new) \in Seq(Plain)
<1> DEFINE common == {n \in 0 .. Len(old) : n <= Len(new) /\ IsPrefix(SubSeq(old, 1, n), new)}
           prefix == Max(common)
           tail == SubSeq(new, prefix + 1, Len(new))
<1>1. Len(old) \in Nat /\ Len(new) \in Nat
  OBVIOUS
<1>2. 0 \in common
  <2>1. SubSeq(old, 1, 0) = <<>> /\ SubSeq(<<>>, 1, 0) = <<>> /\ SubSeq(new, 1, 0) = <<>>
    BY SubSeqEmpty
  <2>2. IsPrefix(SubSeq(old, 1, 0), new)
    BY <1>1, <2>1 DEF IsPrefix
  <2> QED
    BY <1>1, <2>2
<1>3. prefix \in common /\ \A n \in common : prefix >= n
  <2>1. common \in SUBSET (0 .. Len(old)) /\ common # {}
    BY <1>2
  <2> HIDE DEF common
  <2> QED
    BY <1>1, <2>1, MaxExists
<1>4. prefix \in 0 .. Len(old) /\ prefix <= Len(new)
  BY <1>3
<1>5. \A i \in prefix + 1 .. Len(new) : new[i] \in Plain
  <2>1. CASE new \in Seq(Plain)
    <3> HIDE DEF prefix
    <3> QED
      BY <1>1, <1>4, <2>1
  <2>2. CASE /\ Len(old) <= Len(new)
             /\ \A i \in 1 .. Len(old) : new[i] = old[i]
             /\ \A i \in Len(old) + 1 .. Len(new) : new[i] \in Plain
    <3>1. SubSeq(old, 1, Len(old)) = old
      BY SubSeqFull
    <3>2. SubSeq(new, 1, Len(old)) = old
      <4>1. \A i \in 1 .. Len(old) : new[i] \in Chars
        BY <1>1, <2>2
      <4>2. /\ SubSeq(new, 1, Len(old)) \in Seq(Chars)
            /\ Len(SubSeq(new, 1, Len(old))) = Len(old)
            /\ \A i \in 1 .. Len(old) : SubSeq(new, 1, Len(old))[i] = new[i]
        BY <1>1, <4>1, SubSeqProperties
      <4> QED
        BY <2>2, <4>2, SeqEqual
    <3>3. Len(old) \in common
      BY <1>1, <2>2, <3>1, <3>2 DEF IsPrefix
    <3>4. prefix = Len(old)
      BY <1>1, <1>3, <1>4, <3>3
    <3> HIDE DEF prefix
    <3> QED
      BY <2>2, <3>4
  <2> QED
    BY <2>1, <2>2 DEF TypedSince
<1> HIDE DEF prefix
<1>6. tail \in Seq(Plain) /\ Len(tail) = Len(new) - prefix
  BY <1>1, <1>4, <1>5, SubSeqProperties
<1>7. ASSUME Len(new) > Len(old)
      PROVE  SubSeq(tail, 1, Len(new) - Len(old)) \in Seq(Plain)
  <2>1. \A i \in 1 .. Len(new) - Len(old) : tail[i] \in Plain
    BY <1>1, <1>4, <1>6, <1>7
  <2> HIDE DEF tail
  <2> QED
    BY <1>1, <2>1, SubSeqProperties
<1> QED
  BY <1>7, EmptySeq DEF InsertedText, prefix

\* Typing goes on from what a text goes on from.
LEMMA TypingGoesOn ==
    ASSUME NEW old \in Seq(Chars), NEW new \in Seq(Chars), TypedSince(old, new),
           NEW piece \in Seq(Plain)
    PROVE  new \o piece \in Seq(Chars) /\ TypedSince(old, new \o piece)
<1>1. /\ Len(old) \in Nat /\ Len(new) \in Nat /\ Len(piece) \in Nat
      /\ Len(new \o piece) = Len(new) + Len(piece)
      /\ \A i \in 1 .. Len(new) : (new \o piece)[i] = new[i]
      /\ \A i \in Len(new) + 1 .. Len(new) + Len(piece) :
            (new \o piece)[i] = piece[i - Len(new)] /\ (new \o piece)[i] \in Plain
  OBVIOUS
<1>2. piece \in Seq(Chars)
  BY SeqMonotonic DEF Chars
<1>3. new \o piece \in Seq(Chars)
  BY <1>2, ConcatProperties
<1>4. CASE new \in Seq(Plain)
  BY <1>3, <1>4, ConcatProperties DEF TypedSince
<1>5. CASE new \notin Seq(Plain)
  <2>1. /\ Len(old) <= Len(new)
        /\ \A i \in 1 .. Len(old) : new[i] = old[i]
        /\ \A i \in Len(old) + 1 .. Len(new) : new[i] \in Plain
    BY <1>5 DEF TypedSince
  <2>2. \A i \in 1 .. Len(old) : (new \o piece)[i] = old[i]
    BY <1>1, <2>1
  <2>3. \A i \in Len(old) + 1 .. Len(new \o piece) : (new \o piece)[i] \in Plain
    <3> SUFFICES ASSUME NEW i \in Len(old) + 1 .. Len(new \o piece)
                 PROVE  (new \o piece)[i] \in Plain
      OBVIOUS
    <3>1. CASE i <= Len(new)
      <4>1. i \in 1 .. Len(new) /\ i \in Len(old) + 1 .. Len(new)
        BY <1>1, <3>1
      <4> QED
        BY <1>1, <2>1, <4>1
    <3>2. CASE i > Len(new)
      <4>1. i \in Len(new) + 1 .. Len(new) + Len(piece)
        BY <1>1, <3>2
      <4> QED
        BY <1>1, <4>1
    <3> QED
      BY <1>1, <3>1, <3>2
  <2> QED
    BY <1>1, <1>3, <2>1, <2>2, <2>3 DEF TypedSince
<1> QED
  BY <1>4, <1>5

\* What is typed waits with its page and its era.
LEMMA EnqueuedWaits ==
    ASSUME Inductive, NEW f \in Fields, NEW inserted \in Seq(Plain), NEW host \in Scopes
    PROVE  Enqueued(f, inserted, host) \in Seq(Items(erased))
<1> DEFINE oversized == Len(inserted) > BufferCap
           allows == MonitoredActive /\ ~secure
                     /\ CollectionGates([app |-> AppOf[f], domain |-> host])
           chars == IF ~oversized THEN inserted ELSE IF HasBlank(inserted) THEN <<Blank>> ELSE <<>>
           item == [field |-> f, app |-> AppOf[f], domain |-> host, oversized |-> oversized,
                    text |-> chars, size |-> Len(inserted), at |-> era, agreed |-> allows]
<1>1. /\ AppOf[f] \in Apps /\ BufferCap \in Nat
      /\ host # NoDomain => host \in Domains
  BY BoundsAssumption, ScopeAssumption DEF Scopes
<1>2. /\ era \in Nat /\ \A x \in Apps \cup Domains : erased[x] \in Nat /\ erased[x] <= era
      /\ pending \in Seq(Items(erased))
  BY DEF Inductive, Typed, Waits
<1>3. allows \in BOOLEAN
  BY Zenon
<1>4. chars \in Seq(Plain) /\ (~oversized => chars = inserted)
  <2>1. <<Blank>> \in Seq(Plain) /\ <<>> \in Seq(Plain)
    BY DEF Plain
  <2> QED
    BY <2>1
<1>5. oversized \in BOOLEAN /\ (~oversized => Len(inserted) <= BufferCap) /\ Len(inserted) \in Nat
  BY <1>1
<1> HIDE DEF allows, chars, oversized
<1>6. item \in Items(erased)
  <2>1. item \in [field : Fields, app : Apps, domain : Scopes, oversized : BOOLEAN,
                  text : Seq(Plain), size : Nat, at : Nat, agreed : BOOLEAN]
    BY <1>1, <1>2, <1>3, <1>4, <1>5
  <2>2. Current(item, erased)
    BY <1>1, <1>2 DEF Current
  <2> QED
    BY <1>4, <1>5, <2>1, <2>2 DEF Items
<1>7. Append(pending, item) \in Seq(Items(erased))
  <2> HIDE DEF item
  <2> QED
    BY <1>2, <1>6, AppendProperties
<1> QED
  BY <1>2, <1>7 DEF Enqueued, oversized, allows, chars

\* A blank is still there when the text goes before it.
LEMMA BlankStays ==
    ASSUME NEW a \in Seq(Plain), NEW b \in Seq(Plain), HasBlank(b)
    PROVE  HasBlank(a \o b)
<1>1. PICK i \in DOMAIN b : b[i] = Blank
  BY DEF HasBlank
<1>2. i \in 1 .. Len(b) /\ Len(a) \in Nat /\ Len(b) \in Nat
  OBVIOUS
<1>3. Len(a) + i \in DOMAIN (a \o b) /\ (a \o b)[Len(a) + i] = b[i]
  BY <1>2
<1> QED
  BY <1>1, <1>3 DEF HasBlank

\* A flush has buffers that fit the runs, and has put out whole runs.
FlushStates(last) ==
    {s \in [buffers : [Fields -> Buffers], run : [Fields -> Runs], stored : Seq(Records(last))] :
        \A f \in Fields : Fits(f, s.buffers[f], s.run[f], last)}

LEMMA FlushItemKeeps ==
    ASSUME NEW last \in [Apps \cup Domains -> Nat], NEW state \in FlushStates(last),
           NEW item \in Items(last)
    PROVE  FlushItem(state, item) \in FlushStates(last)
<1> DEFINE f == item.field
           old == state.buffers[f]
           joins == SameScope(old, item) /\ old.kind = "collecting"
           size == item.size + IF state.run[f].domain = item.domain THEN state.run[f].size ELSE 0
           collected == IF joins
                        THEN [old EXCEPT !.text = @ \o item.text, !.agreed = @ /\ item.agreed]
                        ELSE [kind |-> "collecting", app |-> item.app, domain |-> item.domain,
                              text |-> item.text, at |-> item.at, agreed |-> item.agreed]
           dropping == IsDropped(old, item) \/ item.oversized \/ Len(collected.text) > BufferCap
           finished == ~dropping /\ HasBlank(item.text)
           refused == ~CollectionGates(item)
           record == [app |-> item.app, domain |-> item.domain, kind |-> "monitored", size |-> size,
                      text |-> collected.text, at |-> collected.at, agreed |-> collected.agreed]
           ends == refused \/ HasBlank(item.text)
           buffer == IF ends THEN NoBuffer
                     ELSE IF dropping
                     THEN [kind |-> "dropped", app |-> item.app, domain |-> item.domain]
                     ELSE collected
           left == IF ends THEN EmptyRun ELSE [size |-> size, domain |-> item.domain]
           stored == IF finished /\ ~refused THEN Append(state.stored, record) ELSE state.stored
<1>1. FlushItem(state, item) = [buffers |-> [state.buffers EXCEPT ![f] = buffer],
                                run |-> [state.run EXCEPT ![f] = left], stored |-> stored]
  BY Zenon DEF FlushItem
<1>2. /\ f \in Fields /\ item.app \in Apps /\ item.app = AppOf[f] /\ item.domain \in Scopes
      /\ item.text \in Seq(Plain) /\ item.size \in Nat /\ item.at \in Nat
      /\ item.agreed \in BOOLEAN /\ item.oversized \in BOOLEAN
      /\ ~item.oversized => Len(item.text) = item.size /\ item.size <= BufferCap
      /\ Current(item, last)
  BY DEF Items
<1>3. /\ state.buffers \in [Fields -> Buffers] /\ state.run \in [Fields -> Runs]
      /\ state.stored \in Seq(Records(last))
      /\ \A g \in Fields : Fits(g, state.buffers[g], state.run[g], last)
      /\ state = [buffers |-> state.buffers, run |-> state.run, stored |-> state.stored]
  BY DEF FlushStates
<1>4. /\ old \in Buffers /\ state.run[f] \in Runs /\ Fits(f, old, state.run[f], last)
      /\ state.run[f].size \in Nat /\ BufferCap \in Nat
  BY <1>2, <1>3, BoundsAssumption DEF Runs
<1> HIDE DEF f
<1>5. size \in Nat
  BY <1>2, <1>4
<1>6. ASSUME joins
      PROVE  /\ old.text \in Seq(Plain) /\ old.at \in Nat /\ old.agreed \in BOOLEAN
             /\ old.app = item.app /\ old.domain = item.domain
             /\ state.run[f].domain = item.domain /\ Len(old.text) = state.run[f].size
             /\ Current(old, last)
             /\ collected = [kind |-> "collecting", app |-> item.app, domain |-> item.domain,
                             text |-> old.text \o item.text, at |-> old.at,
                             agreed |-> old.agreed /\ item.agreed]
  <2>1. old \in [kind : {"collecting"}, app : Apps, domain : Scopes, text : Seq(Plain),
                 at : Nat, agreed : BOOLEAN]
    BY <1>4, <1>6 DEF Buffers, NoBuffer
  <2>2. old.domain = item.domain
    BY <1>6 DEF SameScope
  <2>3. /\ old.app = AppOf[f] /\ old.domain = state.run[f].domain
        /\ Len(old.text) = state.run[f].size /\ Current(old, last)
    BY <1>4, <1>6 DEF Fits
  <2> HIDE DEF old
  <2>4. collected = [kind |-> "collecting", app |-> item.app, domain |-> item.domain,
                     text |-> old.text \o item.text, at |-> old.at,
                     agreed |-> old.agreed /\ item.agreed]
    BY <1>2, <1>6, <2>1, <2>2, <2>3
  <2> QED
    BY <1>2, <2>1, <2>2, <2>3, <2>4
<1> HIDE DEF joins, old
<1>7. /\ collected \in [kind : {"collecting"}, app : Apps, domain : Scopes, text : Seq(Plain),
                        at : Nat, agreed : BOOLEAN]
      /\ collected.kind = "collecting"
      /\ collected.app = item.app /\ collected.domain = item.domain /\ Current(collected, last)
      /\ collected.text = IF joins THEN old.text \o item.text ELSE item.text
  <2>1. CASE joins
    <3>1. old.text \o item.text \in Seq(Plain)
      BY <1>2, <1>6, <2>1, ConcatProperties
    <3>2. (old.agreed /\ item.agreed) \in BOOLEAN
      BY Zenon
    <3>3. collected.at = old.at
      BY <1>6, <2>1
    <3>4. Current(collected, last)
      BY <1>2, <1>6, <2>1, <3>3 DEF Current
    <3> QED
      BY <1>2, <1>6, <2>1, <3>1, <3>2, <3>4
  <2>2. CASE ~joins
    BY <1>2, <2>2 DEF Current
  <2> QED
    BY <2>1, <2>2
<1> HIDE DEF collected
<1>8. ASSUME ~dropping
      PROVE  Len(collected.text) = size /\ size <= BufferCap
  <2>1. Len(item.text) = item.size /\ Len(collected.text) <= BufferCap
    <3>1. ~item.oversized /\ ~(Len(collected.text) > BufferCap)
      BY <1>8
    <3>2. Len(collected.text) \in Nat
      BY <1>7, LenProperties
    <3> QED
      BY <1>2, <1>4, <3>1, <3>2
  <2>2. CASE joins
    <3>1. Len(old.text \o item.text) = Len(old.text) + Len(item.text)
      BY <1>2, <1>6, <2>2, ConcatProperties
    <3>2. size = item.size + Len(old.text)
      BY <1>6, <2>2
    <3>3. Len(old.text) \in Nat
      BY <1>6, <2>2, LenProperties
    <3>4. Len(collected.text) = Len(old.text) + Len(item.text)
      BY <1>7, <2>2, <3>1
    <3>5. item.size \in Nat
      BY <1>2
    <3> HIDE DEF size
    <3> QED
      BY <2>1, <3>2, <3>3, <3>4, <3>5
  <2>3. CASE ~joins
    <3>1. old.kind = "none" => state.run[f].size = 0
      BY <1>4 DEF Fits, EmptyRun
    <3>2. old.kind # "none" => state.run[f].domain # item.domain
      <4>1. old.kind \in {"none", "dropped", "collecting"}
        BY <1>4 DEF Buffers, NoBuffer
      <4>2. ASSUME old.kind # "none", old.domain = item.domain PROVE FALSE
        BY <1>8, <2>3, <4>1, <4>2 DEF joins, SameScope, IsDropped
      <4> QED
        BY <1>4, <4>2 DEF Fits
    <3>3. size = item.size
      BY <1>2, <3>1, <3>2
    <3> QED
      BY <1>7, <2>1, <2>3, <3>3
  <2> QED
    BY <2>2, <2>3
<1> HIDE DEF dropping, size
<1>9. ASSUME finished PROVE record \in Records(last)
  <2>1. HasBlank(collected.text)
    <3>1. HasBlank(item.text)
      BY <1>9
    <3>2. CASE joins
      BY <1>2, <1>6, <1>7, <3>1, <3>2, BlankStays
    <3>3. CASE ~joins
      BY <1>7, <3>1, <3>3
    <3> QED
      BY <3>2, <3>3
  <2>2. collected.text \in Seq(Plain) /\ collected.text \in Seq(Chars)
    BY <1>7, SeqMonotonic DEF Chars
  <2>3. record \in [app : Apps, domain : Scopes, kind : {"accepted", "monitored"},
                    text : Seq(Chars), size : Nat, at : Nat, agreed : BOOLEAN]
    BY <1>2, <1>5, <1>7, <2>2
  <2>4. Current(record, last)
    BY <1>2, <1>7 DEF Current
  <2> QED
    BY <1>8, <1>9, <2>1, <2>2, <2>3, <2>4 DEF Records
<1>10. stored \in Seq(Records(last))
  <2> HIDE DEF record
  <2> QED
    BY <1>3, <1>9, AppendProperties
<1>11. buffer \in Buffers /\ left \in Runs /\ Fits(f, buffer, left, last)
  <2>1. CASE ends
    BY <2>1 DEF Buffers, NoBuffer, Runs, EmptyRun, Scopes, Fits
  <2>2. CASE ~ends
    <3>1. left = [size |-> size, domain |-> item.domain] /\ left \in Runs
      BY <1>2, <1>5, <2>2 DEF Runs
    <3>2. CASE dropping
      BY <1>2, <2>2, <3>1, <3>2 DEF Buffers, Fits
    <3>3. CASE ~dropping
      BY <1>2, <1>7, <1>8, <2>2, <3>1, <3>3 DEF Buffers, Fits
    <3> QED
      BY <3>2, <3>3
  <2> QED
    BY <2>1, <2>2
<1> HIDE DEF buffer, left, stored
<1> DEFINE after == [buffers |-> [state.buffers EXCEPT ![f] = buffer],
                     run |-> [state.run EXCEPT ![f] = left], stored |-> stored]
<1>12. after \in FlushStates(last)
  <2>1. /\ [state.buffers EXCEPT ![f] = buffer] \in [Fields -> Buffers]
        /\ [state.run EXCEPT ![f] = left] \in [Fields -> Runs]
    BY <1>3, <1>11
  <2>2. \A g \in Fields : Fits(g, [state.buffers EXCEPT ![f] = buffer][g],
                                  [state.run EXCEPT ![f] = left][g], last)
    BY <1>3, <1>11
  <2> QED
    BY <1>10, <2>1, <2>2 DEF FlushStates
<1> QED
  BY <1>1, <1>12

\* So does the flush of all that waits.
LEMMA FlushKeeps ==
    ASSUME NEW last \in [Apps \cup Domains -> Nat], NEW seq \in Seq(Items(last)),
           NEW start \in FlushStates(last)
    PROVE  FoldLeft(FlushItem, start, seq) \in FlushStates(last)
<1> DEFINE S == FlushStates(last)
           T == Items(last)
           Step(done, e) == FlushItem(done, e)
           step == [p \in S \X T |-> Step(p[1], p[2])]
           Along(J) == [s \in SUBSET DOMAIN seq |->
                            IF s = {} THEN start ELSE Step(J[s \ {Max(s)}], seq[Max(s)])]
           Fold == CHOOSE J : J = Along(J)
<1>1. start \in S /\ \A done \in S, e \in T : Step(done, e) \in S
  BY FlushItemKeeps
<1>2. FoldLeft(FlushItem, start, seq) = Fold[DOMAIN seq]
  BY Zenon DEF FoldLeft, MapThenFoldSet
<1>3. seq \in Seq(T)
  OBVIOUS
<1> HIDE DEF S, T, Step
<1>4. step \in [S \X T -> S]
  BY <1>1
<1>5. /\ DOMAIN seq = 1 .. Len(seq) /\ Len(seq) \in Nat
      /\ \A s \in SUBSET DOMAIN seq : s # {} => Max(s) \in s /\ seq[Max(s)] \in T
  BY <1>3, Positions
<1>6. Fold = Along(Fold)
  <2>1. PICK J : IsFold(J, Len(seq), S, step, start, seq)
    <3> HIDE DEF step
    <3> QED
      BY <1>1, <1>3, <1>4, FoldExists
  <2>2. /\ J \in [SUBSET DOMAIN seq -> S] /\ J[{}] = start
        /\ \A s \in SUBSET DOMAIN seq :
              s # {} => J[s] = step[<<J[s \ {Max(s)}], seq[Max(s)]>>]
    BY <1>5, <2>1 DEF IsFold
  <2>3. \A s \in SUBSET DOMAIN seq : J[s] = Along(J)[s]
    BY <1>5, <2>2
  <2>4. J = Along(J)
    BY <2>2, <2>3
  <2> QED
    BY <2>4
<1>7. Fold[{}] \in S
  <2>1. Along(Fold)[{}] = start
    OBVIOUS
  <2> QED
    BY <1>1, <1>6, <2>1
<1>8. ASSUME NEW s \in SUBSET (1 .. Len(seq)), s # {}, Fold[s \ {Max(s)}] \in S
      PROVE  Fold[s] \in S
  <2>1. Along(Fold)[s] = Step(Fold[s \ {Max(s)}], seq[Max(s)])
    <3> HIDE DEF Fold
    <3> QED
      BY <1>5, <1>8
  <2>2. Fold[s] = Along(Fold)[s]
    BY <1>6
  <2>3. seq[Max(s)] \in T
    BY <1>5, <1>8
  <2> HIDE DEF Fold, Along
  <2> QED
    BY <1>1, <1>8, <2>1, <2>2, <2>3
<1>9. Fold[1 .. Len(seq)] \in S
  <2> HIDE DEF Fold
  <2> QED
    BY <1>5, <1>7, <1>8, FoldStays
<1> QED
  BY <1>2, <1>5, <1>9 DEF S

----------------------------------------------------------------------------
(* What a step leaves alone. *)

LEMMA SameTyped ==
    ASSUME Typed, UNCHANGED <<text, page, target, reports, synthetic, baseline, domain, era, erased>>
    PROVE  Typed'
BY DEF Typed

LEMMA SameRead ==
    ASSUME Read, UNCHANGED <<text, baseline, resync>>
    PROVE  Read'
BY DEF Read, Known

LEMMA SameWaits ==
    ASSUME Waits, UNCHANGED <<pending, buffers, run, erased>>
    PROVE  Waits'
BY DEF Waits

LEMMA SameKept ==
    ASSUME Kept, UNCHANGED <<rows, rings, crossRing, erased>>
    PROVE  Kept'
BY DEF Kept

LEMMA SameMode ==
    ASSUME ModeIsKept, UNCHANGED <<handle, mode>>
    PROVE  ModeIsKept'
BY DEF ModeIsKept

\* Nothing waits after a policy transition.
LEMMA ClearedWaits ==
    ASSUME ClearMonitored
    PROVE  Waits'
<1>1. NoBuffer \in Buffers /\ EmptyRun \in Runs
  BY DEF Buffers, Runs, EmptyRun, Scopes
<1>2. \A f \in Fields : Fits(f, NoBuffer, EmptyRun, erased')
  BY DEF Fits, NoBuffer
<1>3. /\ pending' = <<>> /\ buffers' = [f \in Fields |-> NoBuffer]
      /\ run' = [f \in Fields |-> EmptyRun]
  BY DEF ClearMonitored, Dropped
<1>4. pending' \in Seq(Items(erased'))
  BY <1>3, EmptySeq
<1>5. /\ buffers' \in [Fields -> Buffers] /\ run' \in [Fields -> Runs]
      /\ \A f \in Fields : buffers'[f] = NoBuffer /\ run'[f] = EmptyRun
  BY <1>1, <1>3
<1> QED
  BY <1>2, <1>4, <1>5 DEF Waits

\* Cleared rings hold nothing.
LEMMA ClearedKept ==
    ASSUME ClearRings, rows' \in Seq(Records(erased'))
    PROVE  Kept'
<1>1. crossRing' = <<>> /\ rings' = [a \in Apps |-> <<>>]
  BY DEF ClearRings, NoRing
<1>2. \A a \in Apps : rings'[a] = <<>>
  BY <1>1
<1>3. rings' \in [Apps -> Seq(Records(erased'))]
  BY <1>1, EmptySeq
<1> QED
  BY <1>1, <1>2, <1>3, EmptySeq DEF Kept

\* A report joins the reports, unless it repeats the last.
LEMMA ReportJoins ==
    ASSUME Typed, NEW report \in Reported, Report(report)
    PROVE  reports' \in Seq(Reported)
<1>1. reports \in Seq(Reported)
  BY DEF Typed
<1>2. Append(reports, report) \in Seq(Reported)
  BY <1>1, AppendProperties
<1> QED
  BY <1>1, <1>2 DEF Report

----------------------------------------------------------------------------
(* The system. *)

\* What the system leaves alone: the host's memory.
LEMMA SystemLeaves ==
    ASSUME Inductive, UNCHANGED <<storeVars, domain, pending, buffers, mode, history>>,
           Typed', Read'
    PROVE  Inductive'
<1>1. Waits'
  BY SameWaits DEF Inductive, history
<1>2. Kept' /\ ModeIsKept'
  BY SameKept, SameMode DEF Inductive, storeVars, history
<1> QED
  BY <1>1, <1>2 DEF Inductive

LEMMA PiecesAreTyped == Pieces \subseteq Seq(Plain)
BY DEF Pieces, Plain

LEMMA UserTypesKeeps == ASSUME Inductive, UserTypes PROVE Inductive'
<1>1. PICK piece \in Pieces : text' = [text EXCEPT ![target] = @ \o piece]
  BY DEF UserTypes
<1>2. /\ text \in [Fields -> Seq(Chars)] /\ target \in Fields
      /\ baseline \in [field : Fields \cup {NoField}, text : Seq(Chars)]
      /\ piece \in Seq(Plain)
  BY PiecesAreTyped DEF Inductive, Typed
<1>3. /\ UNCHANGED <<page, target, synthetic, baseline, resync, domain, era, erased>>
      /\ UNCHANGED <<storeVars, domain, pending, buffers, mode, history>>
  BY DEF UserTypes, trackerVars, history, policyVars
<1>4. reports' \in Seq(Reported)
  <2>1. [kind |-> "caret", field |-> target] \in Reported
    BY <1>2 DEF Reported
  <2> QED
    BY <2>1, ReportJoins DEF UserTypes, Inductive
<1>5. text' \in [Fields -> Seq(Chars)]
  <2>1. piece \in Seq(Chars)
    BY <1>2, SeqMonotonic DEF Chars
  <2>2. text[target] \o piece \in Seq(Chars)
    BY <1>2, <2>1, ConcatProperties
  <2> QED
    BY <1>1, <1>2, <2>2
<1>6. Typed'
  BY <1>3, <1>4, <1>5 DEF Inductive, Typed
<1>7. Read'
  <2> SUFFICES ASSUME NEW f \in Fields, baseline.field = f, ~resync
               PROVE  TypedSince(baseline.text, text'[f])
    BY <1>3 DEF Read, Known
  <2>1. TypedSince(baseline.text, text[f]) /\ baseline.text \in Seq(Chars) /\ text[f] \in Seq(Chars)
    BY <1>2 DEF Inductive, Read, Known
  <2>2. CASE f = target
    <3>1. text'[f] = text[f] \o piece
      BY <1>1, <1>2, <2>2
    <3> QED
      BY <1>2, <2>1, <3>1, TypingGoesOn
  <2>3. CASE f # target
    BY <1>1, <1>2, <2>1, <2>3
  <2> QED
    BY <2>2, <2>3
<1> QED
  BY <1>3, <1>6, <1>7, SystemLeaves

LEMMA UserNavigatesKeeps == ASSUME Inductive, UserNavigates PROVE Inductive'
<1>1. /\ text \in [Fields -> Seq(Chars)] /\ target \in Fields
      /\ text' = [text EXCEPT ![target] = <<>>] /\ page' \in Domains
  BY DEF UserNavigates, Inductive, Typed
<1>2. /\ UNCHANGED <<target, synthetic, baseline, resync, domain, era, erased>>
      /\ UNCHANGED <<storeVars, domain, pending, buffers, mode, history>>
  BY DEF UserNavigates, trackerVars, history, policyVars
<1>3. reports' \in Seq(Reported)
  <2>1. [kind |-> "caret", field |-> target] \in Reported
    BY <1>1 DEF Reported
  <2> QED
    BY <2>1, ReportJoins DEF UserNavigates, Inductive
<1>4. Typed'
  <2>1. text' \in [Fields -> Seq(Chars)]
    BY <1>1, EmptySeq
  <2> QED
    BY <1>1, <1>2, <1>3, <2>1 DEF Inductive, Typed
<1>5. Read'
  <2> SUFFICES ASSUME NEW f \in Fields, baseline.field = f, ~resync
               PROVE  TypedSince(baseline.text, text'[f])
    BY <1>2 DEF Read, Known
  <2>1. CASE f = target
    <3>1. text'[f] = <<>>
      BY <1>1, <2>1
    <3> QED
      BY <3>1, EmptySeq DEF TypedSince
  <2>2. CASE f # target
    BY <1>1, <2>2 DEF Inductive, Read, Known
  <2> QED
    BY <2>1, <2>2
<1> QED
  BY <1>2, <1>4, <1>5, SystemLeaves

LEMMA UserFocusesKeeps == ASSUME Inductive, UserFocuses PROVE Inductive'
<1>1. PICK f \in Fields : target' = f /\ Report([kind |-> "focus", field |-> f])
  BY DEF UserFocuses
<1>2. /\ UNCHANGED <<text, page, synthetic, baseline, resync, domain, era, erased>>
      /\ UNCHANGED <<storeVars, domain, pending, buffers, mode, history>>
  BY DEF UserFocuses, trackerVars, history, policyVars
<1>3. reports' \in Seq(Reported)
  <2>1. [kind |-> "focus", field |-> f] \in Reported
    BY DEF Reported
  <2> QED
    BY <1>1, <2>1, ReportJoins DEF Inductive
<1>4. Typed' /\ Read'
  BY <1>1, <1>2, <1>3, SameRead DEF Inductive, Typed
<1> QED
  BY <1>2, <1>4, SystemLeaves

LEMMA UserAcceptsKeeps == ASSUME Inductive, UserAccepts PROVE Inductive'
<1>1. /\ UNCHANGED <<text, page, target, synthetic, baseline, resync, domain, era, erased>>
      /\ UNCHANGED <<storeVars, domain, pending, buffers, mode, history>>
  BY DEF UserAccepts, trackerVars, history, policyVars
<1>2. reports' \in Seq(Reported)
  <2>1. [kind |-> "accept", field |-> target] \in Reported
    BY DEF Reported, Inductive, Typed
  <2> QED
    BY <2>1, ReportJoins DEF UserAccepts, Inductive
<1>3. Typed' /\ Read'
  BY <1>1, <1>2, SameRead DEF Inductive, Typed
<1> QED
  BY <1>1, <1>3, SystemLeaves

LEMMA FieldTakesKeysKeeps == ASSUME Inductive, FieldTakesKeys PROVE Inductive'
<1>1. PICK g \in synthetic : /\ synthetic' = synthetic \ {g}
                             /\ text' = [text EXCEPT ![g] = Append(@, Sent)]
                             /\ Report([kind |-> "caret", field |-> g])
  BY DEF FieldTakesKeys
<1>2. /\ text \in [Fields -> Seq(Chars)] /\ g \in Fields
      /\ baseline \in [field : Fields \cup {NoField}, text : Seq(Chars)]
      /\ <<Sent>> \in Seq(Plain)
  BY DEF Inductive, Typed, Plain
<1>3. /\ UNCHANGED <<page, target, baseline, resync, domain, era, erased>>
      /\ UNCHANGED <<storeVars, domain, pending, buffers, mode, history>>
  BY DEF FieldTakesKeys, trackerVars, history, policyVars
<1>4. reports' \in Seq(Reported)
  <2>1. [kind |-> "caret", field |-> g] \in Reported
    BY <1>2 DEF Reported
  <2> QED
    BY <1>1, <2>1, ReportJoins DEF Inductive
<1>5. Typed'
  <2>1. Append(text[g], Sent) \in Seq(Chars)
    BY <1>2, AppendProperties DEF Chars, Plain
  <2>2. text' \in [Fields -> Seq(Chars)]
    BY <1>1, <1>2, <2>1
  <2> QED
    BY <1>1, <1>3, <1>4, <2>2 DEF Inductive, Typed
<1>6. Read'
  <2> SUFFICES ASSUME NEW f \in Fields, baseline.field = f, ~resync
               PROVE  TypedSince(baseline.text, text'[f])
    BY <1>3 DEF Read, Known
  <2>1. TypedSince(baseline.text, text[f]) /\ baseline.text \in Seq(Chars) /\ text[f] \in Seq(Chars)
    BY <1>2 DEF Inductive, Read, Known
  <2>2. CASE f = g
    <3>1. text'[f] = Append(text[f], Sent)
      BY <1>1, <1>2, <2>2
    <3>2. Append(text[f], Sent) = text[f] \o <<Sent>>
      BY <2>1
    <3> QED
      BY <1>2, <2>1, <3>1, <3>2, TypingGoesOn
  <2>3. CASE f # g
    BY <1>1, <1>2, <2>1, <2>3
  <2> QED
    BY <2>2, <2>3
<1> QED
  BY <1>3, <1>5, <1>6, SystemLeaves

LEMMA SystemSecuresKeeps == ASSUME Inductive, SystemSecures PROVE Inductive'
<1>1. /\ UNCHANGED <<text, page, target, reports, synthetic, baseline, resync, domain, era, erased>>
      /\ UNCHANGED <<storeVars, domain, pending, buffers, mode, history>>
  BY DEF SystemSecures, trackerVars, systemVars, history
<1>2. Typed' /\ Read'
  BY <1>1, SameTyped, SameRead DEF Inductive
<1> QED
  BY <1>1, <1>2, SystemLeaves

----------------------------------------------------------------------------
(* The events. *)

\* A read is the baseline of the next.
LEMMA ObservedRead ==
    ASSUME NEW f, Observe(f, text[f]), text' = text
    PROVE  Read'
<1>1. baseline' = [field |-> f, text |-> text[f]]
  BY DEF Observe
<1>2. \A g \in Fields : baseline'.field = g => TypedSince(baseline'.text, text[g])
  BY <1>1 DEF TypedSince
<1> QED
  BY <1>2 DEF Read, Known

\* A reset tracker knows no field.
LEMMA ResetRead ==
    ASSUME ResetTracker
    PROVE  Read' /\ baseline' \in [field : Fields \cup {NoField}, text : Seq(Chars)]
BY ScopeAssumption, EmptySeq DEF ResetTracker, NoBaseline, Read, Known

\* The page of a field, if it is read.
LEMMA PagesAreScopes ==
    ASSUME Typed, NEW f \in Fields, NEW failed
    PROVE  /\ PageEntry(f, failed) \in [app : Apps \cup {"none"}, host : Scopes]
           /\ TypingEntry(f, failed) \in [app : Apps \cup {"none"}, host : Scopes]
           /\ \A entry \in [app : Apps \cup {"none"}, host : Scopes] : DomainIn(entry, f) \in Scopes
<1>1. AppOf[f] \in Apps /\ page \in Scopes /\ NoDomain \in Scopes
  BY ScopeAssumption DEF Typed, Scopes
<1>2. domain \in [app : Apps \cup {"none"}, host : Scopes]
  BY DEF Typed
<1>3. PageEntry(f, failed) \in [app : Apps \cup {"none"}, host : Scopes]
  BY <1>1 DEF PageEntry, NoCache
<1>4. TypingEntry(f, failed) \in [app : Apps \cup {"none"}, host : Scopes]
  BY <1>2, <1>3 DEF TypingEntry
<1>5. \A entry \in [app : Apps \cup {"none"}, host : Scopes] : DomainIn(entry, f) \in Scopes
  BY <1>1 DEF DomainIn
<1> QED
  BY <1>3, <1>4, <1>5

\* What the host writes, the application included.
LEMMA WrittenAreChars ==
    /\ \A f : Meant(f) \in Seq(Chars) /\ Meant(f) # <<>>
    /\ {<<"g">>, <<"g", "G">>} \subseteq Seq(Chars)
<1>1. "g" \in Chars /\ "G" \in Chars /\ Sent \in Chars
  BY DEF Chars, Plain, Set
<1>2. <<"g">> \in Seq(Chars) /\ <<"g", "G">> \in Seq(Chars) /\ <<Sent>> \in Seq(Chars)
  BY <1>1
<1> QED
  BY <1>2 DEF Meant

\* A handled report is the first, of some field.
LEMMA HandledReport ==
    ASSUME Inductive, NEW kind, Handling(kind)
    PROVE  /\ Head(reports).field \in Fields /\ Tail(reports) \in Seq(Reported)
           /\ UNCHANGED <<mode, era, erased>>
<1>1. reports \in Seq(Reported) /\ reports # <<>>
  BY DEF Inductive, Typed, Handling
<1>2. Head(reports) \in Reported /\ Tail(reports) \in Seq(Reported)
  BY <1>1, HeadTailProperties
<1> QED
  BY <1>2 DEF Reported, Handling, policyVars

LEMMA HandleFocusKeeps == ASSUME Inductive, HandleFocus PROVE Inductive'
<1> DEFINE f == Head(reports).field
<1>1. PICK textFails \in BOOLEAN, pageFails \in BOOLEAN :
        /\ Handling("focus") /\ reports' = Tail(reports) /\ ClearMonitored
        /\ domain' = PageEntry(f, pageFails)
        /\ rings' = IF AppOf[f] \in allowed THEN Hydrated(AppOf[f]) ELSE rings
        /\ IF MonitoredActive /\ ~textFails THEN Observe(f, text[f]) ELSE ResetTracker
        /\ UNCHANGED <<rows, handle, crossRing, text, page, target, synthetic>>
  BY Zenon DEF HandleFocus
<1>2. f \in Fields /\ Tail(reports) \in Seq(Reported) /\ UNCHANGED <<mode, era, erased>>
  BY <1>1, HandledReport
<1> HIDE DEF f
<1>3. AppOf[f] \in Apps
  BY <1>2, ScopeAssumption
<1>4. Read' /\ baseline' \in [field : Fields \cup {NoField}, text : Seq(Chars)]
  <2>1. CASE ResetTracker
    BY <2>1, ResetRead
  <2>2. CASE Observe(f, text[f])
    <3>1. Read'
      BY <1>1, <2>2, ObservedRead
    <3>2. text[f] \in Seq(Chars)
      BY <1>2 DEF Inductive, Typed
    <3> QED
      BY <1>2, <2>2, <3>1, <3>2 DEF Observe
  <2> QED
    BY <1>1, <2>1, <2>2
<1>5. Typed'
  <2>1. domain' \in [app : Apps \cup {"none"}, host : Scopes]
    BY <1>1, <1>2, PagesAreScopes DEF Inductive
  <2> QED
    BY <1>1, <1>2, <1>4, <2>1 DEF Inductive, Typed
<1>6. Waits'
  BY <1>1, ClearedWaits
<1>7. Kept'
  <2> DEFINE U == Records(erased)
  <2>1. /\ rows \in Seq(U) /\ rings \in [Apps -> Seq(U)]
        /\ \A a \in Apps : rings[a] \in Seq({r \in U : r.app = a})
    BY DEF Inductive, Kept, RecordsOf
  <2>2. rings' \in {rings, Hydrated(AppOf[f])}
    BY <1>1
  <2>3. /\ rings' \in [Apps -> Seq(U)]
        /\ \A a \in Apps : rings'[a] \in Seq({r \in U : r.app = a})
    <3> HIDE DEF U
    <3>1. /\ Hydrated(AppOf[f]) \in [Apps -> Seq(U)]
          /\ \A a \in Apps : Hydrated(AppOf[f])[a] \in Seq({r \in U : r.app = a})
      BY <1>3, <2>1, HydratedKeeps
    <3> QED
      BY <2>1, <2>2, <3>1
  <2> QED
    BY <1>1, <1>2, <2>3 DEF Inductive, Kept, RecordsOf
<1>8. ModeIsKept'
  BY <1>1, <1>2, SameMode DEF Inductive
<1> QED
  BY <1>4, <1>5, <1>6, <1>7, <1>8 DEF Inductive

LEMMA HandleCaretKeeps == ASSUME Inductive, HandleCaret PROVE Inductive'
<1> DEFINE f == Head(reports).field
<1>1. PICK textFails \in BOOLEAN, pageFails \in BOOLEAN :
        /\ Handling("caret") /\ reports' = Tail(reports)
        /\ IF textFails THEN UNCHANGED trackerVars ELSE Observe(f, text[f])
        /\ IF textFails \/ IsMove(f, text[f]) THEN UNCHANGED <<domain, pending>>
           ELSE LET entry == TypingEntry(f, pageFails)
                IN  /\ domain' = entry
                    /\ pending' = IF MonitoredActive
                                  THEN Enqueued(f, Inserted(f, text[f]), DomainIn(entry, f))
                                  ELSE pending
        /\ UNCHANGED <<storeVars, text, page, target, synthetic, buffers, run>>
  BY Zenon DEF HandleCaret
<1>2. f \in Fields /\ Tail(reports) \in Seq(Reported) /\ UNCHANGED <<mode, era, erased>>
  BY <1>1, HandledReport
<1> HIDE DEF f
<1>3. text[f] \in Seq(Chars) /\ baseline \in [field : Fields \cup {NoField}, text : Seq(Chars)]
  BY <1>2 DEF Inductive, Typed
<1>4. Read' /\ baseline' \in [field : Fields \cup {NoField}, text : Seq(Chars)]
  <2>1. CASE textFails
    BY <1>1, <1>3, <2>1, SameRead DEF trackerVars, Inductive
  <2>2. CASE ~textFails
    <3>1. Observe(f, text[f]) /\ text' = text
      BY <1>1, <2>2
    <3>2. Read'
      BY <3>1, ObservedRead
    <3>3. baseline' = [field |-> f, text |-> text[f]]
      BY <3>1 DEF Observe
    <3> QED
      BY <1>2, <1>3, <3>2, <3>3
  <2> QED
    BY <2>1, <2>2
<1>5. /\ domain' \in [app : Apps \cup {"none"}, host : Scopes]
      /\ pending' \in Seq(Items(erased))
  <2>1. CASE textFails \/ IsMove(f, text[f])
    BY <1>1, <2>1 DEF Inductive, Typed, Waits
  <2>2. CASE ~(textFails \/ IsMove(f, text[f]))
    <3> DEFINE entry == TypingEntry(f, pageFails)
               inserted == Inserted(f, text[f])
    <3>1. entry \in [app : Apps \cup {"none"}, host : Scopes] /\ DomainIn(entry, f) \in Scopes
      BY <1>2, PagesAreScopes DEF Inductive
    <3>2. inserted \in Seq(Plain)
      <4>1. CASE Known(f)
        <5>1. TypedSince(baseline.text, text[f]) /\ baseline.text \in Seq(Chars)
          BY <1>2, <1>3, <2>2, <4>1 DEF IsMove, Inductive, Read
        <5> QED
          BY <1>3, <4>1, <5>1, InsertedIsTyped DEF Inserted
      <4>2. CASE ~Known(f)
        BY <4>2, EmptySeq DEF Inserted
      <4> QED
        BY <4>1, <4>2
    <3>3. domain' = entry /\ pending' \in {pending, Enqueued(f, inserted, DomainIn(entry, f))}
      BY <1>1, <2>2
    <3> HIDE DEF entry, inserted
    <3>4. Enqueued(f, inserted, DomainIn(entry, f)) \in Seq(Items(erased))
      BY <1>2, <3>1, <3>2, EnqueuedWaits
    <3> QED
      BY <3>1, <3>3, <3>4 DEF Inductive, Waits
  <2> QED
    BY <2>1, <2>2
<1>6. Typed'
  BY <1>1, <1>2, <1>4, <1>5 DEF Inductive, Typed
<1>7. Waits'
  BY <1>1, <1>2, <1>5 DEF Inductive, Waits
<1>8. Kept' /\ ModeIsKept'
  BY <1>1, <1>2, SameKept, SameMode DEF Inductive, storeVars
<1> QED
  BY <1>4, <1>6, <1>7, <1>8 DEF Inductive

LEMMA RecordFullAcceptKeeps ==
    ASSUME Inductive, NEW f \in Fields, UNCHANGED erased,
           RecordFullAccept(f) \/ UNCHANGED <<rings, crossRing, rows>>
    PROVE  Kept'
<1> DEFINE a == AppOf[f]
           record == AcceptedRecord(f)
<1>1. /\ rows \in Seq(Records(erased)) /\ crossRing \in Seq(Records(erased))
      /\ rings \in [Apps -> Seq(Records(erased))]
      /\ \A b \in Apps : rings[b] \in Seq(RecordsOf(b, erased))
  BY DEF Inductive, Kept
<1>2. CASE UNCHANGED <<rings, crossRing, rows>>
  BY <1>2, SameKept DEF Inductive
<1>3. CASE /\ rings' = [rings EXCEPT ![a] = Recent(@, record)]
           /\ crossRing' = Recent(crossRing, record)
           /\ rows' = Remembered(rows, record)
  <2>1. a \in Apps
    BY ScopeAssumption
  <2>2. record \in RecordsOf(a, erased) /\ record \in Records(erased)
    <3>1. DomainIn(domain, f) \in Scopes
      BY PagesAreScopes DEF Inductive, Typed
    <3>2. Meant(f) \in Seq(Chars)
      BY WrittenAreChars
    <3>3. /\ era \in Nat /\ \A x \in Apps \cup Domains : erased[x] \in Nat /\ erased[x] <= era
          /\ DomainIn(domain, f) # NoDomain => DomainIn(domain, f) \in Domains
      BY <3>1 DEF Inductive, Typed, Scopes
    <3>4. /\ record.kind = "accepted" /\ record.app = a
          /\ record \in [app : Apps, domain : Scopes, kind : {"accepted", "monitored"},
                         text : Seq(Chars), size : Nat, at : Nat, agreed : BOOLEAN]
      BY <2>1, <3>1, <3>2, <3>3 DEF AcceptedRecord
    <3>5. Current(record, erased)
      BY <2>1, <3>3 DEF AcceptedRecord, Current
    <3> HIDE DEF record
    <3> QED
      BY <3>4, <3>5 DEF Records, RecordsOf
  <2> HIDE DEF a, record
  <2>3. Recent(rings[a], record) \in Seq(RecordsOf(a, erased))
    BY <1>1, <2>1, <2>2, RecentKeeps
  <2>4. Recent(rings[a], record) \in Seq(Records(erased))
    BY <1>1, <2>1, <2>2, RecentKeeps
  <2>5. Recent(crossRing, record) \in Seq(Records(erased))
    BY <1>1, <2>2, RecentKeeps
  <2>6. Remembered(rows, record) \in Seq(Records(erased))
    BY <1>1, <2>2, RememberedKeeps
  <2>7. /\ rings' \in [Apps -> Seq(Records(erased))]
        /\ \A b \in Apps : rings'[b] \in Seq(RecordsOf(b, erased))
    BY <1>1, <1>3, <2>1, <2>3, <2>4
  <2> QED
    BY <1>3, <2>5, <2>6, <2>7 DEF Kept
<1> QED
  BY <1>2, <1>3 DEF RecordFullAccept

LEMMA HandleAcceptKeeps == ASSUME Inductive, HandleAccept PROVE Inductive'
<1> DEFINE f == Head(reports).field
<1>1. /\ Handling("accept")
      /\ \/ /\ Insert(f) /\ ApplySelfInsert(f, Meant(f))
            /\ RecordFullAccept(f) \/ UNCHANGED <<rings, crossRing, rows>>
         \/ /\ reports' = Tail(reports)
            /\ UNCHANGED <<trackerVars, rings, crossRing, rows, text, synthetic>>
      /\ UNCHANGED <<handle, page, target, domain, pending, buffers, run>>
  BY DEF HandleAccept
<1>2. f \in Fields /\ Tail(reports) \in Seq(Reported) /\ UNCHANGED <<mode, era, erased>>
  BY <1>1, HandledReport
<1> HIDE DEF f
<1>3. /\ text \in [Fields -> Seq(Chars)] /\ synthetic \subseteq Fields
      /\ baseline \in [field : Fields \cup {NoField}, text : Seq(Chars)]
  BY DEF Inductive, Typed
<1>4. Waits' /\ ModeIsKept'
  BY <1>1, <1>2, SameWaits, SameMode DEF Inductive
<1>5. Kept'
  <2>1. RecordFullAccept(f) \/ UNCHANGED <<rings, crossRing, rows>>
    BY <1>1
  <2> QED
    BY <1>2, <2>1, RecordFullAcceptKeeps
<1>6. CASE reports' = Tail(reports) /\ UNCHANGED <<trackerVars, text, synthetic>>
  <2>1. Typed'
    BY <1>1, <1>2, <1>6 DEF Inductive, Typed, trackerVars
  <2>2. Read'
    BY <1>6, SameRead DEF Inductive, trackerVars
  <2> QED
    BY <1>4, <1>5, <2>1, <2>2 DEF Inductive
<1>7. CASE Insert(f) /\ ApplySelfInsert(f, Meant(f))
  <2>1. reports' \in Seq(Reported) /\ synthetic' \subseteq Fields
    <3>1. [kind |-> "caret", field |-> f] \in Reported
      BY <1>2 DEF Reported
    <3>2. Append(Tail(reports), [kind |-> "caret", field |-> f]) \in Seq(Reported)
      BY <1>2, <3>1, AppendProperties
    <3> QED
      BY <1>2, <1>3, <1>7, <3>2 DEF Insert
  <2>2. /\ text' \in [Fields -> Seq(Chars)]
        /\ \A g \in Fields : g # f => text'[g] = text[g]
    <3>1. CASE text' = text
      BY <1>3, <3>1
    <3>2. CASE \E taken \in {<<"g">>, <<"g", "G">>} : text' = [text EXCEPT ![f] = @ \o taken]
      <4>1. PICK taken \in {<<"g">>, <<"g", "G">>} : text' = [text EXCEPT ![f] = @ \o taken]
        BY <3>2
      <4>2. taken \in Seq(Chars)
        BY WrittenAreChars
      <4>3. text[f] \o taken \in Seq(Chars)
        BY <1>2, <1>3, <4>2, ConcatProperties
      <4> QED
        BY <1>2, <1>3, <4>1, <4>3
    <3> QED
      BY <1>7, <3>1, <3>2 DEF Insert
  <2>3. Meant(f) \in Seq(Chars) /\ Meant(f) # <<>>
    BY WrittenAreChars
  <2>4. /\ baseline' \in [field : Fields \cup {NoField}, text : Seq(Chars)]
        /\ \/ resync' = TRUE
           \/ ~Known(f) /\ UNCHANGED <<baseline, resync>>
    <3>1. CASE Known(f)
      <4>1. baseline' = [baseline EXCEPT !.text = @ \o Meant(f)] /\ resync' = TRUE
        BY <1>7, <2>3, <3>1 DEF ApplySelfInsert
      <4>2. baseline.text \o Meant(f) \in Seq(Chars)
        BY <1>3, <2>3, ConcatProperties
      <4> QED
        BY <1>3, <4>1, <4>2
    <3>2. CASE ~Known(f)
      BY <1>3, <1>7, <3>2 DEF ApplySelfInsert, trackerVars
    <3> QED
      BY <3>1, <3>2
  <2>5. Typed'
    BY <1>1, <1>2, <2>1, <2>2, <2>4 DEF Inductive, Typed
  <2>6. Read'
    <3>1. CASE resync' = TRUE
      BY <3>1 DEF Read
    <3>2. CASE ~Known(f) /\ UNCHANGED <<baseline, resync>>
      BY <2>2, <3>2 DEF Inductive, Read, Known
    <3> QED
      BY <2>4, <3>1, <3>2
  <2> QED
    BY <1>4, <1>5, <2>5, <2>6 DEF Inductive
<1> QED
  BY <1>1, <1>6, <1>7

LEMMA EndEventsKeeps == ASSUME Inductive, EndEvents PROVE Inductive'
<1>1. UNCHANGED <<trackerVars, storeVars, systemVars, domain, pending, buffers, policyVars, history>>
  BY DEF EndEvents
<1>2. Typed' /\ Read'
  BY <1>1, SameTyped, SameRead DEF Inductive, trackerVars, systemVars, history
<1> QED
  BY <1>1, <1>2, SystemLeaves DEF policyVars

----------------------------------------------------------------------------
(* The policy, the flush and the restart. *)

\* What the policy leaves alone: the system and the tracker.
LEMMA PolicyLeaves ==
    ASSUME Inductive, UNCHANGED <<trackerVars, systemVars, domain, era, erased>>
    PROVE  Typed' /\ Read'
BY SameTyped, SameRead DEF Inductive, trackerVars, systemVars

LEMMA ToggleGlobalKeeps == ASSUME Inductive, ToggleGlobal PROVE Inductive'
<1>1. /\ ClearMonitored /\ UNCHANGED <<trackerVars, systemVars, domain, era, erased>>
      /\ UNCHANGED <<storeVars, mode>>
  BY DEF ToggleGlobal, InPolicy
<1>2. Typed' /\ Read' /\ Waits'
  BY <1>1, PolicyLeaves, ClearedWaits
<1>3. Kept' /\ ModeIsKept'
  BY <1>1, SameKept, SameMode DEF Inductive, storeVars
<1> QED
  BY <1>2, <1>3 DEF Inductive

LEMMA ToggleCollectionKeeps == ASSUME Inductive, ToggleCollection PROVE Inductive'
<1>1. /\ ClearMonitored /\ UNCHANGED <<trackerVars, systemVars, domain, era, erased>>
      /\ UNCHANGED <<storeVars, mode>>
  BY DEF ToggleCollection, InPolicy
<1>2. Typed' /\ Read' /\ Waits'
  BY <1>1, PolicyLeaves, ClearedWaits
<1>3. Kept' /\ ModeIsKept'
  BY <1>1, SameKept, SameMode DEF Inductive, storeVars
<1> QED
  BY <1>2, <1>3 DEF Inductive

LEMMA FlagsKeep == ASSUME Inductive, TrayToggle \/ EditPolicy \/ Poll PROVE Inductive'
<1>1. /\ UNCHANGED <<trackerVars, systemVars, domain>>
      /\ UNCHANGED <<storeVars, domain, pending, buffers, mode, history>>
  BY DEF TrayToggle, EditPolicy, Poll, InPolicy
<1>2. Typed' /\ Read'
  BY <1>1, PolicyLeaves DEF history
<1> QED
  BY <1>1, <1>2, SystemLeaves

LEMMA ChangeModeKeeps == ASSUME Inductive, ChangeMode PROVE Inductive'
<1>1. UNCHANGED <<trackerVars, systemVars, domain, rows, era, erased>>
  BY DEF ChangeMode, InPolicy
<1>2. Typed' /\ Read'
  BY <1>1, PolicyLeaves
<1>3. handle \in {"closed", mode}
  BY DEF Inductive, ModeIsKept
<1>4. PICK desired \in Modes \ {mode}, opened \in BOOLEAN, persisted \in BOOLEAN :
        IF handle = "closed" /\ desired # "off" /\ ~opened
        THEN UNCHANGED <<handle, rings, crossRing, mode, pending, buffers, run>>
        ELSE LET open == handle # "closed" \/ desired # "off"
             IN  IF persisted
                 THEN /\ handle' = IF open THEN desired ELSE handle
                      /\ mode' = desired
                      /\ ClearMonitored /\ ClearRings
                 ELSE /\ handle' = AfterFailedSave(open, desired)
                      /\ UNCHANGED <<rings, crossRing, mode, pending, buffers, run>>
  BY Zenon DEF ChangeMode
<1>5. CASE UNCHANGED <<rings, crossRing, mode, pending, buffers, run>>
  <2>1. handle' = handle \/ \E open \in BOOLEAN : handle' = AfterFailedSave(open, desired)
                                                  /\ (~open => handle = "closed")
    BY <1>4, <1>5
  <2>2. ModeIsKept'
    BY <1>3, <1>5, <2>1 DEF AfterFailedSave, ModeIsKept
  <2>3. Waits' /\ Kept'
    BY <1>1, <1>5, SameWaits, SameKept DEF Inductive
  <2> QED
    BY <1>2, <2>2, <2>3 DEF Inductive
<1>6. CASE /\ handle' = IF handle # "closed" \/ desired # "off" THEN desired ELSE handle
           /\ mode' = desired /\ ClearMonitored /\ ClearRings
  <2>1. ModeIsKept'
    BY <1>3, <1>6 DEF ModeIsKept
  <2>2. Waits'
    BY <1>6, ClearedWaits
  <2>3. Kept'
    BY <1>1, <1>6, ClearedKept DEF Inductive, Kept
  <2> QED
    BY <1>2, <2>1, <2>2, <2>3 DEF Inductive
<1> QED
  BY <1>4, <1>5, <1>6

\* What an erasure does not reach stays current.
LEMMA ErasureReaches ==
    ASSUME Typed, NEW scopes \in SUBSET (Apps \cup Domains), Erasing(scopes)
    PROVE  /\ era' \in Nat /\ erased' \in [Apps \cup Domains -> Nat]
           /\ \A x \in Apps \cup Domains : erased'[x] <= era'
           /\ \A x \in (Apps \cup Domains) \ scopes : erased'[x] = erased[x]
<1>1. /\ era' = era + 1 /\ era \in Nat
      /\ erased \in [Apps \cup Domains -> Nat] /\ \A x \in Apps \cup Domains : erased[x] <= era
      /\ erased' = [x \in Apps \cup Domains |-> IF x \in scopes THEN era' ELSE erased[x]]
  BY DEF Erasing, Typed
<1>2. era' \in Nat /\ \A x \in Apps \cup Domains :
        /\ erased'[x] = IF x \in scopes THEN era' ELSE erased[x]
        /\ erased[x] \in Nat /\ erased[x] <= era'
  BY <1>1
<1> QED
  BY <1>1, <1>2

\* What is of no erased scope is not affected.
LEMMA ErasureSpares ==
    ASSUME Typed, NEW scopes \in SUBSET (Apps \cup Domains), Erasing(scopes)
    PROVE  /\ \A x \in Items(erased) :
                 x.app \notin scopes /\ x.domain \notin scopes => x \in Items(erased')
           /\ \A x \in Records(erased) :
                 x.app \notin scopes /\ x.domain \notin scopes => x \in Records(erased')
<1>1. \A x \in (Apps \cup Domains) \ scopes : erased'[x] = erased[x]
  BY ErasureReaches
<1>2. ASSUME NEW x, x.app \in Apps \ scopes, x.domain \in Scopes \ scopes, Current(x, erased)
      PROVE  Current(x, erased')
  BY <1>1, <1>2 DEF Current, Scopes
<1>3. ASSUME NEW x \in Items(erased), x.app \notin scopes, x.domain \notin scopes
      PROVE  x \in Items(erased')
  <2>1. x.app \in Apps /\ x.domain \in Scopes /\ Current(x, erased)
    BY DEF Items
  <2>2. Current(x, erased')
    BY <1>2, <1>3, <2>1
  <2> QED
    BY <2>2 DEF Items
<1>4. ASSUME NEW x \in Records(erased), x.app \notin scopes, x.domain \notin scopes
      PROVE  x \in Records(erased')
  <2>1. x.app \in Apps /\ x.domain \in Scopes /\ Current(x, erased)
    BY DEF Records
  <2>2. Current(x, erased')
    BY <1>2, <1>4, <2>1
  <2> QED
    BY <2>2 DEF Records
<1> QED
  BY <1>3, <1>4

LEMMA ErasureTyped ==
    ASSUME Inductive, NEW scopes \in SUBSET (Apps \cup Domains), Erasing(scopes), InPolicy("erases")
    PROVE  Typed' /\ Read' /\ ModeIsKept'
<1>1. UNCHANGED <<trackerVars, systemVars, domain, handle, mode>>
  BY DEF Erasing, InPolicy, policyVars
<1>2. /\ era' \in Nat /\ erased' \in [Apps \cup Domains -> Nat]
      /\ \A x \in Apps \cup Domains : erased'[x] <= era'
  BY ErasureReaches DEF Inductive
<1>3. Typed'
  BY <1>1, <1>2 DEF Inductive, Typed, trackerVars, systemVars
<1> QED
  BY <1>1, <1>3, SameRead, SameMode DEF Inductive, trackerVars, systemVars

LEMMA EraseAllKeeps == ASSUME Inductive, EraseAll PROVE Inductive'
<1>1. Erasing(Apps) /\ InPolicy("erases") /\ rows' = <<>> /\ ClearRings /\ ClearMonitored
  BY DEF EraseAll, DeleteAll
<1>2. Typed' /\ Read' /\ ModeIsKept'
  BY <1>1, ErasureTyped
<1>3. rows' \in Seq(Records(erased'))
  BY <1>1, EmptySeq
<1> QED
  BY <1>1, <1>2, <1>3, ClearedWaits, ClearedKept DEF Inductive

LEMMA EraseDomainKeeps == ASSUME Inductive, EraseDomain PROVE Inductive'
<1>1. PICK d \in Domains : Erasing({d}) /\ DeleteDomain(d) /\ ClearRings
  BY DEF EraseDomain
<1>2. InPolicy("erases") /\ ClearMonitored
  BY DEF EraseDomain
<1>3. {d} \in SUBSET (Apps \cup Domains) /\ d \notin Apps
  BY ScopeAssumption
<1>4. Typed' /\ Read' /\ ModeIsKept'
  BY <1>1, <1>2, <1>3, ErasureTyped
<1>5. rows' \in Seq(Records(erased'))
  <2> DEFINE kept == {r \in Range(rows) : r.domain # d}
  <2>1. rows' = Only(rows, kept) /\ rows \in Seq(Records(erased))
    BY <1>1 DEF DeleteDomain, Inductive, Kept
  <2>2. Records(erased) \cap kept \subseteq Records(erased')
    <3>1. ASSUME NEW r \in Records(erased), r.domain # d PROVE r \in Records(erased')
      <4>1. r.app \notin {d} /\ r.domain \notin {d}
        BY <1>3, <3>1 DEF Records
      <4> QED
        BY <1>1, <1>3, <4>1, ErasureSpares DEF Inductive
    <3> QED
      BY <3>1
  <2> HIDE DEF kept
  <2>3. Only(rows, kept) \in Seq(Records(erased) \cap kept)
    BY <2>1, OnlyKeeps
  <2> QED
    BY <2>1, <2>2, <2>3, SeqMonotonic
<1> QED
  BY <1>1, <1>2, <1>4, <1>5, ClearedWaits, ClearedKept DEF Inductive

LEMMA EraseAppKeeps == ASSUME Inductive, EraseApp PROVE Inductive'
<1>1. PICK a \in {rows[i].app : i \in DOMAIN rows} :
        /\ Erasing({a}) /\ DeleteApp(a) /\ ClearRing(a)
        /\ pending' = Only(pending, {item \in Range(pending) : item.app # a})
        /\ buffers' = [f \in Fields |-> IF AppOf[f] = a THEN NoBuffer ELSE buffers[f]]
        /\ run' = [f \in Fields |-> IF AppOf[f] = a THEN EmptyRun ELSE run[f]]
  BY DEF EraseApp
<1>2. /\ rows \in Seq(Records(erased)) /\ pending \in Seq(Items(erased))
      /\ buffers \in [Fields -> Buffers] /\ run \in [Fields -> Runs]
      /\ \A f \in Fields : Fits(f, buffers[f], run[f], erased)
      /\ rings \in [Apps -> Seq(Records(erased))]
      /\ \A b \in Apps : rings[b] \in Seq(RecordsOf(b, erased))
  BY DEF Inductive, Waits, Kept
<1>3. a \in Apps
  <2>1. PICK i \in DOMAIN rows : a = rows[i].app
    BY <1>1
  <2>2. rows[i] \in Records(erased)
    BY <1>2, <2>1
  <2> QED
    BY <2>1, <2>2 DEF Records
<1>4. {a} \in SUBSET (Apps \cup Domains) /\ \A d \in Scopes : d # a
  BY <1>3, ScopeAssumption DEF Scopes
<1>5. Typed' /\ Read' /\ ModeIsKept'
  BY <1>1, <1>4, ErasureTyped DEF EraseApp
<1>6. /\ \A x \in Items(erased) : x.app # a => x \in Items(erased')
      /\ \A x \in Records(erased) : x.app # a => x \in Records(erased')
  <2>1. \A x \in Items(erased) : x.domain \in Scopes
    BY DEF Items
  <2>2. \A x \in Records(erased) : x.domain \in Scopes
    BY DEF Records
  <2> QED
    BY <1>1, <1>4, <2>1, <2>2, ErasureSpares DEF Inductive
<1>7. pending' \in Seq(Items(erased'))
  <2> DEFINE kept == {item \in Range(pending) : item.app # a}
  <2>1. Items(erased) \cap kept \subseteq Items(erased')
    BY <1>6
  <2> HIDE DEF kept
  <2>2. Only(pending, kept) \in Seq(Items(erased) \cap kept)
    BY <1>2, OnlyKeeps
  <2>3. Only(pending, kept) \in Seq(Items(erased'))
    BY <2>1, <2>2, SeqMonotonic
  <2> QED
    BY <1>1, <2>3 DEF kept
<1>8. rows' \in Seq(Records(erased'))
  <2> DEFINE kept == {r \in Range(rows) : r.app # a}
  <2>1. Records(erased) \cap kept \subseteq Records(erased')
    BY <1>6
  <2> HIDE DEF kept
  <2>2. Only(rows, kept) \in Seq(Records(erased) \cap kept)
    BY <1>2, OnlyKeeps
  <2>3. Only(rows, kept) \in Seq(Records(erased'))
    BY <2>1, <2>2, SeqMonotonic
  <2> QED
    BY <1>1, <2>3 DEF kept, DeleteApp
<1>9. /\ buffers' \in [Fields -> Buffers] /\ run' \in [Fields -> Runs]
      /\ \A f \in Fields : Fits(f, buffers'[f], run'[f], erased')
  <2>1. NoBuffer \in Buffers /\ EmptyRun \in Runs
    BY DEF Buffers, Runs, EmptyRun, Scopes
  <2>2. \A x \in (Apps \cup Domains) \ {a} : erased'[x] = erased[x]
    BY <1>1, <1>4, ErasureReaches DEF Inductive
  <2>3. ASSUME NEW f \in Fields
        PROVE  Fits(f, buffers'[f], run'[f], erased')
    <3>1. CASE AppOf[f] = a
      <4>1. buffers'[f] = NoBuffer /\ run'[f] = EmptyRun
        BY <1>1, <3>1
      <4> QED
        BY <4>1 DEF Fits, NoBuffer
    <3>2. CASE AppOf[f] # a
      <4>1. buffers'[f] = buffers[f] /\ run'[f] = run[f]
        BY <1>1, <3>2
      <4>2. /\ buffers[f] \in Buffers /\ run[f] \in Runs
            /\ Fits(f, buffers[f], run[f], erased)
        BY <1>2
      <4>3. ASSUME buffers[f].kind = "collecting" PROVE Current(buffers[f], erased')
        <5>1. /\ buffers[f].app = AppOf[f] /\ AppOf[f] \in Apps
              /\ buffers[f].domain \in Scopes /\ Current(buffers[f], erased)
          BY <4>2, <4>3, ScopeAssumption DEF Fits, Runs
        <5> QED
          BY <1>4, <2>2, <3>2, <5>1 DEF Current, Scopes
      <4> QED
        BY <4>1, <4>2, <4>3 DEF Fits
    <3> QED
      BY <3>1, <3>2
  <2>4. buffers' \in [Fields -> Buffers] /\ run' \in [Fields -> Runs]
    BY <1>1, <1>2, <2>1
  <2> QED
    BY <2>3, <2>4
<1>10. /\ crossRing' \in Seq(Records(erased')) /\ rings' \in [Apps -> Seq(Records(erased'))]
       /\ \A b \in Apps : rings'[b] \in Seq(RecordsOf(b, erased'))
  <2>1. crossRing' = <<>> /\ rings' = [rings EXCEPT ![a] = <<>>]
    BY <1>1 DEF ClearRing, NoRing
  <2>2. ASSUME NEW b \in Apps
        PROVE  rings'[b] \in Seq(RecordsOf(b, erased'))
    <3>1. CASE b = a
      <4>1. rings'[b] = <<>>
        BY <1>2, <2>1, <3>1
      <4> QED
        BY <4>1, EmptySeq
    <3>2. CASE b # a
      <4>1. rings'[b] = rings[b]
        BY <1>2, <2>1, <3>2
      <4>2. RecordsOf(b, erased) \subseteq RecordsOf(b, erased')
        BY <1>6, <3>2 DEF RecordsOf
      <4> QED
        BY <1>2, <4>1, <4>2, SeqMonotonic
    <3> QED
      BY <3>1, <3>2
  <2>3. \A b \in Apps : rings'[b] \in Seq(Records(erased'))
    <3>1. \A b \in Apps : RecordsOf(b, erased') \subseteq Records(erased')
      BY DEF RecordsOf
    <3> QED
      BY <2>2, <3>1, SeqMonotonic
  <2>4. rings' = [b \in Apps |-> rings'[b]]
    BY <1>2, <2>1
  <2> QED
    BY <2>1, <2>2, <2>3, <2>4, EmptySeq
<1> QED
  BY <1>5, <1>7, <1>8, <1>9, <1>10 DEF Inductive, Waits, Kept

LEMMA EndTurnKeeps == ASSUME Inductive, EndTurn PROVE Inductive'
<1>1. /\ UNCHANGED <<handle, rings, crossRing, systemVars, domain, mode, era, erased>>
      /\ pending' = <<>>
      /\ rows' = IF secure' THEN rows ELSE FoldLeft(Remembered, rows, Flushed.stored)
      /\ ResetTracker \/ UNCHANGED trackerVars
      /\ \/ /\ buffers' = [f \in Fields |-> NoBuffer]
            /\ run' = [f \in Fields |-> EmptyRun]
         \/ buffers' = Flushed.buffers /\ run' = Flushed.run
  BY DEF EndTurn
<1>2. /\ pending \in Seq(Items(erased)) /\ rows \in Seq(Records(erased))
      /\ erased \in [Apps \cup Domains -> Nat]
  BY DEF Inductive, Waits, Kept, Typed
<1>3. Flushed \in FlushStates(erased)
  <2> DEFINE start == [buffers |-> buffers, run |-> run, stored |-> <<>>]
  <2>1. start \in FlushStates(erased)
    BY EmptySeq DEF FlushStates, Inductive, Waits
  <2>2. FoldLeft(FlushItem, start, pending) \in FlushStates(erased)
    <3> HIDE DEF start
    <3> QED
      BY <1>2, <2>1, FlushKeeps
  <2> QED
    BY <2>2 DEF Flushed
<1>4. /\ Flushed.buffers \in [Fields -> Buffers] /\ Flushed.run \in [Fields -> Runs]
      /\ Flushed.stored \in Seq(Records(erased))
      /\ \A f \in Fields : Fits(f, Flushed.buffers[f], Flushed.run[f], erased)
  BY <1>3 DEF FlushStates
<1>5. Waits'
  <2>1. CASE buffers' = Flushed.buffers /\ run' = Flushed.run
    BY <1>1, <1>4, <2>1, EmptySeq DEF Waits
  <2>2. CASE /\ buffers' = [f \in Fields |-> NoBuffer]
             /\ run' = [f \in Fields |-> EmptyRun]
    BY <1>1, <2>2, ClearedWaits DEF ClearMonitored, Dropped
  <2> QED
    BY <1>1, <2>1, <2>2
<1>6. Kept'
  <2>1. FoldLeft(Remembered, rows, Flushed.stored) \in Seq(Records(erased))
    BY <1>2, <1>4, TablesFill
  <2>2. rows' \in Seq(Records(erased))
    BY <1>1, <1>2, <2>1
  <2> QED
    BY <1>1, <2>2 DEF Inductive, Kept
<1>7. Typed' /\ Read'
  <2>1. CASE ResetTracker
    BY <1>1, <2>1, ResetRead DEF Inductive, Typed, systemVars
  <2>2. CASE UNCHANGED trackerVars
    BY <1>1, <2>2, PolicyLeaves
  <2> QED
    BY <1>1, <2>1, <2>2
<1> QED
  BY <1>1, <1>5, <1>6, <1>7, SameMode DEF Inductive

LEMMA RestartKeeps == ASSUME Inductive, Restart PROVE Inductive'
<1>1. /\ ResetTracker /\ ClearRings /\ ClearMonitored
      /\ handle' \in {mode, "closed"} /\ domain' = NoCache /\ reports' = <<>>
      /\ UNCHANGED <<rows, text, page, target, synthetic, mode, era, erased>>
  BY DEF Restart
<1>2. Typed' /\ Read'
  <2>1. domain' \in [app : Apps \cup {"none"}, host : Scopes]
    BY <1>1 DEF NoCache, Scopes
  <2>2. reports' \in Seq(Reported)
    BY <1>1, EmptySeq
  <2> QED
    BY <1>1, <2>1, <2>2, ResetRead DEF Inductive, Typed
<1>3. Waits'
  BY <1>1, ClearedWaits
<1>4. Kept'
  BY <1>1, ClearedKept DEF Inductive, Kept
<1>5. ModeIsKept'
  BY <1>1 DEF ModeIsKept
<1> QED
  BY <1>2, <1>3, <1>4, <1>5 DEF Inductive

----------------------------------------------------------------------------
(* Theorems. *)

LEMMA InitKeeps == Init => Inductive
<1> SUFFICES ASSUME Init PROVE Inductive
  OBVIOUS
<1>1. /\ baseline = NoBaseline /\ rows = <<>> /\ crossRing = <<>> /\ handle = mode
      /\ rings = [a \in Apps |-> <<>>] /\ text = [f \in Fields |-> <<>>]
      /\ page \in Domains /\ target \in Fields
      /\ reports = <<[kind |-> "focus", field |-> target]>> /\ synthetic = {}
      /\ domain = NoCache /\ pending = <<>>
      /\ buffers = [f \in Fields |-> NoBuffer] /\ run = [f \in Fields |-> EmptyRun]
      /\ era = 0 /\ erased = [x \in Apps \cup Domains |-> 0]
  BY DEF Init, InitTracker, InitStore, NoRing
<1>2. Typed
  <2>1. text \in [Fields -> Seq(Chars)]
    BY <1>1, EmptySeq
  <2>2. baseline \in [field : Fields \cup {NoField}, text : Seq(Chars)]
    BY <1>1, EmptySeq DEF NoBaseline
  <2>3. reports \in Seq(Reported)
    <3>1. [kind |-> "focus", field |-> target] \in Reported
      BY <1>1 DEF Reported
    <3> QED
      BY <1>1, <3>1
  <2>4. domain \in [app : Apps \cup {"none"}, host : Scopes]
    BY <1>1 DEF NoCache, Scopes
  <2> QED
    BY <1>1, <2>1, <2>2, <2>3, <2>4 DEF Typed
<1>3. Read
  BY <1>1, ScopeAssumption DEF Read, Known, NoBaseline
<1>4. Waits
  <2>1. NoBuffer \in Buffers /\ EmptyRun \in Runs
    BY DEF Buffers, Runs, EmptyRun, Scopes
  <2>2. \A f \in Fields : Fits(f, NoBuffer, EmptyRun, erased)
    BY DEF Fits, NoBuffer
  <2> QED
    BY <1>1, <2>1, <2>2, EmptySeq DEF Waits
<1>5. Kept
  <2>1. \A a \in Apps : rings[a] = <<>>
    BY <1>1
  <2>2. rings \in [Apps -> Seq(Records(erased))]
    BY <1>1, EmptySeq
  <2> QED
    BY <1>1, <2>1, <2>2, EmptySeq DEF Kept
<1>6. ModeIsKept
  BY <1>1 DEF ModeIsKept
<1> QED
  BY <1>2, <1>3, <1>4, <1>5, <1>6 DEF Inductive

LEMMA NextKeeps == Inductive /\ [Next]_vars => Inductive'
<1> SUFFICES ASSUME Inductive, [Next]_vars PROVE Inductive'
  OBVIOUS
<1>1. CASE System
  BY <1>1, UserTypesKeeps, UserNavigatesKeeps, UserFocusesKeeps, UserAcceptsKeeps,
     FieldTakesKeysKeeps, SystemSecuresKeeps DEF System
<1>2. CASE Events
  BY <1>2, HandleFocusKeeps, HandleCaretKeeps, HandleAcceptKeeps, EndEventsKeeps DEF Events
<1>3. CASE Policy
  BY <1>3, ToggleGlobalKeeps, ToggleCollectionKeeps, FlagsKeep, ChangeModeKeeps,
     EraseAllKeeps, EraseAppKeeps, EraseDomainKeeps DEF Policy
<1>4. CASE EndTurn
  BY <1>4, EndTurnKeeps
<1>5. CASE Restart
  BY <1>5, RestartKeeps
<1>6. CASE UNCHANGED vars
  <2>1. /\ UNCHANGED <<trackerVars, systemVars, domain, era, erased>>
        /\ UNCHANGED <<storeVars, domain, pending, buffers, mode, history>>
    BY <1>6 DEF vars, policyVars, history
  <2> QED
    BY <2>1, PolicyLeaves, SystemLeaves
<1> QED
  BY <1>1, <1>2, <1>3, <1>4, <1>5, <1>6 DEF Next

\* The invariant of the memory holds in every reachable state.
THEOREM MemoryInvariant == Spec => []Inductive
BY InitKeeps, NextKeeps, PTL DEF Spec

\* The texts that wait, and those of the monitored records, were typed.
LEMMA WaitingIsTyped ==
    ASSUME Inductive
    PROVE  \A x \in Waiting \cup Monitored : x.text \in Seq(Plain)
<1>1. /\ pending \in Seq(Items(erased)) /\ rows \in Seq(Records(erased))
      /\ buffers \in [Fields -> Buffers]
  BY DEF Inductive, Waits, Kept
<1>2. \A i \in DOMAIN pending : pending[i].text \in Seq(Plain)
  <2>1. \A i \in DOMAIN pending : pending[i] \in Items(erased)
    BY <1>1
  <2> QED
    BY <2>1 DEF Items
<1>3. \A i \in DOMAIN rows : rows[i].kind = "monitored" => rows[i].text \in Seq(Plain)
  <2>1. \A i \in DOMAIN rows : rows[i] \in Records(erased)
    BY <1>1
  <2> QED
    BY <2>1 DEF Records
<1>4. \A b \in Buffers : b.kind = "collecting" => b.text \in Seq(Plain)
  BY DEF Buffers, NoBuffer
<1>5. \A f \in Fields : buffers[f].kind = "collecting" => buffers[f].text \in Seq(Plain)
  BY <1>1, <1>4
<1> QED
  BY <1>2, <1>3, <1>5 DEF Waiting, Monitored

\* What the host wrote itself, as its application changed it, is not remembered
\* as typing (the baseline and the resync of wiring.rs).
THEOREM EchoesAreNotTyping == Spec => []EchoIsNotTyping
<1>1. Inductive => EchoIsNotTyping
  <2> SUFFICES ASSUME Inductive, NEW x \in Waiting \cup Monitored, NEW i \in DOMAIN x.text
               PROVE  x.text[i] \notin Set
    BY DEF EchoIsNotTyping
  <2>1. x.text \in Seq(Plain)
    BY WaitingIsTyped
  <2>2. x.text[i] \in Plain
    BY <2>1
  <2> QED
    BY <2>2 DEF Plain, Set, Blank, Sent
<1> QED
  BY <1>1, MemoryInvariant, PTL

\* A monitored record is a whole run, up to a blank (buffered_monitored_text).
THEOREM RecordsAreWholeRuns == Spec => []RecordIsWholeRun
<1>1. Inductive => RecordIsWholeRun
  <2> SUFFICES ASSUME Inductive, NEW i \in DOMAIN rows, rows[i].kind = "monitored"
               PROVE  /\ Len(rows[i].text) = rows[i].size /\ rows[i].size <= BufferCap
                      /\ HasBlank(rows[i].text)
    BY DEF RecordIsWholeRun, Monitored
  <2>1. rows[i] \in Records(erased)
    BY DEF Inductive, Kept
  <2> QED
    BY <2>1 DEF Records
<1> QED
  BY <1>1, MemoryInvariant, PTL

\* What was remembered before an erasure is gone for good, wherever it was.
THEOREM ErasedStaysGone == Spec => []ErasedIsGone
<1>1. Inductive => ErasedIsGone
  <2> SUFFICES ASSUME Inductive PROVE ErasedIsGone
    OBVIOUS
  <2> DEFINE remembered == {rows[i] : i \in DOMAIN rows} \cup {crossRing[i] : i \in DOMAIN crossRing}
                           \cup UNION {{rings[a][i] : i \in DOMAIN rings[a]} : a \in Apps}
  <2>1. /\ rows \in Seq(Records(erased)) /\ crossRing \in Seq(Records(erased))
        /\ \A a \in Apps : rings[a] \in Seq(Records(erased))
        /\ pending \in Seq(Items(erased))
        /\ buffers \in [Fields -> Buffers]
        /\ \A f \in Fields : Fits(f, buffers[f], run[f], erased)
    BY DEF Inductive, Kept, Waits
  <2>2. \A r \in remembered : r \in Records(erased)
    <3>1. /\ \A i \in DOMAIN rows : rows[i] \in Records(erased)
          /\ \A i \in DOMAIN crossRing : crossRing[i] \in Records(erased)
      BY <2>1
    <3>2. \A a \in Apps : \A i \in DOMAIN rings[a] : rings[a][i] \in Records(erased)
      BY <2>1
    <3> QED
      BY <3>1, <3>2
  <2>3. \A r \in Records(erased) : Current(r, erased)
    BY DEF Records
  <2>4. \A x \in Waiting : Current(x, erased)
    <3>1. \A i \in DOMAIN pending : pending[i] \in Items(erased)
      BY <2>1
    <3>2. \A i \in DOMAIN pending : Current(pending[i], erased)
      BY <3>1 DEF Items
    <3>3. \A f \in Fields : buffers[f].kind = "collecting" => Current(buffers[f], erased)
      BY <2>1 DEF Fits
    <3> QED
      BY <3>2, <3>3 DEF Waiting
  <2>5. \A x \in remembered \cup Waiting : Current(x, erased)
    BY <2>2, <2>3, <2>4
  <2> HIDE DEF remembered
  <2>6. \A x \in remembered \cup Waiting :
            \A scope \in {x.app, x.domain} \ {NoDomain} : x.at >= erased[scope]
    BY <2>5 DEF Current
  <2> QED
    BY <2>6 DEF ErasedIsGone, remembered
<1> QED
  BY <1>1, MemoryInvariant, PTL

\* The open store has the mode of the settings (transition_memory_mode).
THEOREM ModeStaysKept == Spec => []ModeIsKept
<1>1. Inductive => ModeIsKept
  BY DEF Inductive
<1> QED
  BY <1>1, MemoryInvariant, PTL
=============================================================================
