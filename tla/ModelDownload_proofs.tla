------------------------- MODULE ModelDownload_proofs -------------------------
(***************************************************************************)
(* Theorems about ModelDownload: what is published is what the catalog     *)
(* pins, for every server, fault, crash and power cut.                     *)
(***************************************************************************)
EXTENDS ModelDownload, TLAPS

USE DownloadAssumption

PinnedFile == FileOf(Content[Pinned])

\* A value with the fields of a file.
IsFile(f) ==
    /\ f = [there |-> f.there, data |-> f.data, synced |-> f.synced]
    /\ f.there \in BOOLEAN

\* What may be under the published name: nothing, what an earlier release or the
\* user left there, or the pinned file; whole and on disk in every case.
DestIsKnown == dest \in {NoFile, Stub, Broken, PinnedFile}

\* The name is only ever given out, and a download only ever called finished, for
\* the pinned file.
DoneIsPinned == wired \/ state = "done" => dest = PinnedFile

Inductive == IsFile(part) /\ DestIsKnown /\ DoneIsPinned

----------------------------------------------------------------------------
(* Files. *)

\* A file that is replaced in one field stays one.
LEMMA FileUpdates ==
    ASSUME NEW t, NEW d, NEW s, NEW x, NEW f, f = [there |-> t, data |-> d, synced |-> s]
    PROVE  /\ [f EXCEPT !.synced = x] = [there |-> t, data |-> d, synced |-> x]
           /\ [f EXCEPT !.data = x] = [there |-> t, data |-> x, synced |-> s]
OBVIOUS

\* So does one that is synced, extended or cut.
LEMMA StaysFile ==
    ASSUME NEW f, IsFile(f), NEW x, NEW y
    PROVE  /\ IsFile([f EXCEPT !.synced = x]) /\ IsFile([f EXCEPT !.data = x])
           /\ IsFile([f EXCEPT !.data = x, !.synced = y])
<1>1. PICK t, d, s : t \in BOOLEAN /\ f = [there |-> t, data |-> d, synced |-> s]
  BY DEF IsFile
<1>2. /\ [f EXCEPT !.synced = x] = [there |-> t, data |-> d, synced |-> x]
      /\ [f EXCEPT !.data = x] = [there |-> t, data |-> x, synced |-> s]
  BY <1>1, FileUpdates
<1>3. [f EXCEPT !.data = x, !.synced = y] = [[f EXCEPT !.data = x] EXCEPT !.synced = y]
  BY <1>1
<1>4. [[f EXCEPT !.data = x] EXCEPT !.synced = y]
          = [there |-> t, data |-> x, synced |-> y]
  <2> DEFINE g == [f EXCEPT !.data = x]
  <2>1. g = [there |-> t, data |-> x, synced |-> s]
    BY <1>2
  <2> HIDE DEF g
  <2>2. [g EXCEPT !.synced = y] = [there |-> t, data |-> x, synced |-> y]
    BY <2>1
  <2> QED
    BY <2>2 DEF g
<1> QED
  BY <1>2, <1>3, <1>4 DEF IsFile

\* A part that verifies is, once synced, the pinned file.
LEMMA VerifiedIsPinned ==
    ASSUME NEW f, IsFile(f), Verifies(f)
    PROVE  Synced(f) = PinnedFile
<1> DEFINE whole == Size(f)
<1>1. PICK t, d, s : t \in BOOLEAN /\ f = [there |-> t, data |-> d, synced |-> s]
  BY DEF IsFile
<1>2. t = TRUE /\ d = Content[Pinned] /\ whole = Len(Content[Pinned])
  <2>1. t /\ d = Content[Pinned] /\ f.data = d
    BY <1>1 DEF Verifies
  <2> QED
    BY <2>1 DEF Size
<1> HIDE DEF whole
<1>3. [f EXCEPT !.synced = whole] = [there |-> t, data |-> d, synced |-> whole]
  BY <1>1
<1> QED
  BY <1>2, <1>3 DEF whole, Synced, PinnedFile, FileOf

\* A file that is wholly on disk survives a power cut as it is.
LEMMA WholeSurvives ==
    ASSUME NEW S, NEW data \in Seq(S), NEW there,
           NEW f \in PowerCut([there |-> there, data |-> data, synced |-> Len(data)])
    PROVE  f = [there |-> there, data |-> data, synced |-> Len(data)]
<1> DEFINE whole == [there |-> there, data |-> data, synced |-> Len(data)]
<1>1. PICK n \in whole.synced .. Size(whole) :
        f = [whole EXCEPT !.data = SubSeq(whole.data, 1, n), !.synced = n]
  BY DEF PowerCut
<1>2. n = Len(data)
  BY <1>1 DEF Size
<1>3. SubSeq(data, 1, Len(data)) = data
  OBVIOUS
<1> QED
  BY <1>1, <1>2, <1>3

\* No power cut changes what is published.
LEMMA DestSurvives ==
    ASSUME DestIsKnown, dest' \in PowerCut(dest)
    PROVE  dest' = dest
<1>1. Content[Pinned] \in Seq({Content[Pinned][i] : i \in DOMAIN Content[Pinned]})
  OBVIOUS
<1>2. <<>> \in Seq({Junk}) /\ <<Junk>> \in Seq({Junk}) /\ Len(<<>>) = 0
  OBVIOUS
<1>3. CASE dest = NoFile
  BY <1>2, <1>3, WholeSurvives DEF NoFile
<1>4. ASSUME NEW S, NEW data \in Seq(S), dest = FileOf(data)
      PROVE  dest' = dest
  <2>1. dest = [there |-> TRUE, data |-> data, synced |-> Len(data)]
    BY <1>4 DEF FileOf
  <2> QED
    BY <2>1, WholeSurvives
<1> QED
  BY <1>1, <1>2, <1>3, <1>4 DEF DestIsKnown, Stub, Broken, PinnedFile

\* A published file whose hash is right is the pinned one.
LEMMA CheckedIsPinned ==
    ASSUME DestIsKnown, Verifies(dest)
    PROVE  dest = PinnedFile
<1>1. dest # NoFile
  BY DEF Verifies, NoFile
<1>2. ASSUME NEW data, dest = FileOf(data)
      PROVE  dest = PinnedFile
  <2>1. data = Content[Pinned]
    BY <1>2 DEF FileOf, Verifies
  <2> QED
    BY <1>2, <2>1 DEF PinnedFile
<1> QED
  BY <1>1, <1>2 DEF DestIsKnown, Stub, Broken

----------------------------------------------------------------------------
(* Steps. *)

\* The promotion of a verified part keeps the invariant.
LEMMA PromoteKeeps ==
    ASSUME Inductive, Verifies(part), Promote, UNCHANGED wired
    PROVE  Inductive'
<1>1. CASE Publishes(part) /\ part' = NoFile
  <2>1. dest' = PinnedFile
    BY <1>1, VerifiedIsPinned DEF Inductive, Publishes
  <2>2. IsFile(part')
    BY <1>1 DEF IsFile, NoFile
  <2> QED
    BY <2>1, <2>2 DEF Inductive, DestIsKnown, DoneIsPinned, PinnedFile, NoFile, Stub, Broken
<1>2. CASE part' = Synced(part) /\ UNCHANGED dest /\ Ends("failed")
  BY <1>2, StaysFile DEF Inductive, Synced, Ends, DestIsKnown, DoneIsPinned
<1> QED
  BY <1>1, <1>2 DEF Promote

\* The hash of the part decides between publishing it and a failure.
LEMMA VerdictKeeps ==
    ASSUME Inductive, VerifyAndPromote, UNCHANGED wired
    PROVE  Inductive'
<1>1. CASE Verifies(part)
  BY <1>1, PromoteKeeps DEF VerifyAndPromote
<1>2. CASE ~Verifies(part)
  <2>1. UNCHANGED dest /\ state' = "failed" /\ part' \in {NoFile, Synced(part)}
    BY <1>2 DEF VerifyAndPromote, Mismatch, DropMismatch, Ends
  <2>2. IsFile(part')
    BY <2>1, StaysFile DEF Inductive, Synced, IsFile, NoFile
  <2> QED
    BY <2>1, <2>2 DEF Inductive, DestIsKnown, DoneIsPinned
<1> QED
  BY <1>1, <1>2

\* A step that leaves what is published alone and does not call a download done.
LEMMA Elsewhere ==
    ASSUME Inductive, UNCHANGED <<dest, wired>>, IsFile(part'),
           state' = state \/ state' # "done"
    PROVE  Inductive'
BY DEF Inductive, DestIsKnown, DoneIsPinned

\* The worker keeps the invariant.
LEMMA WorkerKeeps ==
    ASSUME Inductive, Worker
    PROVE  Inductive'
<1> USE DEF loop, files, Ends, TooLarge, RemoveTerminal, Mismatch
<1>1. IsFile(part) /\ IsFile(NoFile) /\ IsFile(FileOf(<<>>)) /\ IsFile(Synced(part))
  BY StaysFile DEF Inductive, IsFile, NoFile, FileOf, Synced
<1>2. CASE TakeRequest \/ AskFails \/ AskUnvalidated \/ ReadBreaks \/ AskResumed \/ AskWhole
  BY <1>1, <1>2, Elsewhere
     DEF TakeRequest, AskFails, AskUnvalidated, ReadBreaks, AskResumed, AskWhole
<1>3. CASE CheckDest
  <2>1. UNCHANGED <<part, dest, wired>>
    BY <1>3 DEF CheckDest
  <2>2. CASE Verifies(dest)
    BY <2>1, <2>2, CheckedIsPinned DEF Inductive, DestIsKnown, DoneIsPinned
  <2>3. CASE ~Verifies(dest)
    BY <1>1, <1>3, <2>1, <2>3, Elsewhere DEF CheckDest
  <2> QED
    BY <2>2, <2>3
<1>4. CASE AskNothing
  BY <1>1, <1>4, Elsewhere, VerdictKeeps DEF AskNothing
<1>5. CASE AskRefused
  BY <1>1, <1>5, Elsewhere, PromoteKeeps DEF AskRefused, Refused, RestartFromZero
<1>6. CASE ReadUnit
  <2>1. IsFile([part EXCEPT !.data = Append(@, Unit)])
    BY <1>1, StaysFile
  <2> QED
    BY <1>1, <1>6, <2>1, Elsewhere DEF ReadUnit
<1>7. CASE ReadEnds
  BY <1>1, <1>7, Elsewhere, VerdictKeeps DEF ReadEnds
<1> QED
  BY <1>2, <1>3, <1>4, <1>5, <1>6, <1>7 DEF Worker

\* So does every step.
LEMMA NextKeeps ==
    ASSUME Inductive, [Next]_vars
    PROVE  Inductive'
<1> USE DEF loop, files
<1>1. IsFile(part)
  BY DEF Inductive
<1>2. CASE Click \/ ConsumeClick \/ ServerReplaces \/ Crash \/ Restart \/ UNCHANGED vars
  BY <1>1, <1>2, Elsewhere DEF Click, ConsumeClick, ServerReplaces, Crash, Restart, vars
<1>3. CASE Report
  <2>1. UNCHANGED <<part, dest, state>>
    BY <1>3 DEF Report
  <2>2. wired' => wired \/ state = "done"
    BY <1>3, Zenon DEF Report
  <2> QED
    BY <2>1, <2>2 DEF Inductive, DestIsKnown, DoneIsPinned
<1>4. CASE LosePower
  <2>1. dest' = dest /\ UNCHANGED <<state, wired>>
    BY <1>4, DestSurvives DEF LosePower, Inductive
  <2>2. PICK n : part' = [part EXCEPT !.data = SubSeq(part.data, 1, n), !.synced = n]
    BY <1>4 DEF LosePower, PowerCut
  <2>3. IsFile(part')
    BY <1>1, <2>2, StaysFile
  <2> QED
    BY <2>1, <2>3, Elsewhere
<1> QED
  BY <1>2, <1>3, <1>4, WorkerKeeps DEF Next

----------------------------------------------------------------------------

\* The invariant is one.
LEMMA Invariance == Spec => []Inductive
<1>1. ASSUME Init PROVE Inductive
  <2>1. IsFile(NoFile) /\ IsFile(FileOf(Leftover))
    BY DEF IsFile, NoFile, FileOf
  <2> QED
    BY <1>1, <2>1 DEF Init, Inductive, DestIsKnown, DoneIsPinned
<1> QED
  BY <1>1, NextKeeps, PTL DEF Spec

\* Whatever the server sends and wherever a crash or a power cut falls, only the
\* pinned file is published, and only it is given to the next launch.
THEOREM OnlyPinnedIsPublished == Spec => []PublishedIsPinned
<1>1. Inductive => PublishedIsPinned
  BY DEF Inductive, DestIsKnown, DoneIsPinned, PublishedIsPinned, PinnedFile
<1> QED
  BY <1>1, Invariance, PTL

\* A download is never reported finished unless the pinned file is in place.
THEOREM DoneMeansPublished == Spec => [](state = "done" => dest = PinnedFile)
<1>1. Inductive => (state = "done" => dest = PinnedFile)
  BY DEF Inductive, DoneIsPinned
<1> QED
  BY <1>1, Invariance, PTL

=============================================================================
