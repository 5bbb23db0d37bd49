----------------------------- MODULE ModelDownload -----------------------------
(***************************************************************************)
(* The download of a model (model_fetch/src/lib.rs) as the run loop drives  *)
(* it (model_download_phase, app/src/run_loop.rs): one worker thread, one   *)
(* queued request, a ".part" file that survives failures, crashes and power *)
(* cuts and is the base of the next attempt, and a pinned hash that stands  *)
(* between the part and the published file.                                 *)
(*                                                                         *)
(* The server is not trusted: it may change its file between two requests,  *)
(* ignore or misquote ranges, cut a body short or send too much.  A file is *)
(* a sequence of units; a hash is equal when the sequences are.             *)
(***************************************************************************)
EXTENDS Naturals, Sequences

CONSTANTS Versions,   \* files the server may serve under the model's address
          Content,    \* the units of each version
          Pinned,     \* the version whose hash the catalog pins
          Junk,       \* a unit of no version
          Ceilings,   \* size ceilings the catalog may give the model
          Leftover,   \* what an earlier release may have left in the part
          MaxChanges, \* bound: times the server replaces its file
          MaxCrashes, \* bound: crashes and power cuts
          MaxFaults   \* bound: failing calls and misbehaving responses

ASSUME DownloadAssumption ==
  /\ Pinned \in Versions
  /\ \A v \in Versions : /\ Content[v] \in Seq({Content[v][i] : i \in DOMAIN Content[v]})
                          /\ Len(Content[v]) > 0
  /\ \A m \in Ceilings : Len(Content[Pinned]) <= m

VARIABLES
  ceiling,  \* max_bytes of the catalog entry
  served,   \* the version the server serves
  part,     \* the ".part" file
  dest,     \* the published file
  up,       \* the program runs
  pending,  \* setup_download_model: a click the loop has not consumed
  queue,    \* the worker's channel holds a request
  state,    \* DownloadState of the tracked request, "none" before the first
  logged,   \* the log cursor: 0, 1 running, 2 terminal
  wired,    \* COMPME_MODEL_PATH names the published file
  at,       \* where the worker is
  body,     \* the response being read: version, position, length it announced
  changes, crashes, faults

vars == <<ceiling, served, part, dest, up, pending, queue, state, logged, wired, at, body,
          changes, crashes, faults>>

files == <<part, dest>>
loop == <<pending, logged, wired>>
budgets == <<ceiling, changes, crashes>>

NoFile == [there |-> FALSE, data |-> <<>>, synced |-> 0]
FileOf(data) == [there |-> TRUE, data |-> data, synced |-> Len(data)]
NoBody == [version |-> Pinned, pos |-> 0, expect |-> 0]
Size(file) == Len(file.data)

\* A check of the pinned hash.
Verifies(file) == file.there /\ file.data = Content[Pinned]

Fault == faults < MaxFaults /\ faults' = faults + 1
NoFault == UNCHANGED faults

-----------------------------------------------------------------------------
(* The run loop *)

Click ==
  /\ up /\ ~pending /\ pending' = TRUE
  /\ UNCHANGED <<served, part, dest, up, queue, state, logged, wired, at, body,
                 faults>>
  /\ UNCHANGED budgets

\* Whether a new download may start: none ran, or the last one ended.
DownloadIdle == state \in {"none", "done", "failed"}

\* The loop consumes a click.  With the downloader idle and the gates open
\* (memory, license, directory, worker) it queues a request and tracks its
\* status; otherwise the click is lost.
ConsumeClick ==
  /\ up /\ pending /\ pending' = FALSE
  /\ \/ /\ DownloadIdle /\ ~queue
        /\ queue' = TRUE /\ state' = "idle" /\ logged' = 0
        /\ NoFault
     \/ /\ ~DownloadIdle \/ queue
        /\ NoFault /\ UNCHANGED <<queue, state, logged>>
     \/ /\ DownloadIdle /\ Fault /\ UNCHANGED <<queue, state, logged>>
  /\ UNCHANGED <<served, up, wired, at, body>> /\ UNCHANGED files /\ UNCHANGED budgets

\* The loop logs each transition of the tracked status once, and saves the path
\* of a finished download for the next launch; a failed save only logs.
Report ==
  /\ up
  /\ \/ /\ state = "running" /\ logged = 0 /\ logged' = 1
        /\ NoFault /\ UNCHANGED wired
     \/ /\ state \in {"done", "failed"} /\ logged < 2 /\ logged' = 2
        /\ \/ /\ wired' = (wired \/ state = "done") /\ NoFault
           \/ /\ state = "done" /\ Fault /\ UNCHANGED wired
  /\ UNCHANGED <<served, up, pending, queue, state, at, body>>
  /\ UNCHANGED files /\ UNCHANGED budgets

-----------------------------------------------------------------------------
(* The worker *)

\* Mutant: a failed item leaves its status running.
EndsQuietly(result) ==
  /\ state' = IF result = "failed" THEN state ELSE result
  /\ at' = "waiting" /\ body' = NoBody

\* The worker publishes the outcome and waits for the next request.
Ends(result) == state' = result /\ at' = "waiting" /\ body' = NoBody

TakeRequest ==
  /\ up /\ at = "waiting" /\ queue
  /\ queue' = FALSE /\ state' = "running" /\ at' = "checking"
  /\ UNCHANGED <<served, up, body, faults>>
  /\ UNCHANGED files /\ UNCHANGED loop /\ UNCHANGED budgets

\* dest_already_present: a file that carries the pinned hash is not fetched.
CheckDest ==
  /\ up /\ at = "checking"
  /\ \/ Verifies(dest) /\ Ends("done") /\ NoFault
     \/ ~Verifies(dest) /\ at' = "asking" /\ UNCHANGED <<state, body>> /\ NoFault
     \/ Size(dest) > 0 /\ Fault /\ Ends("failed")
  /\ UNCHANGED <<served, up, queue>>
  /\ UNCHANGED files /\ UNCHANGED loop /\ UNCHANGED budgets

Synced(file) == [file EXCEPT !.synced = Size(file)]

\* Mutant: the data of the part is renamed before it is on disk.
RenamesUnsynced(file) == dest' = file

\* The verified part becomes the published file.
Publishes(file) == dest' = Synced(file)

\* The rename of a verified part; when it fails the part stays.
Promote ==
  \/ Publishes(part) /\ part' = NoFile /\ Ends("done") /\ NoFault
  \/ Fault /\ part' = Synced(part) /\ UNCHANGED dest /\ Ends("failed")

\* Mutant: a part whose hash is wrong is kept for the next attempt.
KeepsTheCorrupt == part' = Synced(part) /\ NoFault

\* Best-effort removal after a terminal failure.
RemoveTerminal == \/ part' = NoFile /\ NoFault
                  \/ Fault /\ UNCHANGED part

\* The answer to a part of the wrong hash.
DropMismatch == \/ part' = NoFile /\ NoFault
                \/ Fault /\ part' = Synced(part)

Mismatch == DropMismatch /\ UNCHANGED dest /\ Ends("failed")

VerifyAndPromote == IF Verifies(part) THEN Promote ELSE Mismatch

TooLarge == RemoveTerminal /\ UNCHANGED dest /\ Ends("failed")

\* A part above the ceiling is removed; one of exactly the ceiling's size is
\* complete, or wrong.
AskNothing ==
  /\ up /\ at = "asking"
  /\ \/ Size(part) > ceiling /\ TooLarge
     \/ part.there /\ Size(part) = ceiling /\ VerifyAndPromote
  /\ UNCHANGED <<served, up, queue>> /\ UNCHANGED loop /\ UNCHANGED budgets

Asks == up /\ at = "asking" /\ Size(part) < ceiling
Resumes == Asks /\ Size(part) > 0
Offered == Len(Content[served])

\* No usable answer: no connection, an error status, a range that is not the
\* tail asked for, a length that contradicts it.  The part stays.
AskFails ==
  /\ Asks /\ Fault /\ Ends("failed")
  /\ UNCHANGED <<served, up, queue>>
  /\ UNCHANGED files /\ UNCHANGED loop /\ UNCHANGED budgets

\* The removal that must succeed before the request is repeated from zero.
RestartFromZero ==
  \/ /\ part' = NoFile /\ UNCHANGED <<dest, state, at, body>> /\ NoFault
  \/ /\ Fault /\ UNCHANGED files /\ Ends("failed")

\* 416: the part is as long as the server's file, or longer.
Refused == IF Verifies(part) THEN Promote ELSE RestartFromZero

AskRefused ==
  /\ Resumes /\ Size(part) >= Offered
  /\ Refused
  /\ UNCHANGED <<served, up, queue>> /\ UNCHANGED loop /\ UNCHANGED budgets

\* A 206 without the range asked for: what it carries is unknown.
AskUnvalidated ==
  /\ Resumes
  /\ faults < MaxFaults /\ faults' = faults + 1
  /\ part' = NoFile
  /\ UNCHANGED <<served, up, queue, dest, state, at, body>>
  /\ UNCHANGED loop /\ UNCHANGED budgets

\* A 206 from our offset to the end.
AskResumed ==
  /\ Resumes /\ Size(part) < Offered
  /\ IF Offered > ceiling
     THEN TooLarge
     ELSE /\ at' = "reading"
          /\ body' = [version |-> served, pos |-> Size(part), expect |-> Offered]
          /\ UNCHANGED <<part, dest, state>> /\ NoFault
  /\ UNCHANGED <<served, up, queue>> /\ UNCHANGED loop /\ UNCHANGED budgets

\* A 200: the server ignored the range, or none was sent.  With a declared
\* length above the ceiling nothing is written.
AskWhole ==
  /\ Asks
  /\ \/ Offered > ceiling /\ TooLarge
     \/ /\ part' = FileOf(<<>>)
        /\ at' = "reading"
        /\ body' = [version |-> served, pos |-> 0, expect |-> 0]
        /\ UNCHANGED <<dest, state>> /\ NoFault
  /\ UNCHANGED <<served, up, queue>> /\ UNCHANGED loop /\ UNCHANGED budgets

Sent == Content[body.version]
Unit == IF body.pos < Len(Sent) THEN Sent[body.pos + 1] ELSE Junk

\* The size after the next unit, against the ceiling.
Fits == Size(part) + 1 <= ceiling

Announced == body.expect = 0 \/ Size(part) + 1 <= body.expect

\* One unit of the body; a unit beyond the file is the server's fault.
ReadUnit ==
  /\ up /\ at = "reading"
  /\ body.pos < Len(Sent) \/ faults < MaxFaults
  /\ LET extra == body.pos >= Len(Sent)
         count == IF extra THEN faults + 1 ELSE faults
     IN  \/ /\ ~Fits
            /\ part' = NoFile /\ Ends("failed") /\ faults' = count
         \/ /\ Fits /\ ~Announced
            /\ Ends("failed") /\ faults' = count /\ UNCHANGED part
         \/ /\ Fits /\ Announced
            /\ part' = [part EXCEPT !.data = Append(@, Unit)]
            /\ body' = [body EXCEPT !.pos = @ + 1]
            /\ faults' = count /\ UNCHANGED <<state, at>>
  /\ UNCHANGED <<served, up, queue, dest>> /\ UNCHANGED loop /\ UNCHANGED budgets

\* The connection breaks or the disk refuses a write: the part stays.
ReadBreaks ==
  /\ up /\ at = "reading" /\ Fault /\ Ends("failed")
  /\ UNCHANGED <<served, up, queue>>
  /\ UNCHANGED files /\ UNCHANGED loop /\ UNCHANGED budgets

\* The body ends and the part is synced.  After the last unit the hash decides;
\* one that ends early fails it, or is not as long as the range it announced.
ReadEnds ==
  /\ up /\ at = "reading"
  /\ \/ body.pos >= Len(Sent) /\ VerifyAndPromote
     \/ /\ body.pos < Len(Sent) /\ Fault
        /\ part' = IF body.expect = 0 THEN NoFile ELSE Synced(part)
        /\ UNCHANGED dest /\ Ends("failed")
  /\ UNCHANGED <<served, up, queue>> /\ UNCHANGED loop /\ UNCHANGED budgets

Worker == \/ TakeRequest \/ CheckDest \/ AskNothing \/ AskRefused \/ AskResumed
          \/ AskWhole \/ AskFails \/ AskUnvalidated
          \/ ReadUnit \/ ReadBreaks \/ ReadEnds

-----------------------------------------------------------------------------
(* The world *)

ServerReplaces ==
  /\ changes < MaxChanges /\ changes' = changes + 1
  /\ \E v \in Versions \ {served} : served' = v
  /\ UNCHANGED <<ceiling, up, queue, state, at, body, crashes, faults>>
  /\ UNCHANGED files /\ UNCHANGED loop

\* The program ends, in the middle of anything.
Crash ==
  /\ up /\ crashes < MaxCrashes /\ crashes' = crashes + 1
  /\ up' = FALSE /\ pending' = FALSE /\ queue' = FALSE
  /\ state' = "none" /\ logged' = 0 /\ at' = "waiting" /\ body' = NoBody
  /\ UNCHANGED <<ceiling, served, part, dest, wired, changes, faults>>

\* A power cut loses a suffix of what was not synced.
PowerCut(file) ==
  {[file EXCEPT !.data = SubSeq(@, 1, n), !.synced = n] : n \in file.synced .. Size(file)}

LosePower ==
  /\ ~up /\ part' \in PowerCut(part) /\ dest' \in PowerCut(dest)
  /\ <<part', dest'>> # <<part, dest>>
  /\ UNCHANGED <<served, up, queue, state, at, body, faults>>
  /\ UNCHANGED loop /\ UNCHANGED budgets

Restart ==
  /\ ~up /\ up' = TRUE
  /\ UNCHANGED <<served, queue, state, at, body, faults>>
  /\ UNCHANGED files /\ UNCHANGED loop /\ UNCHANGED budgets

Stub == FileOf(<<>>)
Broken == FileOf(<<Junk>>)

Init ==
  /\ served \in Versions
  /\ ceiling \in Ceilings
  /\ part \in {NoFile, FileOf(Leftover)}
  /\ dest \in {NoFile, Stub, Broken}
  /\ up = TRUE /\ pending = FALSE /\ queue = FALSE
  /\ state = "none" /\ logged = 0 /\ wired = FALSE
  /\ at = "waiting" /\ body = NoBody
  /\ changes = 0 /\ crashes = 0 /\ faults = 0

Next == \/ Click \/ ConsumeClick \/ Report \/ Worker
        \/ ServerReplaces \/ Crash \/ LosePower \/ Restart

\* The loop's heartbeat and the worker thread run; timeouts end every stalled
\* read, so the worker always has a next step.  Nothing forces a user to click
\* or a server to answer well.
Fairness == WF_vars(ConsumeClick) /\ WF_vars(Report) /\ WF_vars(Worker) /\ WF_vars(Restart)

Spec == Init /\ [][Next]_vars /\ Fairness

-----------------------------------------------------------------------------
(* Properties *)

\* Whatever the server sent, and wherever a crash or a power cut fell, the
\* published file is the one the catalog pins, or what was there before, and the
\* next launch is only ever pointed at the pinned one (model_fetch 433-459).
PublishedIsPinned ==
  /\ dest \in {NoFile, Stub, Broken} \/ dest = FileOf(Content[Pinned])
  /\ wired => dest = FileOf(Content[Pinned])


\* A tracked request always reaches a terminal state, so the next click is
\* never refused for good (run_loop.rs 947-953, model_fetch 588-590).
TrackedEnds == (state \in {"idle", "running"}) ~> (state \notin {"idle", "running"})

\* "Done/Failed log exactly once - they are the only user-visible signal of where
\* the model landed" (run_loop.rs 1024): an outcome is not replaced unreported.
OutcomeIsLogged ==
  [][up' /\ state \in {"done", "failed"} /\ state' # state => logged = 2]_vars

\* Once the server serves the pinned file, a user who keeps asking gets it,
\* whatever the earlier attempts left in the part.
RetriesSucceed ==
  (<>[](served = Pinned) /\ []<>pending) => <>(dest = FileOf(Content[Pinned]))
=============================================================================
