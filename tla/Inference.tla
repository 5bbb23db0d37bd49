------------------------------ MODULE Inference ------------------------------
(***************************************************************************)
(* The inference worker of app/inference.rs and the host's side of it: a   *)
(* channel of requests of which only the newest is worth an answer, a wait *)
(* for the screen text of that very request, a clipboard cell refreshed    *)
(* before each completion is sent, model calls that may fail, panic, be    *)
(* cancelled or never return, and a shutdown that waits only so long for   *)
(* the worker to tear its model down.                                      *)
(*                                                                         *)
(* Requests are numbered in the order they are submitted.  The number of a *)
(* completion stands for its field, generation and snapshot, which no two  *)
(* completions share; a grammar fix is made for the generation there is,   *)
(* so it has a number here but no stamp that the worker would look at.     *)
(***************************************************************************)
EXTENDS ScreenOcr, Sequences

VARIABLES
    at,         \* where the worker thread is
    channel,    \* requests sent and not received
    request,    \* what the worker is on, or None
    text,       \* the screen text in its prompt, or None
    clip,       \* the clipboard text in its prompt: the request it was read for
    ready,      \* the ready flag
    health,     \* WorkerHealth
    model,      \* "loaded" or "down"
    host,       \* where the host is
    submitted,  \* history: the number of the last request made
    clipboard,  \* the clipboard cell: the request it was read for, or None
    stopping,   \* the stopping flag
    cancelled,  \* the model's cancellation was requested
    answered    \* history: the number of the last request answered

prompt == <<request, text, clip>>
signals == <<ready, health>>
workVars == <<prompt, signals, at, channel, model, answered>>
hostVars == <<host, submitted, clipboard, stopping, cancelled>>
vars == <<ocrVars, workVars, hostVars>>

Kinds == {"Completion", "GrammarFix"}
Request == [stamp : Stamps, kind : Kinds]

ASSUME RequestAssumption == None \notin Request

Places == {"warming", "idle", "coalescing", "screen", "screened", "prompting",
           "generating", "panicked", "leaving", "stopped", "gone"}

Open == host \in Kinds \cup {"running", "stop"}

\* The worker owns the receiver until its loop ends.
Receiving == at \notin {"panicked", "leaving", "stopped", "gone"}

----------------------------------------------------------------------------
(* The host. *)

\* The clipboard is read afresh; it may be empty, or the context off.
Clipboard(stamp) == stamp

\* submit_request_with_auxiliary_context up to the send; a manual grammar
\* request is sent without auxiliaries.
Prepare(kind) ==
    /\ host = "running" /\ edge = None /\ submitted + 1 \in Stamps
    /\ host' = kind /\ submitted' = submitted + 1
    /\ IF kind = "Completion"
       THEN /\ clipboard' \in {Clipboard(submitted + 1), None}
            /\ RequestScreen(submitted + 1)
       ELSE UNCHANGED <<ocrVars, clipboard>>
    /\ UNCHANGED <<workVars, stopping, cancelled>>

Stamp == submitted

\* submit: a worker that is gone refuses, and the request is lost.
Send ==
    /\ host \in Kinds /\ host' = "running"
    /\ channel' = IF Receiving /\ health # "Failed"
                  THEN Append(channel, [stamp |-> Stamp, kind |-> host]) ELSE channel
    /\ UNCHANGED <<ocrVars, prompt, signals, at, model, answered, submitted,
                   clipboard, stopping, cancelled>>

\* shutdown_with_timeout, statement by statement.
Stop ==
    /\ host = "running" /\ edge = None
    /\ host' = "stop" /\ stopping' = TRUE
    /\ UNCHANGED <<ocrVars, workVars, submitted, clipboard, cancelled>>

CloseRequests ==
    /\ host = "stop" /\ host' = "closed"
    /\ UNCHANGED <<ocrVars, workVars, submitted, clipboard, stopping, cancelled>>

Cancel ==
    /\ host = "closed" /\ host' = "waiting"
    /\ cancelled' = TRUE
    /\ UNCHANGED <<ocrVars, workVars, submitted, clipboard, stopping>>

\* The acknowledgement follows the teardown, the end of the thread follows both.
Finished == at = "gone"

\* The wait may run out at any moment before the thread has ended.
Ending == IF Finished THEN {"clean"} ELSE {"timed out"}

ShutDown ==
    /\ host = "waiting" /\ host' \in Ending
    /\ UNCHANGED <<ocrVars, workVars, submitted, clipboard, stopping, cancelled>>

----------------------------------------------------------------------------
(* The worker. *)

\* A warm-up that fails degrades the worker, which serves all the same; a
\* warm-up cut short by the shutdown leaves its health alone.
WarmedUp ==
    /\ at = "warming"
    /\ health' \in {health, "Degraded"}
    /\ IF stopping THEN at' = "leaving" /\ ready' = ready
                   ELSE at' = "idle" /\ ready' = TRUE
    /\ UNCHANGED <<ocrVars, hostVars, prompt, channel, model, answered>>

\* recv_latest: the first request, or the end of the channel.
Receive ==
    /\ at = "idle"
    /\ \/ /\ channel # <<>>
          /\ request' = Head(channel) /\ channel' = Tail(channel)
          /\ at' = "coalescing"
       \/ /\ channel = <<>> /\ ~Open
          /\ at' = "leaving"
          /\ UNCHANGED <<request, channel>>
    /\ UNCHANGED <<ocrVars, hostVars, signals, text, clip, model, answered>>

\* Mutant: any text in the cell will do.
Latest(r) == cell

\* matching_screen_text_now: the text read for this very request.
Matching(r) == IF cell # None /\ cell.stamp = r.stamp THEN cell ELSE None

\* The request's way into wait_for_screen_or_newer: some do not wait.
Enter(r) ==
    IF r.kind = "Completion" /\ waits
    THEN at' = "screen" /\ text' = text
    ELSE /\ at' = "screened"
         /\ text' = IF r.kind = "Completion" THEN Matching(r) ELSE None

\* Mutant: a newer request is received and thrown away.
Older(r) == request

Newer(r) == r

\* Mutant: a request that is replaced goes back to the end of the channel.
PutBack(q) == Append(Tail(q), request)

Rest(q) == Tail(q)

\* try_recv and recv_timeout: a newer request replaces the one in hand.
Replace ==
    /\ at \in {"coalescing", "screen"} /\ channel # <<>>
    /\ LET r == Newer(Head(channel)) IN
        /\ request' = r
        /\ channel' = Rest(channel)
        /\ IF at = "screen" THEN Enter(r) ELSE UNCHANGED <<at, text>>
    /\ UNCHANGED <<ocrVars, hostVars, signals, clip, model, answered>>

\* Nothing newer for now.
Coalesced ==
    /\ at = "coalescing" /\ channel = <<>>
    /\ Enter(request)
    /\ UNCHANGED <<ocrVars, hostVars, signals, request, clip, channel, model, answered>>

\* The text has come; or the deadline or the end of the channel.
Screened ==
    /\ at = "screen" /\ at' = "screened"
    /\ text' \in {Matching(request), None}
    /\ UNCHANGED <<ocrVars, hostVars, signals, request, clip, channel, model, answered>>

CheckStopping ==
    /\ at = "screened"
    /\ at' = IF stopping THEN "leaving" ELSE "prompting"
    /\ UNCHANGED <<ocrVars, hostVars, signals, prompt, channel, model, answered>>

\* The prompt of a completion takes the clipboard as it is now.
StartModel ==
    /\ at = "prompting" /\ at' = "generating"
    /\ clip' = IF request.kind = "Completion" THEN clipboard ELSE None
    /\ UNCHANGED <<ocrVars, hostVars, signals, request, text, channel, model, answered>>

\* What the loop does after a model call: the next turn, or its end.
CallEnds(place) ==
    /\ at = "generating" /\ at' = place
    /\ request' = None /\ text' = None /\ clip' = None
    /\ UNCHANGED <<ocrVars, hostVars, signals, channel, model>>

Answer == CallEnds("idle") /\ answered' = request.stamp

\* An inference error has no outcome.
ModelFails == CallEnds("idle") /\ UNCHANGED answered

ShutdownRequested == cancelled /\ CallEnds("leaving") /\ UNCHANGED answered

Panic ==
    /\ at \in {"warming", "generating"}
    /\ at' = "panicked"
    /\ UNCHANGED <<ocrVars, hostVars, prompt, signals, channel, model, answered>>

CatchUnwind ==
    /\ at = "panicked" /\ at' = "leaving"
    /\ ready' = FALSE /\ health' = "Failed"
    /\ UNCHANGED <<ocrVars, hostVars, prompt, channel, model, answered>>

TearDown ==
    /\ at = "leaving" /\ at' = "stopped"
    /\ model' = "down"
    /\ UNCHANGED <<ocrVars, hostVars, prompt, signals, channel, answered>>

Exit ==
    /\ at = "stopped" /\ at' = "gone"
    /\ UNCHANGED <<ocrVars, hostVars, prompt, signals, channel, model, answered>>

----------------------------------------------------------------------------

Init ==
    /\ OcrInit
    /\ at = "warming" /\ channel = <<>>
    /\ request = None /\ text = None /\ clip = None
    /\ ready = FALSE /\ health = "Running" /\ model = "loaded"
    /\ submitted = 0 /\ answered = 0 /\ clipboard = None
    /\ stopping = FALSE /\ cancelled = FALSE /\ host = "running"

HostTurn == (\E kind \in Kinds : Prepare(kind)) \/ Send
Shutdown == CloseRequests \/ Cancel \/ ShutDown

ModelReturns == WarmedUp \/ Answer \/ ModelFails \/ ShutdownRequested \/ Panic

Works ==
    \/ Receive \/ Replace \/ Coalesced \/ Screened \/ CheckStopping \/ StartModel
    \/ CatchUnwind \/ TearDown \/ Exit

Next ==
    \/ HostTurn \/ Stop \/ Shutdown
    \/ Works \/ ModelReturns
    \/ host = "running" /\ OcrEdge /\ UNCHANGED <<workVars, hostVars>>
    \/ OcrWork /\ UNCHANGED <<workVars, hostVars>>

Spec == Init /\ [][Next]_vars

\* The two threads run and the shutdown's timer fires.  A model call need not
\* return: the timeout of the shutdown is there for one that does not.
FairSpec ==
    /\ Spec
    /\ WF_vars(Works) /\ WF_vars(Send) /\ WF_vars(Shutdown)

----------------------------------------------------------------------------
(* Properties. *)

\* The variables of the worker and of the host's side of it.
TypeOK ==
    /\ OcrTypeOK
    /\ at \in Places /\ channel \in Seq(Request)
    /\ request \in Request \cup {None} /\ text \in Text \cup {None}
    /\ clip \in Stamps \cup {None} /\ clipboard \in Stamps \cup {None}
    /\ ready \in BOOLEAN /\ health \in {"Running", "Degraded", "Failed"}
    /\ model \in {"loaded", "down"}
    /\ submitted \in Nat /\ answered \in Nat
    /\ stopping \in BOOLEAN /\ cancelled \in BOOLEAN
    /\ host \in Kinds \cup {"running", "stop", "closed", "waiting", "clean", "timed out"}

\* The prompt is built from what belongs to its request, although the cells are
\* filled by other threads for whichever request is newest: the screen text was
\* read for this very completion (matching_screen_text_now), and the clipboard
\* for it or a newer one, never for one before it (the comment in run_loop.rs
\* above submit_request_with_auxiliary_context).
PromptIsItsOwn ==
    at = "generating" =>
        /\ text # None => request.kind = "Completion" /\ text.stamp = request.stamp
        /\ clip # None => clip >= request.stamp

\* Answers come in the order of the requests and at most one to each, however
\* requests replace each other in the channel and during the wait.
AnswersInOrder == [][Answer => request.stamp > answered]_vars

\* A shutdown that reports a clean end has seen the model torn down and the
\* thread gone (InferenceShutdown); every other end is reported as a timeout.
CleanMeansTornDown == host = "clean" => model = "down" /\ at = "gone"

ModelReturnsAlways == []<>(at \notin {"warming", "generating"})

\* When no model call hangs, the newest of the requests sent is worked on in the
\* end, unless a newer one comes, the host shuts down or the worker has gone.
NewestIsServed ==
    ModelReturnsAlways =>
        \A n \in Stamps :
            (submitted = n /\ \E i \in DOMAIN channel : channel[i].stamp = n) ~>
                \/ submitted > n \/ stopping \/ ~Receiving
                \/ at = "generating" /\ request.stamp = n

\* A shutdown ends whatever the worker is doing, in a model call that never
\* returns too.
ShutdownEnds == host = "stop" ~> host \in {"clean", "timed out"}

\* The worker serves the newest request, and a shutdown ends it and tells the
\* truth about the end.
ServesUntilShutdown == NewestIsServed /\ ShutdownEnds /\ []CleanMeansTornDown
=============================================================================
