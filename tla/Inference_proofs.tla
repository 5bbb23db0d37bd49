--------------------------- MODULE Inference_proofs ---------------------------
(***************************************************************************)
(* Theorems about Inference and the ScreenOcr it extends: whose text the   *)
(* screen cell holds, what a prompt is built from, the order of the        *)
(* answers, and what a clean shutdown has seen.                            *)
(***************************************************************************)
EXTENDS Inference, TLAPS

USE OcrAssumption, RequestAssumption

----------------------------------------------------------------------------
(* Types. *)

\* The reader's edge and its workers keep its types.
LEMMA OcrTypes ==
    ASSUME OcrTypeOK, OcrEdge \/ OcrWork
    PROVE  OcrTypeOK'
<1> USE DEF OcrTypeOK
<1>1. CASE SpawnOcr
  BY <1>1 DEF SpawnOcr
<1>2. CASE SetWait
  <2>1. waits' \in BOOLEAN
    BY <1>2, Zenon DEF SetWait
  <2> QED
    BY <1>2, <2>1 DEF SetWait
<1>3. CASE TurnOff \/ Deactivate \/ CloseQueue
  BY <1>3 DEF TurnOff, Deactivate, CloseQueue
<1>4. CASE ClearCell
  BY <1>4 DEF ClearCell
<1>5. ASSUME NEW h \in Handles, StartReading(h)
      PROVE  OcrTypeOK'
  BY <1>5 DEF StartReading
<1>6. ASSUME NEW h \in Handles, Publish(h)
      PROVE  OcrTypeOK'
  <2>1. [stamp |-> reading[h], by |-> h] \in Text
    BY <1>6 DEF Publish, Text
  <2>2. cell' \in {None, [stamp |-> reading[h], by |-> h], cell}
    BY <1>6 DEF Publish
  <2> QED
    BY <1>6, <2>1, <2>2 DEF Publish
<1> QED
  BY <1>1, <1>2, <1>3, <1>4, <1>5, <1>6 DEF OcrEdge, OcrWork

\* A request for the screen keeps them.
LEMMA RequestTypes ==
    ASSUME OcrTypeOK, NEW stamp \in Stamps, RequestScreen(stamp)
    PROVE  OcrTypeOK'
BY DEF OcrTypeOK, RequestScreen

\* What leaves the reader alone does.
LEMMA SameTypes ==
    ASSUME OcrTypeOK, UNCHANGED ocrVars
    PROVE  OcrTypeOK'
BY DEF OcrTypeOK, ocrVars

\* The text that matches a request is a text.
LEMMA MatchingType ==
    ASSUME OcrTypeOK, NEW r
    PROVE  Matching(r) \in Text \cup {None}
BY DEF OcrTypeOK, Matching

Flags == ready \in BOOLEAN /\ stopping \in BOOLEAN /\ cancelled \in BOOLEAN

WorkTypes ==
    /\ at \in Places /\ channel \in Seq(Request)
    /\ request \in Request \cup {None} /\ text \in Text \cup {None}
    /\ clip \in Stamps \cup {None}
    /\ health \in {"Running", "Degraded", "Failed"}
    /\ model \in {"loaded", "down"} /\ answered \in Nat

HostTypes ==
    /\ submitted \in Nat /\ clipboard \in Stamps \cup {None}
    /\ host \in Kinds \cup {"running", "stop", "closed", "waiting", "clean", "timed out"}

\* From the first receive of a turn to the end of its model call.
Working == {"coalescing", "screen", "screened", "prompting", "generating"}

\* A worker at work has a request.
InHand == at \in Working => request # None

\* A request is made before it is sent.
SubmittedIsStamp == host \in Kinds => submitted \in Stamps

\* The flags are set and cleared.
LEMMA FlagsStep ==
    ASSUME Flags, [Next]_vars
    PROVE  Flags'
<1> USE DEF hostVars, workVars, prompt, signals
<1>1. CASE HostTurn \/ Works
  <2>1. UNCHANGED <<stopping, cancelled>>
    BY <1>1 DEF HostTurn, Prepare, Send, Works, Receive, Replace, Coalesced, Screened,
                CheckStopping, StartModel, CatchUnwind, TearDown, Exit
  <2>2. ready' \in {ready, FALSE}
    BY <1>1 DEF HostTurn, Prepare, Send, Works, Receive, Replace, Coalesced, Screened,
                CheckStopping, StartModel, CatchUnwind, TearDown, Exit
  <2> QED
    BY <2>1, <2>2, Zenon DEF Flags
<1>2. CASE Stop \/ Shutdown
  <2>1. UNCHANGED ready /\ stopping' \in {stopping, TRUE} /\ cancelled' \in {cancelled, TRUE}
    BY <1>2 DEF Stop, Shutdown, CloseRequests, Cancel, ShutDown
  <2> QED
    BY <2>1, Zenon DEF Flags
<1>3. CASE ModelReturns
  <2>1. UNCHANGED <<stopping, cancelled>>
    BY <1>3 DEF ModelReturns, WarmedUp, Answer, ModelFails, ShutdownRequested, Panic, CallEnds
  <2>2. ready' \in {ready, TRUE}
    BY <1>3 DEF ModelReturns, WarmedUp, Answer, ModelFails, ShutdownRequested, Panic, CallEnds
  <2> QED
    BY <2>1, <2>2, Zenon DEF Flags
<1>4. CASE UNCHANGED <<workVars, hostVars>>
  BY <1>4, Zenon DEF Flags
<1> QED
  BY <1>1, <1>2, <1>3, <1>4 DEF Next, vars

\* The host's state keeps its types.
LEMMA HostTypesStep ==
    ASSUME HostTypes, SubmittedIsStamp, [Next]_vars
    PROVE  HostTypes' /\ SubmittedIsStamp'
<1> USE DEF HostTypes, SubmittedIsStamp, Kinds
<1>1. ASSUME NEW kind \in Kinds, Prepare(kind)
      PROVE  HostTypes' /\ SubmittedIsStamp'
  BY <1>1 DEF Prepare, Clipboard
<1>2. CASE Send \/ Stop \/ Shutdown
  BY <1>2 DEF Send, Stop, Shutdown, CloseRequests, Cancel, ShutDown, Ending
<1>3. CASE UNCHANGED hostVars
  BY <1>3 DEF hostVars
<1>4. Works \/ ModelReturns => UNCHANGED hostVars
  BY DEF Works, Receive, Replace, Coalesced, Screened, CheckStopping, StartModel,
         CatchUnwind, TearDown, Exit, ModelReturns, WarmedUp, Answer, ModelFails,
         ShutdownRequested, Panic, CallEnds
<1> QED
  BY <1>1, <1>2, <1>3, <1>4 DEF Next, HostTurn, vars

\* The worker's state keeps its types.
LEMMA WorkTypesStep ==
    ASSUME OcrTypeOK, WorkTypes, InHand, HostTypes, SubmittedIsStamp, [Next]_vars
    PROVE  WorkTypes'
<1> USE DEF WorkTypes, Places, prompt, signals
<1>1. CASE Send
  <2>1. [stamp |-> Stamp, kind |-> host] \in Request
    BY <1>1 DEF Send, Stamp, Request, SubmittedIsStamp
  <2> QED
    BY <1>1, <2>1 DEF Send
<1>2. CASE UNCHANGED workVars
  BY <1>2 DEF workVars
<1>3. CASE WarmedUp
  BY <1>3 DEF WarmedUp
<1>4. CASE Receive
  BY <1>4 DEF Receive
<1>5. CASE Replace \/ Coalesced
  <2>1. /\ at' \in Places /\ text' \in Text \cup {None}
        /\ UNCHANGED <<clip, health, model, answered>>
    BY <1>5, MatchingType DEF Replace, Coalesced, Enter
  <2>2. channel' \in Seq(Request) /\ request' \in Request \cup {None}
    BY <1>5 DEF Replace, Coalesced, Newer, Rest
  <2> QED
    BY <2>1, <2>2
<1>6. CASE Screened \/ CheckStopping
  BY <1>6, MatchingType DEF Screened, CheckStopping
<1>7. CASE StartModel
  BY <1>7 DEF StartModel, HostTypes
<1>8. CASE Answer
  <2>1. request.stamp \in Nat
    BY <1>8 DEF Answer, CallEnds, InHand, Working, Request
  <2> QED
    BY <1>8, <2>1 DEF Answer, CallEnds
<1>9. CASE ModelFails \/ ShutdownRequested
  BY <1>9 DEF ModelFails, ShutdownRequested, CallEnds
<1>10. CASE Panic \/ CatchUnwind \/ TearDown \/ Exit
  BY <1>10 DEF Panic, CatchUnwind, TearDown, Exit
<1>11. (\E kind \in Kinds : Prepare(kind)) \/ Stop \/ Shutdown => UNCHANGED workVars
  BY DEF Prepare, Stop, Shutdown, CloseRequests, Cancel, ShutDown
<1> QED
  BY <1>1, <1>2, <1>3, <1>4, <1>5, <1>6, <1>7, <1>8, <1>9, <1>10, <1>11
     DEF Next, HostTurn, Works, ModelReturns, vars

\* A worker keeps its request in hand.
LEMMA InHandStep ==
    ASSUME WorkTypes, InHand, [Next]_vars
    PROVE  InHand'
<1> USE DEF InHand, Working, prompt
<1>1. CASE Receive
  <2>1. channel # <<>> => Head(channel) # None
    BY DEF WorkTypes
  <2> QED
    BY <1>1, <2>1 DEF Receive
<1>2. CASE Replace
  <2>1. request' # None
    BY <1>2 DEF Replace, Newer, WorkTypes
  <2> QED
    BY <2>1
<1>3. CASE Coalesced \/ Screened \/ CheckStopping \/ StartModel
  BY <1>3 DEF Coalesced, Enter, Screened, CheckStopping, StartModel
<1>4. CASE CatchUnwind \/ TearDown \/ Exit \/ ModelReturns
  BY <1>4 DEF CatchUnwind, TearDown, Exit, ModelReturns, WarmedUp, Answer, ModelFails,
              ShutdownRequested, Panic, CallEnds
<1>5. CASE UNCHANGED <<at, request>>
  BY <1>5
<1>6. HostTurn \/ Stop \/ Shutdown => UNCHANGED <<at, request>>
  BY DEF HostTurn, Prepare, Send, Stop, Shutdown, CloseRequests, Cancel, ShutDown, workVars
<1>7. UNCHANGED workVars => UNCHANGED <<at, request>>
  BY DEF workVars
<1> QED
  BY <1>1, <1>2, <1>3, <1>4, <1>5, <1>6, <1>7 DEF Next, Works, vars

\* So does the reader's.
LEMMA OcrTypesStep ==
    ASSUME OcrTypeOK, [Next]_vars
    PROVE  OcrTypeOK'
<1>1. ASSUME NEW kind \in Kinds, Prepare(kind)
      PROVE  OcrTypeOK'
  BY <1>1, RequestTypes, SameTypes DEF Prepare
<1>2. CASE OcrEdge \/ OcrWork
  BY <1>2, OcrTypes
<1>3. CASE UNCHANGED ocrVars
  BY <1>3, SameTypes
<1>4. Send \/ Stop \/ Shutdown \/ Works \/ ModelReturns => UNCHANGED ocrVars
  BY DEF Send, Stop, Shutdown, CloseRequests, Cancel, ShutDown, Works, Receive, Replace,
         Coalesced, Screened, CheckStopping, StartModel, CatchUnwind, TearDown, Exit,
         ModelReturns, WarmedUp, Answer, ModelFails, ShutdownRequested, Panic, CallEnds
<1> QED
  BY <1>1, <1>2, <1>3, <1>4 DEF Next, HostTurn, vars

----------------------------------------------------------------------------
(* The screen cell. *)

\* Only the worker of the handle in use may publish, and not once its handle has
\* been deactivated.
OnlyLiveIsActive ==
    /\ active \in [Handles -> BOOLEAN]
    /\ \A h \in Handles : active[h] => h = handle /\ edge \notin {"close", "clear"}

CellInv == OnlyLiveIsActive /\ CellIsOfLiveHandle

\* The host's edge keeps it.
LEMMA EdgeKeepsCell ==
    ASSUME OcrTypeOK, CellInv, OcrEdge
    PROVE  CellInv'
<1> USE DEF CellInv, OnlyLiveIsActive, CellIsOfLiveHandle
<1>1. CASE SpawnOcr
  <2>1. PICK h \in Handles : handle' = h /\ active' = [active EXCEPT ![h] = TRUE]
    BY <1>1 DEF SpawnOcr
  <2>2. \A g \in Handles : ~active[g]
    BY <1>1 DEF SpawnOcr
  <2>3. cell = None /\ cell' = None
    BY <1>1 DEF SpawnOcr, OcrTypeOK, Text
  <2> QED
    BY <1>1, <2>1, <2>2, <2>3 DEF SpawnOcr
<1>2. CASE SetWait
  BY <1>2 DEF SetWait
<1>6. CASE TurnOff
  BY <1>6 DEF TurnOff
<1>5. CASE CloseQueue
  BY <1>5 DEF CloseQueue
<1>3. CASE Deactivate
  BY <1>3 DEF Deactivate
<1>4. CASE ClearCell
  BY <1>4 DEF ClearCell
<1> QED
  BY <1>1, <1>2, <1>3, <1>4, <1>5, <1>6 DEF OcrEdge

\* So do the workers, the detached ones included.
LEMMA WorkKeepsCell ==
    ASSUME CellInv, OcrWork
    PROVE  CellInv'
<1> USE DEF CellInv, OnlyLiveIsActive, CellIsOfLiveHandle
<1> PICK h \in Handles : StartReading(h) \/ Publish(h)
  BY DEF OcrWork
<1>1. CASE StartReading(h)
  BY <1>1 DEF StartReading
<1>2. CASE Publish(h)
  BY <1>2 DEF Publish, MayPublish
<1> QED
  BY <1>1, <1>2

\* What the worker and its host do besides leaves the cell and its handle alone.
LEMMA CellStep ==
    ASSUME OcrTypeOK, CellInv, [Next]_vars
    PROVE  CellInv'
<1>1. CASE UNCHANGED <<active, handle, edge, cell>>
  BY <1>1 DEF CellInv, OnlyLiveIsActive, CellIsOfLiveHandle
<1>2. HostTurn => UNCHANGED <<active, handle, edge, cell>>
  BY DEF HostTurn, Prepare, Send, RequestScreen, ocrVars
<1>3. Stop \/ Shutdown \/ Works \/ ModelReturns => UNCHANGED <<active, handle, edge, cell>>
  BY DEF Stop, Shutdown, CloseRequests, Cancel, ShutDown, Works, Receive, Replace,
         Coalesced, Screened, CheckStopping, StartModel, CatchUnwind, TearDown, Exit,
         ModelReturns, WarmedUp, Answer, ModelFails, ShutdownRequested, Panic, CallEnds, ocrVars
<1> QED
  BY <1>1, <1>2, <1>3, EdgeKeepsCell, WorkKeepsCell DEF Next, vars, ocrVars

----------------------------------------------------------------------------
(* The order of the requests. *)

\* The number of the last request sent: one that is made is not sent yet.
Sent == IF host \in Kinds THEN submitted - 1 ELSE submitted

\* What is answered, what is in hand and what is in the channel follow each other.
ChannelInOrder ==
    \A i \in DOMAIN channel :
        /\ answered < channel[i].stamp /\ channel[i].stamp <= Sent
        /\ \A j \in DOMAIN channel : i < j => channel[i].stamp < channel[j].stamp

HandIsBetween ==
    at \in Working =>
        /\ answered < request.stamp /\ request.stamp <= Sent
        /\ \A i \in DOMAIN channel : request.stamp < channel[i].stamp

InOrder == answered <= Sent /\ ChannelInOrder /\ HandIsBetween

\* The numbers of requests are numbers.
LEMMA StampsAreNumbers ==
    ASSUME WorkTypes, HostTypes, InHand
    PROVE  /\ Sent \in Int /\ answered \in Nat /\ submitted \in Nat
           /\ \A i \in DOMAIN channel : channel[i].stamp \in Nat
           /\ at \in Working => request.stamp \in Nat
<1>1. \A r \in Request : r.stamp \in Nat
  BY DEF Request
<1>2. Sent \in Int /\ answered \in Nat /\ submitted \in Nat
  <2>1. submitted \in Nat
    BY DEF HostTypes
  <2>2. submitted - 1 \in Int /\ submitted \in Int
    BY <2>1
  <2>3. Sent \in {submitted - 1, submitted}
    BY DEF Sent
  <2>4. answered \in Nat
    BY DEF WorkTypes
  <2> QED
    BY <2>1, <2>2, <2>3, <2>4
<1>3. \A i \in DOMAIN channel : channel[i] \in Request
  BY DEF WorkTypes
<1>4. at \in Working => request \in Request
  BY DEF WorkTypes, InHand
<1> QED
  BY <1>1, <1>2, <1>3, <1>4

\* Taking the head of the channel.
LEMMA HeadIsNext ==
    ASSUME WorkTypes, HostTypes, InHand, InOrder, channel # <<>>
    PROVE  /\ answered < Head(channel).stamp /\ Head(channel).stamp <= Sent
           /\ \A i \in DOMAIN Tail(channel) :
                 /\ answered < Tail(channel)[i].stamp /\ Tail(channel)[i].stamp <= Sent
                 /\ Head(channel).stamp < Tail(channel)[i].stamp
                 /\ \A j \in DOMAIN Tail(channel) :
                       i < j => Tail(channel)[i].stamp < Tail(channel)[j].stamp
<1>1. channel \in Seq(Request) /\ 1 \in DOMAIN channel /\ Head(channel) = channel[1]
  BY DEF WorkTypes
<1>2. \A i \in DOMAIN Tail(channel) :
         i + 1 \in DOMAIN channel /\ 1 < i + 1 /\ i \in Nat
         /\ Tail(channel)[i] = channel[i + 1]
  BY <1>1
<1>3. \A i, j \in DOMAIN Tail(channel) : i < j => i + 1 < j + 1
  BY <1>2
<1> QED
  BY <1>1, <1>2, <1>3 DEF InOrder, ChannelInOrder

\* Every step keeps the order.
LEMMA OrderStep ==
    ASSUME WorkTypes, HostTypes, InHand, InOrder, [Next]_vars
    PROVE  InOrder'
<1> USE DEF Kinds
<1>1. ASSUME NEW kind \in Kinds, Prepare(kind)
      PROVE  InOrder'
  <2>1. UNCHANGED <<at, channel, request, answered>> /\ Sent' = Sent
    BY <1>1, StampsAreNumbers DEF Prepare, workVars, prompt, Sent
  <2> QED
    BY <2>1 DEF InOrder, ChannelInOrder, HandIsBetween
<1>2. CASE Send
  <2>1. UNCHANGED <<at, request, answered>> /\ Sent' = submitted /\ Sent = submitted - 1
    BY <1>2 DEF Send, prompt, Sent
  <2>2. CASE channel' = channel
    BY <2>1, <2>2, StampsAreNumbers DEF InOrder, ChannelInOrder, HandIsBetween
  <2>3. CASE channel' = Append(channel, [stamp |-> Stamp, kind |-> host])
    <3> DEFINE n == Len(channel)
               last == [stamp |-> Stamp, kind |-> host]
    <3>1. /\ n \in Nat /\ DOMAIN channel = 1 .. n /\ last.stamp = submitted
          /\ DOMAIN channel' = 1 .. n + 1 /\ channel'[n + 1] = last
          /\ \A i \in 1 .. n : channel'[i] = channel[i]
      BY <2>3 DEF WorkTypes, Stamp
    <3> HIDE DEF last
    <3>2. \A i \in 1 .. n : /\ answered < channel[i].stamp
                            /\ channel[i].stamp < submitted
                            /\ channel[i].stamp \in Nat
      BY <2>1, <3>1, StampsAreNumbers DEF InOrder, ChannelInOrder
    <3>3. ChannelInOrder'
      <4>1. ASSUME NEW i \in 1 .. n + 1
            PROVE  answered < channel'[i].stamp /\ channel'[i].stamp <= submitted
        BY <2>1, <3>1, <3>2, StampsAreNumbers DEF InOrder
      <4>2. ASSUME NEW i \in 1 .. n + 1, NEW j \in 1 .. n + 1, i < j
            PROVE  channel'[i].stamp < channel'[j].stamp
        <5>1. CASE j = n + 1
          BY <3>1, <3>2, <4>2, <5>1
        <5>2. CASE j \in 1 .. n
          BY <3>1, <4>2, <5>2 DEF InOrder, ChannelInOrder
        <5> QED
          BY <3>1, <5>1, <5>2
      <4> QED
        BY <2>1, <3>1, <4>1, <4>2 DEF ChannelInOrder
    <3>4. HandIsBetween'
      BY <2>1, <3>1, StampsAreNumbers DEF InOrder, HandIsBetween
    <3> QED
      BY <2>1, <3>3, <3>4, StampsAreNumbers DEF InOrder
  <2> QED
    BY <1>2, <2>2, <2>3 DEF Send
<1>3. CASE Receive
  <2>1. CASE channel = <<>>
    BY <1>3, <2>1 DEF Receive, InOrder, ChannelInOrder, HandIsBetween, Working, hostVars, Sent
  <2>2. CASE channel # <<>>
    BY <1>3, <2>2, HeadIsNext DEF Receive, InOrder, ChannelInOrder, HandIsBetween, hostVars, Sent
  <2> QED
    BY <2>1, <2>2
<1>4. CASE Replace
  <2>1. /\ request' = Head(channel) /\ channel' = Tail(channel) /\ channel # <<>>
        /\ UNCHANGED <<answered, host, submitted>>
    BY <1>4 DEF Replace, Newer, Rest, hostVars
  <2> QED
    BY <2>1, HeadIsNext DEF InOrder, ChannelInOrder, HandIsBetween, Sent
<1>5. CASE Coalesced \/ Screened \/ CheckStopping \/ StartModel
  <2>1. at \in Working /\ UNCHANGED <<channel, request, answered, host, submitted>>
    BY <1>5 DEF Coalesced, Screened, CheckStopping, StartModel, Working, prompt, hostVars
  <2> QED
    BY <2>1 DEF InOrder, ChannelInOrder, HandIsBetween, Sent
<1>6. CASE Answer
  <2>1. /\ answered' = request.stamp /\ at \in Working /\ at' \notin Working
        /\ UNCHANGED <<channel, host, submitted>>
    BY <1>6 DEF Answer, CallEnds, Working, hostVars
  <2> QED
    BY <2>1, StampsAreNumbers DEF InOrder, ChannelInOrder, HandIsBetween, Sent
<1>7. ASSUME at' \notin Working, UNCHANGED <<channel, answered, host, submitted>>
      PROVE  InOrder'
  BY <1>7 DEF InOrder, ChannelInOrder, HandIsBetween, Sent
<1>8. CASE ModelFails \/ ShutdownRequested \/ WarmedUp \/ Panic
  BY <1>7, <1>8 DEF ModelFails, ShutdownRequested, WarmedUp, Panic, CallEnds, Working, hostVars
<1>9. CASE CatchUnwind \/ TearDown \/ Exit
  BY <1>7, <1>9 DEF CatchUnwind, TearDown, Exit, Working, hostVars
<1>10. CASE UNCHANGED <<at, request, channel, answered, Sent>>
  BY <1>10 DEF InOrder, ChannelInOrder, HandIsBetween
<1>11. Stop \/ Shutdown => UNCHANGED <<at, request, channel, answered, Sent>>
  BY DEF Stop, Shutdown, CloseRequests, Cancel, ShutDown, Ending, Sent, workVars, prompt
<1>12. UNCHANGED <<workVars, hostVars>> => UNCHANGED <<at, request, channel, answered, Sent>>
  BY DEF workVars, hostVars, prompt, Sent
<1> QED
  BY <1>1, <1>2, <1>3, <1>4, <1>5, <1>6, <1>8, <1>9, <1>10, <1>11, <1>12
     DEF Next, HostTurn, Works, ModelReturns, vars

----------------------------------------------------------------------------
(* The prompt. *)

\* The screen text is read for the request in hand, or there is none.
TextIsItsOwn ==
    IF at \in {"screened", "prompting", "generating"}
    THEN text # None => request.kind = "Completion" /\ text.stamp = request.stamp
    ELSE at \in Working \cup {"warming", "idle"} => text = None

\* Only a completion waits for the screen.
OnlyCompletionsWait == at = "screen" => request.kind = "Completion"

\* The clipboard is read before a completion is sent, so it is never older than one
\* that has been.
ClipboardIsNewer ==
    clipboard # None =>
        /\ \A i \in DOMAIN channel :
              channel[i].kind = "Completion" => channel[i].stamp <= clipboard
        /\ at \in Working /\ request.kind = "Completion" => request.stamp <= clipboard
        /\ host = "Completion" => clipboard = submitted

ClipIsNewer == at = "generating" /\ clip # None => clip >= request.stamp

PromptInv == TextIsItsOwn /\ OnlyCompletionsWait /\ ClipboardIsNewer /\ ClipIsNewer

\* What matches a completion is None or of its number.
LEMMA MatchingIsOwn ==
    ASSUME NEW r
    PROVE  Matching(r) # None => Matching(r).stamp = r.stamp
BY DEF Matching

\* The way into the wait, or past it.
LEMMA EnterKeeps ==
    ASSUME NEW r, Enter(r), text = None, request' = r
    PROVE  TextIsItsOwn' /\ OnlyCompletionsWait' /\ at' \in {"screen", "screened"}
BY MatchingIsOwn DEF Enter, TextIsItsOwn, OnlyCompletionsWait, Working

\* Every step keeps what the prompt is built from.
LEMMA PromptStep ==
    ASSUME WorkTypes, HostTypes, InHand, InOrder, PromptInv, [Next]_vars
    PROVE  PromptInv'
<1> USE DEF Kinds
<1>1. CASE Prepare("Completion")
  <2>1. UNCHANGED <<at, channel, request, text, clip>>
    BY <1>1 DEF Prepare, workVars, prompt
  <2>2. clipboard' # None => clipboard' = submitted + 1 /\ submitted' = submitted + 1
    BY <1>1 DEF Prepare, Clipboard
  <2>3. Sent = submitted
    BY <1>1 DEF Prepare, Sent
  <2>4. ClipboardIsNewer'
    <3>1. \A i \in DOMAIN channel : channel[i].stamp <= submitted + 1
      BY <2>3, StampsAreNumbers DEF InOrder, ChannelInOrder
    <3>2. at \in Working => request.stamp <= submitted + 1
      BY <2>3, StampsAreNumbers DEF InOrder, HandIsBetween
    <3> QED
      BY <2>1, <2>2, <3>1, <3>2 DEF ClipboardIsNewer
  <2> QED
    BY <2>1, <2>4 DEF PromptInv, TextIsItsOwn, OnlyCompletionsWait, ClipIsNewer
<1>2. CASE Prepare("GrammarFix")
  BY <1>2 DEF Prepare, workVars, prompt, PromptInv, TextIsItsOwn, OnlyCompletionsWait,
              ClipIsNewer, ClipboardIsNewer
<1>3. CASE Send
  <2>1. UNCHANGED <<at, request, text, clip, clipboard, submitted>> /\ host' = "running"
    BY <1>3 DEF Send, prompt
  <2>2. CASE channel' = channel
    BY <2>1, <2>2 DEF PromptInv, TextIsItsOwn, OnlyCompletionsWait, ClipIsNewer,
                      ClipboardIsNewer
  <2>3. CASE channel' = Append(channel, [stamp |-> Stamp, kind |-> host])
    <3> DEFINE n == Len(channel)
               last == [stamp |-> Stamp, kind |-> host]
    <3>1. /\ n \in Nat /\ DOMAIN channel = 1 .. n
          /\ last.stamp = submitted /\ last.kind = host
          /\ DOMAIN channel' = 1 .. n + 1 /\ channel'[n + 1] = last
          /\ \A i \in 1 .. n : channel'[i] = channel[i]
      BY <2>3 DEF WorkTypes, Stamp
    <3> HIDE DEF last
    <3>2. clipboard # None /\ host = "Completion" => submitted <= clipboard
      BY StampsAreNumbers DEF PromptInv, ClipboardIsNewer
    <3>3. ClipboardIsNewer'
      <4> SUFFICES ASSUME clipboard # None, NEW i \in 1 .. n + 1, channel'[i].kind = "Completion"
                   PROVE  channel'[i].stamp <= clipboard
        BY <2>1, <3>1 DEF PromptInv, ClipboardIsNewer
      <4>1. CASE i = n + 1
        BY <3>1, <3>2, <4>1
      <4>2. CASE i \in 1 .. n
        BY <3>1, <4>2 DEF PromptInv, ClipboardIsNewer
      <4> QED
        BY <3>1, <4>1, <4>2
    <3> QED
      BY <2>1, <3>3 DEF PromptInv, TextIsItsOwn, OnlyCompletionsWait, ClipIsNewer
  <2> QED
    BY <1>3, <2>2, <2>3 DEF Send
<1>4. CASE Receive
  <2>1. UNCHANGED <<text, clip, clipboard, submitted, host>> /\ at = "idle" /\ text = None
    BY <1>4 DEF Receive, hostVars, PromptInv, TextIsItsOwn, Working
  <2>2. CASE channel = <<>>
    BY <1>4, <2>1, <2>2 DEF Receive, PromptInv, TextIsItsOwn, OnlyCompletionsWait, ClipIsNewer,
                            ClipboardIsNewer, Working
  <2>3. CASE channel # <<>>
    <3>1. /\ request' = channel[1] /\ 1 \in DOMAIN channel /\ at' = "coalescing"
          /\ \A i \in DOMAIN channel' : i + 1 \in DOMAIN channel /\ channel'[i] = channel[i + 1]
      BY <1>4, <2>3 DEF Receive, WorkTypes
    <3> QED
      BY <2>1, <3>1 DEF PromptInv, TextIsItsOwn, OnlyCompletionsWait, ClipIsNewer,
                        ClipboardIsNewer, Working
  <2> QED
    BY <2>2, <2>3
<1>5. CASE Replace
  <2>1. /\ at \in {"coalescing", "screen"} /\ text = None
        /\ UNCHANGED <<clip, clipboard, submitted, host>>
    BY <1>5 DEF Replace, hostVars, PromptInv, TextIsItsOwn, Working
  <2>2. /\ request' = channel[1] /\ 1 \in DOMAIN channel
        /\ \A i \in DOMAIN channel' : i + 1 \in DOMAIN channel /\ channel'[i] = channel[i + 1]
    BY <1>5 DEF Replace, Newer, Rest, WorkTypes
  <2>3. TextIsItsOwn' /\ OnlyCompletionsWait' /\ at' \in {"coalescing", "screen", "screened"}
    <3>1. CASE at = "screen"
      BY <1>5, <2>1, <3>1, EnterKeeps DEF Replace
    <3>2. CASE at = "coalescing"
      BY <1>5, <2>1, <3>2 DEF Replace, TextIsItsOwn, OnlyCompletionsWait, Working
    <3> QED
      BY <2>1, <3>1, <3>2
  <2> QED
    BY <2>1, <2>2, <2>3 DEF PromptInv, ClipIsNewer, ClipboardIsNewer, Working
<1>6. CASE Coalesced
  <2>1. /\ at = "coalescing" /\ text = None /\ Enter(request)
        /\ UNCHANGED <<request, channel, clip, clipboard, submitted, host>>
    BY <1>6 DEF Coalesced, hostVars, PromptInv, TextIsItsOwn, Working
  <2>2. TextIsItsOwn' /\ OnlyCompletionsWait' /\ at' \in {"screen", "screened"}
    BY <2>1, EnterKeeps
  <2> QED
    BY <2>1, <2>2 DEF PromptInv, ClipIsNewer, ClipboardIsNewer, Working
<1>7. CASE Screened
  BY <1>7, MatchingIsOwn
     DEF Screened, hostVars, PromptInv, TextIsItsOwn, OnlyCompletionsWait, ClipIsNewer,
         ClipboardIsNewer, Working
<1>8. CASE CheckStopping
  BY <1>8 DEF CheckStopping, hostVars, prompt, PromptInv, TextIsItsOwn, OnlyCompletionsWait,
              ClipIsNewer, ClipboardIsNewer, Working
<1>9. CASE StartModel
  <2>1. clip' # None => clip' = clipboard /\ request.kind = "Completion"
    BY <1>9 DEF StartModel
  <2>2. /\ at = "prompting" /\ at' = "generating"
        /\ UNCHANGED <<request, text, channel, clipboard, submitted, host>>
    BY <1>9 DEF StartModel, hostVars
  <2>3. ClipIsNewer'
    BY <2>1, <2>2, StampsAreNumbers DEF PromptInv, ClipboardIsNewer, ClipIsNewer, Working, HostTypes
  <2> QED
    BY <2>2, <2>3 DEF PromptInv, TextIsItsOwn, OnlyCompletionsWait, ClipboardIsNewer, Working
<1>10. CASE Answer \/ ModelFails \/ ShutdownRequested
  BY <1>10 DEF Answer, ModelFails, ShutdownRequested, CallEnds, hostVars, PromptInv,
               TextIsItsOwn, OnlyCompletionsWait, ClipIsNewer, ClipboardIsNewer, Working
<1>11. CASE WarmedUp \/ Panic \/ CatchUnwind \/ TearDown \/ Exit
  BY <1>11 DEF WarmedUp, Panic, CatchUnwind, TearDown, Exit, hostVars, prompt, PromptInv,
               TextIsItsOwn, OnlyCompletionsWait, ClipIsNewer, ClipboardIsNewer, Working
<1>12. CASE Stop \/ Shutdown
  BY <1>12 DEF Stop, Shutdown, CloseRequests, Cancel, ShutDown, Ending, workVars, prompt,
               PromptInv, TextIsItsOwn, OnlyCompletionsWait, ClipIsNewer, ClipboardIsNewer
<1>13. CASE UNCHANGED <<workVars, hostVars>>
  BY <1>13 DEF workVars, hostVars, prompt, PromptInv, TextIsItsOwn, OnlyCompletionsWait,
               ClipIsNewer, ClipboardIsNewer
<1> QED
  BY <1>1, <1>2, <1>3, <1>4, <1>5, <1>6, <1>7, <1>8, <1>9, <1>10, <1>11, <1>12, <1>13
     DEF Next, HostTurn, Works, ModelReturns, vars

----------------------------------------------------------------------------
(* The end. *)

\* The model is torn down before the thread ends, and the host calls an end clean
\* only then.
TornDown ==
    /\ at \in {"stopped", "gone"} => model = "down"
    /\ host = "clean" => at = "gone"

\* Nothing follows a thread's end.
LEMMA TornDownStep ==
    ASSUME TornDown, [Next]_vars
    PROVE  TornDown'
<1> USE DEF TornDown
<1>1. CASE Works
  BY <1>1 DEF Works, Receive, Replace, Coalesced, Enter, Screened, CheckStopping, StartModel,
              CatchUnwind, TearDown, Exit, hostVars
<1>2. CASE ModelReturns
  BY <1>2 DEF ModelReturns, WarmedUp, Answer, ModelFails, ShutdownRequested, Panic,
              CallEnds, hostVars
<1>3. CASE HostTurn \/ Stop \/ Shutdown
  BY <1>3 DEF HostTurn, Prepare, Send, Kinds, Stop, Shutdown, CloseRequests, Cancel, ShutDown,
              Ending, Finished, workVars
<1>4. CASE UNCHANGED <<workVars, hostVars>>
  BY <1>4 DEF workVars, hostVars
<1> QED
  BY <1>1, <1>2, <1>3, <1>4 DEF Next, vars

----------------------------------------------------------------------------
(* The theorems. *)

Types == OcrTypeOK /\ Flags /\ WorkTypes /\ HostTypes /\ SubmittedIsStamp /\ InHand

Inv == Types /\ CellInv /\ InOrder /\ PromptInv /\ TornDown

\* The first state.
LEMMA InitInv ==
    ASSUME Init
    PROVE  Inv
<1> USE DEF Init, OcrInit
<1>1. OcrTypeOK
  BY DEF OcrTypeOK
<1>2. Flags
  BY Zenon DEF Flags
<1>3. WorkTypes
  BY DEF WorkTypes, Places
<1>4. HostTypes /\ SubmittedIsStamp /\ InHand
  BY DEF HostTypes, SubmittedIsStamp, InHand, Kinds, Working
<1>5. CellInv
  BY DEF CellInv, OnlyLiveIsActive, CellIsOfLiveHandle
<1>6. InOrder
  BY DEF InOrder, ChannelInOrder, HandIsBetween, Sent, Kinds, Working
<1>7. PromptInv
  BY DEF PromptInv, TextIsItsOwn, OnlyCompletionsWait, ClipboardIsNewer, ClipIsNewer
<1>8. TornDown
  BY DEF TornDown
<1> QED
  BY <1>1, <1>2, <1>3, <1>4, <1>5, <1>6, <1>7, <1>8 DEF Inv, Types

\* Every state.
LEMMA Invariance == Spec => []Inv
<1>1. Init => Inv
  BY InitInv
<1>2. Inv /\ [Next]_vars => Inv'
  <2> SUFFICES ASSUME Inv, [Next]_vars
               PROVE  Inv'
    OBVIOUS
  <2>1. Types'
    BY FlagsStep, HostTypesStep, WorkTypesStep, InHandStep, OcrTypesStep DEF Inv, Types
  <2> QED
    BY <2>1, CellStep, OrderStep, PromptStep, TornDownStep DEF Inv, Types
<1> QED
  BY <1>1, <1>2, PTL DEF Spec

\* The variables keep their types (inference.rs, screen_ocr.rs).
THEOREM TypeCorrect == Spec => []TypeOK
<1>1. Inv => TypeOK
  BY DEF Inv, Types, TypeOK, Flags, WorkTypes, HostTypes
<1> QED
  BY <1>1, Invariance, PTL

\* The screen cell never holds the text of a handle that has been dropped, whatever
\* its detached worker is in the middle of (screen_ocr.rs, publish_screen_context and
\* Drop for ScreenOcr).
THEOREM DroppedHandlesAreSilent == Spec => []CellIsOfLiveHandle
<1>1. Inv => CellIsOfLiveHandle
  BY DEF Inv, CellInv
<1> QED
  BY <1>1, Invariance, PTL

\* A prompt's screen text was read for the request in hand and its clipboard for that
\* request or a newer one (matching_screen_text_now, recv_latest, next_request).
THEOREM PromptsAreTheirOwn == Spec => []PromptIsItsOwn
<1>1. Inv => PromptIsItsOwn
  BY DEF Inv, PromptInv, TextIsItsOwn, ClipIsNewer, PromptIsItsOwn
<1> QED
  BY <1>1, Invariance, PTL

\* Requests are answered in their order and none of them twice, through every
\* replacement in recv_latest and wait_for_screen_or_newer.
THEOREM AnswersFollowRequests == Spec => AnswersInOrder
<1>1. Inv /\ [Next]_vars => [Answer => request.stamp > answered]_vars
  <2> SUFFICES ASSUME Inv, Answer
               PROVE  request.stamp > answered
    OBVIOUS
  <2>1. at \in Working
    BY DEF Answer, CallEnds, Working
  <2>2. answered < request.stamp /\ answered \in Nat /\ request.stamp \in Nat
    BY <2>1, StampsAreNumbers DEF Inv, Types, InOrder, HandIsBetween
  <2> QED
    BY <2>2
<1> QED
  BY <1>1, Invariance, PTL DEF Spec, AnswersInOrder

\* A shutdown that reports a clean end has seen the model torn down and the thread
\* gone (shutdown_with_timeout, InferenceShutdown).
THEOREM CleanShutdownIsTornDown == Spec => []CleanMeansTornDown
<1>1. Inv => CleanMeansTornDown
  BY DEF Inv, TornDown, CleanMeansTornDown
<1> QED
  BY <1>1, Invariance, PTL

=============================================================================
