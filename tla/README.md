# Verification of compme

compme completes text inline, in whatever application has the keyboard focus:
it watches the focused field through the platform's accessibility interface,
asks a local language model for a continuation, paints it as a ghost at the
caret, and inserts it when the user presses the accept key.  This directory
holds TLA+ models of the program's control logic, the TLC configurations that
check them on small instances, and TLAPS proofs of the properties that hold for
every value of the constants.  The models are translated from the Rust sources
under `src/crates`; `PROJECT.json` names, for every definition, the lines it
stands for.

To check a run: `tlc -workers 2 -config X.cfg M`, with the module that
`PROJECT.json` names for the configuration.  To check the proofs: `tlapm M.tla`
for each of the eight modules named `*_proofs`.

## 1. The system

One process, one host loop thread, and a few helper threads that talk to it
through queues and channels:

    platform callbacks --> host event queue --+
    (focus, text, caret)                      |        +--> overlay (paint)
    accept tap / hotkeys --> host events -----+-> loop-+--> accept tap (arm)
    inference worker <-- latest request       |  turn  +--> field (insert)
    inference worker --> outcome channel -----+        +--> statistics, memory

| Component | Source (crates/) | State it keeps | Operations | How it interacts |
|---|---|---|---|---|
| Suggestion machine | engine_core | capabilities, field, text, caret, snapshot stamp, armed debounce, outstanding request, suggestion on screen, Esc suppression, buffered statistics | `on_event` (focus, edit, caret, secure state, tick, answers, accepts, dismissals, cycle, force show), offers of replacements, manual grammar request, retraction of a failed show | called by the engine; returns commands |
| Engine | engine | the machine, the capabilities, the overlay, the subscription of the accept tap | one method per event; `dispatch_with_commit` executes the machine's commands one by one and reconciles the machine when one fails | calls the platform adapter and the overlay, both of which may fail at every call |
| Field tracking and latest request | app/wiring.rs | the last text and caret per field, the predicted echo of an own insertion; the newest unsubmitted request | classify a platform report as edit, caret move or echo; keep only the newest request | between the queue, the engine and the worker |
| Host loop | app/run_loop.rs, loop_state.rs | the event queue, the backlog, the grace times, the policy edges (secure input, disable, snooze) | a turn: drain events, take outcomes, tick, drain statistics, poll policies, submit, pump | calls the engine, the worker, the stores |
| Inference worker | app/inference.rs, model_client | the request being generated, a cache of earlier inputs | wait for the newest request, build a prompt, generate, answer | channels to and from the loop |
| Accept tap | platform_macos/lib.rs, carbon_registry.rs; platform_linux/x11_tap.rs | armed or not, the action the key stands for, a pending delayed hide | arm, disarm, disarm after a delay, re-register the keys | key events are consumed or passed through on another thread |
| Accessibility workers | platform_macos/ax_worker.rs, platform_linux/atspi_*.rs, platform_windows/uia_*.rs | request queues, per-call time limits, focus caches | read a field's text, caret, geometry; insert | blocking calls with timeouts on a thread of their own |
| Memory store | memory, platform_*/keychain and keyring | encrypted entries, key, retention limits | record, prune, erase, rotate | the host loop's memory phases |
| Model download | model_fetch, model_catalog | partial file, lock, progress | fetch, resume, verify, publish | a thread the host loop polls |
| Statistics | stats | daily counters, a dirty flag | count, roll over, save | once per loop turn |
| Preferences, configuration, remote configuration | prefs, app/config.rs, webconfig, shell_flags | settings file, validated values | load, rewrite atomically, fetch | read at start and on settings edges |
| Text helpers | ranker, emoji, autocorrect, grammar, localize, thesaurus, textcase, redaction, personalization, context, compat | none | pure functions over strings and tables | called by the loop, the worker and the machine |
| Screen context | app/screen_ocr.rs | the last capture and its age | capture, wait for a capture, invalidate | between the loop and the worker |
| User interface | platform_macos/settings_window.rs, tray.rs, url_events.rs; platform_linux/tray.rs | widgets, flags set by callbacks | open, close, toggle | flags the loop reads once per turn |

### What is hard here

- Nothing in the accessibility world is synchronous: a report may be late,
  missing or about an older text, an answer of the model may come back after
  the text moved on, and a key press is caught on another thread than the one
  that decides whether there is anything to accept.  The stamp of the machine
  (`generation`/`snapshot`) and the preview of an accept are the two devices the
  program leans on.
- Every platform call can fail, also halfway through a list of commands.  The
  screen, the accept tap and the machine must still agree afterwards: a painted
  ghost that cannot be accepted is a nuisance, a key that is swallowed with no
  ghost on screen breaks the user's typing, and an accept of something that
  was never painted inserts text nobody saw.
- Policies (secure input, a disabled application, Esc) may begin between any
  two steps and have to silence everything already under way.

### What makes each component correct

- Suggestion machine: what is on screen belongs to the present field, caret and
  text; at most one of debounce, request and suggestion is live; a blocked or
  suppressed field is silent; an answer is used at most once; the statistics
  tell one lifecycle per suggestion.
- Engine: when no call is under way the machine's idea of the screen is the
  screen, and the accept key is armed exactly for what is painted; a failure
  anywhere is reconciled; `committed` is reported exactly when the field was
  written.
- Host loop and queue: events of one field are applied in order, dropping under
  pressure never applies a caret to the wrong text, keys are never dropped, and
  a key pressed for one suggestion never accepts another.
- Inference worker: the newest request is served eventually, an older one
  never overwrites it, and shutdown does not wait for a blocked generation.
- Accept tap: a key is consumed only while a suggestion is (or has just been)
  on screen, and a delayed disarm never disarms a suggestion shown since.
- Memory store, download, preferences, statistics: a crash between two steps
  leaves the old or the new file, never a mixture; an erase that was confirmed
  is complete; a download that verified is the one that is published.

## 2. The modules

| Module | Models | Extends or instantiates |
|---|---|---|
| `SuggestionMachine` | engine_core: the pure suggestion core | |
| `SuggestionContract` | what the core promises: epochs, at most one of debounce, request and suggestion | |
| `SuggestionRefinement` | the mapping from the machine to the contract | `SuggestionMachine`, `INSTANCE SuggestionContract` |
| `Engine` | engine: the machine with the overlay, the field and the accept key | `SuggestionMachine` |
| `AcceptTap` | platform_macos: the controller, the hotkey registry, the delayed hide; run_loop: the rebind | |
| `X11Tap` | platform_linux: the accept tap's grab, watchdog and dispatcher; run_loop: the rebind | |
| `HostQueue` | run_loop: the bounded event queue, coalescing and draining | |
| `ScreenOcr` | screen_ocr, context_policy: the screen reader and its cell | |
| `Inference` | inference: the worker, its channel, prompts and shutdown | `ScreenOcr` |
| `HostLoop` | run_loop: the turn of the loop, policy and secure edges, submission | |
| `FieldTracker` | wiring: what a read of a field means, the baseline and the echo flag | |
| `MemoryStore` | memory, inference: the table, its modes, the rings filled from it | |
| `TypedMemory` | run_loop: what a turn reads, queues, buffers, flushes, stores and erases | `FieldTracker`, `MemoryStore` |
| `AxWorker` | platform_macos/ax_worker: one focus subscription and its five threads | |
| `ModelDownload` | model_fetch, run_loop: the resumable download of a pinned file | |
| `MC*` | instances for TLC | the module of the same name |
| `Engine_proofs` | theorems about the machine, then about the engine around it | `Engine`, `SuggestionRefinement` |
| `Reports_proofs` | theorems about the two modules a report of focus goes through | `AxWorker`, `HostQueue` |
| other `*_proofs` | theorems | the module of the same name |

The modules meet where the components do.  `Engine` composes the machine with
the platform: each of its actions conjoins one of the machine's, or leaves its
variables alone, so that what holds of the machine holds inside the engine.  `HostLoop` takes from the engine what
`SuggestionContract` states: a request outstanding, a suggestion on screen, an
armed debounce and epochs that end all three.  `AcceptTap` and `X11Tap` stand behind the
one variable `tap` of `Engine`, `Inference` behind the answers of `HostLoop`,
and `HostQueue` in front of its events.
`AxWorker` stands in front of `HostQueue`: what it tells the subscriber is a
report of focus.  `TypedMemory` is the other half of the turn of `HostLoop`, the
half that keeps what was typed; each half leaves out the other's state.

### SuggestionMachine

One action per event of `on_event` (`Focus`, `TextChanged`, `CaretMoved`,
`SecureStateChanged`, the three dismissals, `Tick`, `CompletionReady`,
`CorrectionReady`, the three accepts, `Cycle`, `ForceShow`) and per call of the
host (offers of a replacement, `ArmGrammar`, `FailedShow`, `SetAllowMidWord`,
`TakeStatEvents`).  The fields of the Rust struct are variables of the same
names; `cmds` holds the commands the last call returned.  `generation` and
`snapshot` only move together and are one number.  A text is a sequence of word
and separator characters, a candidate is its number of words.  Answers are
enumerated with every stamp, field and kind, so late, duplicated and foreign
ones are all there.

`SuggestionContract` knows an epoch, the requests of it that are still awaited
and what is shown.  It is the statement a caller relies on: an answer counts
once, in the epoch it was asked for, and ends with it.

### Engine

`Call` hands an event to the machine; the commands it returns go to `todo` and
are executed one by one (`RequestCompletion`, `ShowSuggestion`, `UpdateGhost`,
`WriteField`, `HideSuggestion`), with a failure possible at each platform call.
`DismissUnplaced` and `DropFailedShow` are the reconciliations.  `HideTimerFires`
is the delayed disarming of the tap, which another thread does, at any moment.
So a show is three steps: the painting, `SetAcceptAction` and
`SetSuggestionVisible`, the two calls of `set_tap_visible`.  When the hide fires
between these two, the second finds no action and defaults it; the history
variable `raced` remembers that.  The two calls that disarm stay one step: the
first of them already releases the key and makes every scheduled hide old.

### AcceptTap

A call of the host is a list of steps, each of them atomic because of the lock
it takes: `set_accept_action` stores and settles, `set_suggestion_visible` advances
the generation and defaults the action.  Sleepers (the threads of a delayed
hide) take the same locks in between; teardowns go through the main queue and
may be late.  Registration may fail before and after the keys are registered.

### X11Tap

On Linux a synchronous passive grab freezes the keyboard at a grabbed key until
`allow_events` eats or replays it.  The host's calls are lists of steps again;
the event thread's answer to a key is cut at every access to what others share
(`TakeEvent` stores the time of the freeze, `Decide`, `AllowKey`, `SendControl`), the
building of a plan from its publication, and the watchdog's decision from what it
does.  What is done under the lock of `grabbed` is one step: the only other reader
of the action in between is `Decide`, and a key cannot be grabbed yet, or is
replayed as it would be just after.  `grabs`, `events` and `layout` are the server's.
A key is a role of the plan it was grabbed under; under a later plan its keycode
may be any role or none.

### HostQueue

Reports are numbered as they are made, so that a set of numbered events is
the sequence of the code.  `Enqueued` is `enqueue_host_event` with its choice of
a victim and the pruning of the victim's carets, `Drain` the drain of a batch,
`Coalesced` the dropping of redundant caret reads, `Handle` the handling of an
event with the lock released.

### ScreenOcr and Inference

The worker's loop is cut where it touches what others change: reception,
coalescing, the wait for the screen text, the read of the clipboard cell, the
`stopping` flag, the call of the model, the answer.  A model call may return,
fail, panic, be cancelled or never return.  The host's submission is two steps
(auxiliary context, then send), its shutdown three (signal, close, wait).  A
screen reader is a thread per handle that outlives its handle.

### HostLoop

A turn is a sequence of phases: any number of events, the outcomes of the worker,
the tick, the poll of the system, the policies in the order of the code,
the edges with the status of the turn, the submission, the pump.  The system
(secure input, permission) and the worker (readiness, failure) change at any
time; the changes are left out only of phases after which nothing reads them.
Epochs are not counted: a request outside the engine is of the present epoch or
stale.  Two history variables serve the properties: `dark` (secure input is on
since the edge that saw it) and `outlived` (the queued request was kept when
its epoch ended).

### FieldTracker, MemoryStore and TypedMemory

`FieldTracker` is the tracker of `wiring.rs`: `Observe` compares a read with the
baseline, `ApplySelfInsert` adds a write of the host to it, and a flag absorbs
the next read when the application may have changed what was written.  A text
is a sequence of units, and a unit tells who wrote it (the user, the host by
setting the value, the host by key events), so that the properties can say of
every record whose text it is; the code does not look at that mark.
`MemoryStore` has the table with its cap, the modes of collection, the ring of
each application and the ring they share; encryption leaves no trace in it.
What SQL's `DELETE` and `SELECT` and Rust's `retain` keep of a sequence is `Only`.

`TypedMemory` puts both in the turn: a report of focus, caret or accept is
handled against the tracker, an insertion waits in `pending` until the turn's
policy is known, is put together in a buffer up to a blank, and stored.  The
user changes modes and permissions (with saves that may fail), erases an
application, a domain or everything, and the process restarts with the table
and without the rings.  History variables number the runs and the erasures.

### AxWorker

The worker takes one message at a time; `rebind` is the program counter of the
rebind poller, which prepares an observer and waits for the worker's answer;
the safety poll asks the worker what is focused and compares it with `memo`;
the dispatcher calls the subscriber, whose gates are those of
`subscribe_focus`.  The user switches and moves the focus at any point, macOS
may lose a notification, each accessibility call may fail, and the
subscription is cancelled or the worker stopped in the middle.  `retained`
counts the references the callback took.  The references of messages that are
still in the channel when the worker stops are given up on purpose (the
comment at ax_worker.rs:1676), and the model says so.

### ModelDownload

A file is a sequence of units, and a digest is equal when the sequences are.
One action per unit of the body, per file operation and per answer of the
server; the part survives failures and crashes, a power cut also loses what was
not synced.  The server may serve another version, ignore or misquote a range,
cut a body short or send too much.  The host's phase consumes a click before it
reports the outcome, as the code does.

## 3. The runs

States are distinct states.

| Run | States | Checks |
|---|---|---|
| `machine` | 133,584 | the machine's invariants, previews, refinement of the contract |
| `engine` | 674,752 | screen, key and machine agree; nothing is left behind; the statistics the host drains |
| `accept_tap` | 416,488 | the suggestion on screen keeps its keys and its action; the keys are given back |
| `x11_tap` | 861,243 | keys are grabbed for the suggestion on screen; what is heard was eaten; the keyboard is given back |
| `host_queue` | 129,787 | keys kept; pruning; coalescing |
| `inference` | 642,067 | context belongs to its request; order; service; shutdown |
| `host_loop` | 239,034 | queued request, vetoes, disable and secure edges |
| `typed_memory` | 2,498,966 | whose text is remembered, whole runs, erasures, modes |
| `ax_worker` | 141,482 | references, observers, rebinding, first visits, teardown |
| `model_download` | 206,544 | the published file; every request ends; retries |
| `late_permission`, `app_returns` | | findings, see section 6 |

### What they show

**machine.**  What is on screen belongs to the machine's field, caret and stamp
(`ShowingIsCurrent`); a field silenced by Esc or blocked by its capabilities
neither shows nor asks (`SilencedIsQuiet`), though `on_completion_ready` checks
neither; a debounce or completion request is for a text that passed the gates
and is still the text (`CompletionForCurrentText`); what an accept commits is
what the preview announced (`PreviewIsCommitted`), on which the echo detection of
the host rests; no answer is presented but the one awaited, and only one of
debounce, request and suggestion is live (`ImplementsContract`).  `TypeOK` says
more than types at one place: the index of the candidate and the length a
replacement deletes stay in range.

**engine.**  Between calls a suggestion the machine holds is painted
(`ShownIsPainted`) and the key is armed for it, with no delayed disarming pending
(`KeyFitsSuggestion`); it is armed with the suggestion's own action, unless a delayed
hide came between the two calls that arm it, the one case in which it has the full
accept.  Without a suggestion nothing is painted or armed but what the platform
refused to take down (`NothingLeftBehind`).  An accept tells truly whether it wrote (`CommitIsReported`)
and writes only what is painted (`WritesOnlyWhatIsPainted`).  As long as the
buffer is below its cap the drained statistics read Shown, Superseded, Shown ...
with one Shown per suggestion and one Superseded per suggestion that something
replaced (`StatsTellOneLifecycle`), and a placement that fails takes back its own
Shown and no other (`FailedShowRetractsItself`).

**accept_tap.**  The suggestion on screen has the keys of its own arm, from the
keymap in force, and a ghost answers to the full accept, whatever late hide,
late teardown or failed rebind comes in between (`NewestStaysArmed`); keys are
given back when nothing is shown (`KeysAreReleased`).

**x11_tap.**  Until the tap is dropped keys are grabbed only while an action is
armed, under the plan by which the next key is decided, and a suggestion on
screen keeps them whichever deadline of an earlier one passes
(`KeysFollowSuggestion`); a key the engine hears of was eaten, also when the tap is
dropped while the key is resolved, unless the watchdog came in between
(`ControlsWereEaten`); no key stays frozen, and
what nothing on screen answers to is given back (`KeyboardIsGivenBack`).

**host_queue.**  Accepted keys are never lost (`KeysAreKept`); a dropped focus
takes exactly its own carets along (`PrunesItsOwnCarets`); what coalescing drops
the engine could not have noticed (`CoalescingIsInvisible`).

**inference.**  The screen cell holds only text of a live reader
(`CellIsOfLiveHandle`), a prompt only the screen text of its own request and no
clipboard older than its request (`PromptIsItsOwn`); answers come in the order of
the requests (`AnswersInOrder`); the newest request reaches the model unless a
newer one or the end of the worker forestalls it; a shutdown ends, and reports a
clean one only after the model is down (`ServesUntilShutdown`, of three named
parts).

**host_loop.**  The queued request is the one the engine waits for
(`LatestIsAwaited`), but for one case named in the property; where preferences
forbid suggestions nothing is shown and no usable answer is on its way, and
after the loop saw completions disabled no earlier answer can come back
(`VetoedIsSilent`); from the edge of secure input to its end nothing is shown,
asked or queued (`SecureIsDark`); what that edge blocked is unblocked after it
(`EdgeIsUndone`).

**typed_memory.**  What the host wrote by setting a field's value is never
remembered as typing, nor what the application made of it (`EchoIsNotTyping`); a
monitored record is all that was typed between two blanks, no part of a longer
run (`RecordIsWholeRun`); an erasure is complete in the table, both kinds of ring,
the queue and the buffers, and nothing is filled again from a place that was
missed (`ErasedIsGone`); the open store always follows the mode in force, after
a change whose save failed too (`ModeIsKept`).

**ax_worker.**  Every reference taken by the callback is given back once, and
no observer is registered that no binding owns (`NothingLeaks`, of two named
parts); when the user stays in an app its observer gets bound
(`BindingFollowsTheUser`), the first visit to an app is told to the subscriber
also when macOS loses the notification (`FocusIsTold`), and cancelling or
stopping ends every thread, the poller that waits for the worker included
(`TeardownEnds`).

**model_download.**  The published file is the pinned one, and the configured
path names it (`PublishedIsPinned`), with power cuts between the last byte, the
sync and the rename; a tracked request reaches a terminal state (`TrackedEnds`);
a user who keeps asking gets the file once the server serves it, whatever the
earlier attempts left in the part (`RetriesSucceed`).

### Bounds, and why they are enough

- `machine`: two fields (a foreign field is one other field; the fields are
  symmetric), an empty text and one of two characters that passes or fails each
  trigger gate with the caret, carets 0 to 2, snapshots 0 to 3 (a request of an
  earlier epoch, of the present one, and two epochs later), a clock of two
  readings with a debounce of 1, candidate lists of one and two members and of one
  and two words, so that cycling, partial accepts and both ends of a list happen.
  The statistics buffer holds one event, so it overflows and is drained.
- `engine`: two symmetric fields, no clock and one caret position (the machine's
  run covers both), a delayed disarming left by synthetic keys, failures
  anywhere, and room for the two statistics that replacing one suggestion by
  another records; snapshots 0 to 4, which is what it takes to show a correction
  while a disarming left by an earlier accept is still pending.  At most one
  disarming is pending: a second makes the first old, and the tap with its
  threads and generations is `accept_tap` and `x11_tap`.
- `accept_tap`: two keymaps, so a rebind and its reversal; generations and
  arms bounded so that two suggestions and the delayed hides of both overlap
  with a rebind.
- `x11_tap`: two shows (a hide of the first scheduled while the second is armed),
  two inputs out of keys, rebinds and changes of layout (two keys, of which the
  second may get the answer to the first; a rebind that meets a change of
  layout; a key under a plan that is being replaced), and the drop; two X events
  and controls under way, so that a key waits behind a change of layout.
- `host_queue`: a cap of 4 and batches of 3, so that an overflow may find a focus
  and its carets, a batch ends in between, and two fields so that one field's
  carets must survive the other's pruning; 6 reports overflow the queue twice.
- `inference`: two readers (the dropped and the respawned one), three
  requests (one in the call, one superseded, one newest).
- `host_loop` needs none: its state is finite.
- `typed_memory`: three insertions by the user are what it takes to outgrow a
  buffer of two and to end the run afterwards; one accept, one change of mode,
  permission, app or page (or a read that fails), one erasure, one field that takes insertions as keys
  and one that is set; a table and rings of two, so that the oldest go.
- `ax_worker`: two apps with two elements each, two moves or switches of the
  user (away and back), one failing call, a channel of two messages besides
  those the worker owes an answer.
- `model_download`: a file of two units, an older one of one unit, one beyond
  every ceiling, a leftover part of four; the server changes its file twice, two
  crashes or power cuts, three faults (two of them in one attempt, and one in
  the retry).

The bounded counters (snapshots, generations, arms, reports, stamps, the
budgets of users and faults) are guards on the actions that would exceed them,
so some runs end in states without a successor and switch deadlock checking off
(`x11_tap`, `host_queue`, `inference`, `typed_memory`, `late_permission`, `ax_worker`,
`app_returns`).  In the proofs the same constants are all of `Nat`.

### Fairness

- `accept_tap`: the host finishes a call it began and each sleeper wakes (WF);
  the teardown on the main queue is SF because it runs whenever the loop
  pumps, once per turn, and the host keeps turning.
- `x11_tap`: each thread is weakly fair, the host within a call it began; time
  passes, so a deadline that is set passes or is cleared; the server closes the
  connection when its last user has gone.  Calls, keys and changes are not fair.
- `inference`: the worker's thread, a send begun and the shutdown's timer are
  weakly fair.  A model call need not return; `NewestIsServed` assumes that it
  does and says so in its formula.
- `host_loop`: the loop turns for ever (WF of `Turn`; a batch of events is
  finite), and time passes, so that the throttled poll asks again and again
  (SF of `Poll`).
- `ax_worker`: the worker, the pollers and the dispatcher are threads, so each is
  weakly fair; the user, macOS's notifications and failures are not.
- `model_download`: the worker and the loop are weakly fair (every read of the
  body has a time limit, so it ends or fails), and after one of the bounded
  crashes the user starts the program again; the server, crashes and clicks are
  not fair.  `RetriesSucceed` names its premises in its formula: the server
  serves the pinned file from some time on, and the user asks again and again.

Each property has a mutant in `PROJECT.json`: a plausible bug in one definition
that its run then catches.

## 4. What is proved

For every value of the constants that satisfies the assumptions.  They are that
the first keymap, layout and version are among those there are, that bounds are
numbers (and the caps of the queue and the statistics at least 1), that a
catalog file is a sequence that is not empty and fits under its ceiling, as the
catalog's own tests have it, that the names of applications and of domains are told apart, and that
`None` is outside the types it is an option of (`NoField`, `NoDomain`, `NoApp` and
`NoElement` likewise).  `None` stands for Rust's `Option::None`, which is no value of the type
it wraps, so the last kind says nothing about the code.

Every proof has the same shape: an inductive invariant, which TLC checked on the
run's instance before it was proved; one lemma for each of its conjuncts that
one group of actions disturbs; one theorem per property, read off from it.

**Engine_proofs, the machine.**  `TypeCorrect`; the safety invariants of the
machine, `ReplacementInBounds` among them (a replacement deletes only text left
of the caret); `AnswersAreUsedOnce`; `MachineImplementsContract`, the refinement of
the contract.  The invariants are not inductive one by one: that a completion may
be shown without testing `suppressed` or the capabilities rests on the request
being of the present epoch and on the epoch ending with everything that
suppresses or blocks.  `Inductive` adds that fact (`RequestIsCurrent`) and takes
all of them together.  `PresentedAlone` and `NothingLeftNext` are the two ways a
handler ends, and most cases of the step reduce to one of them.
`StreamTellsOneLifecycle` and `FailedShowsRetractThemselves` are about the statistics.
They need what the buffer and the machine know of each other (`StatInv`): the
events alternate (`Paired`), the last one, drained or not, is a Shown exactly
when a suggestion is on screen (`LastIsShown`), and while a show may still fail,
the event a failure takes back is its own and the last (`RetractsLast`).  Each
holds only until the cap drops an event (`lost`).  `PreviewsAreCommitted` is the
promise the host's echo detection rests on; it needs no more than types.

**Engine_proofs, the engine.**  The five safety properties of the run `engine` that are
about the platform; the two about the statistics are proved of the machine alone.
The machine's types are carried over by `EngineStepsMachine`.
`EngineInvariant` strengthens the properties to
the middle of a dispatch: what is still in `todo` accounts for every difference
between the machine, the screen and the key, and no more than one show is under
way.  A show cut at the calls that arm the key adds two forms of `todo`:
`Storing` (painted, not yet armed) and `Revealing` (armed, a late hide may have
taken the action back).  One lemma per step: `CallKeeps`, `FailKeeps`, `ExecuteKeeps`, `TimerKeeps`.

**Reports_proofs, the queue.**  `QueueTypeCorrect`, `QueueKeepsKeys`, `QueueKeepsOrder`,
`QueuePrunesItsOwn`, `QueueCoalescesUnseen`.  The pruning looks at positions, the property at the focus
a caret was reported after; that they agree needs three facts: numbers are
unique and the batch is older than the queue (`Numbered`), a caret knows the
newest focus of its field before it (`Linked`), and a focus stays in the queue as
long as any older report does, since the oldest goes first (`OldestGoFirst`).
That coalescing is not noticed rests on one fact about finite sets of numbered
reports: whatever is dropped has a newest report of its run behind it that stays
(`NewestExists`, `LastReadsRemain`).

**Reports_proofs, the worker.**  `NothingIsLeaked`, for channels of any length.  The
retains are counted message by message: what a send adds to the number of queued
events and what a drain of a burst takes from it are two lemmas about sequences
(`SentCounts`, `ReceivedCounts`).  An observer has an owner because the poller asks
for one at a time: while an installation is queued the poller waits for it and has
prepared nothing (`AsksOnce`), so the answer overwrites no binding, and a binding
that is not kept is dropped with a removal behind everything queued
(`DropKeeps`).  A worker that has ended has no observer left (`EndsEmpty`), so
what is sent to it may be lost.

**HostLoop_proofs.**  `QueuedIsAwaited`, `VetoSilences`, `SecureInputDarkens`.  The
invariant (`Quiet`) carries from phase to phase what the properties say at their
ends: a queued request is the one awaited or is named in `outlived`
(`QueuedOnce`), a veto holds from the policy phase on (`VetoHolds`), a turn that
ended with completions disabled left nothing flying (`DisabledIsIdle`), and
while it is dark both samples of secure input agree and the field is not open
(`DarkIsSecure`).  That an armed debounce excludes a request (`PendingIsFirst`) is
what keeps a tick from asking for a second one.

**Inference_proofs.**  `DroppedHandlesAreSilent` (no reader that was dropped
leaves its text in the cell), `PromptsAreTheirOwn`, `AnswersFollowRequests` (an
action property), `CleanShutdownIsTornDown`.  The cell rests on one fact about
the readers: only the live one can be active (`OnlyLiveIsActive`).  The prompts
rest on the order of the requests: the channel is in order and newer than what
the worker has in hand (`ChannelInOrder`, `HandIsBetween`), so a clipboard that
is as new as what was last sent is as new as what is answered (`ClipboardIsNewer`);
and a screen text is taken only if its stamp is the request's
(`TextIsItsOwn`).  An answer is then newer than the one before it.

**AcceptTap_proofs.**  `ShownKeepsItsKeys`.  The property speaks of a call that has
ended; the invariant (`ShowProceeds`) says how far a show has got, step by step:
the first setting of the action may be undone by a delayed hide, but the stamp
that follows makes every sleeper old (`Stale`), so what the second setting arms
stays (`Kept`, `Armed`).  Around it: a sleeper never bears a stamp that is still
to come (`SleepersAreOld`), the tap's arm is none of those being torn down
(`ArmsAreFresh`), and the registry holds the tap's own keys (`OwnKeys`).

**X11Tap_proofs.**  `KeysAreTheSuggestions`, `HeardKeysWereEaten`.  The grab follows
the action at every step (`GrabFollowsAction`).  `ShowProceeds` is again the
progress of a show, with deadlines in place of sleepers: once
`set_suggestion_visible` has unset the scheduled hide, only a deadline of the
suggestion's own takes its action (`excused`).  For the keys: at most one is
frozen, the event thread holds the one it answers (`HandHasKey`), and until the
drop a replayed key is the one it is about to leave unheard (`Replays`).
To prove it for any number of keys the model had to say what `allow_events`
does to a key other than the one it is meant for; see `EachAnswerIsItsOwn` in
section 6.

**ModelDownload_proofs.**  `OnlyPinnedIsPublished`, `DoneMeansPublished`.  What has
the published name is always whole and on disk: nothing, a stub an earlier release left,
or the pinned file (`DestIsKnown`), because a part is renamed only when it
verifies and is synced (`VerifiedIsPinned`), and a file that is wholly on disk
survives a power cut as it is.

**TypedMemory_proofs.**  `EchoesAreNotTyping`, `RecordsAreWholeRuns`,
`ErasedStaysGone`, `ModeStaysKept`, read off from `MemoryInvariant`.  The invariant
follows a unit of text from the field to the table.  `Read`: the next read of a
field adds to the baseline only what was typed, or the baseline's flag says that it
is an echo.  `Waits`: what is queued was typed, and a buffer holds all of the
current run, or is marked as dropped because the run outgrew it.  `Kept`: rows and
rings hold whole runs, and nothing older than the last erasure of its application
or domain.  Erasures are numbered by eras, so one that misses any of
the five places breaks it.  The model folds sequences of any length (a flush is a
fold over the queue, a ring is filled by one).  What a fold keeps is proved
by induction on the prefix it has consumed: the induction theorems of the library take an
operator, so `NatSets` restates the principle for sets, from the well-foundedness of
`<`; `FoldExists` and `FoldStays` build on it, and each fold of the model has a lemma
that names what it keeps (`OnlyKeeps`, `RingsFill`, `TablesFill`, `FlushKeeps`).

`OneSourceAtATime`, `AnswerUsedOnce`, `ReplacementInBounds`,
`CleanMeansTornDown`, and the types and `KeysInOrder` of the queue are proved
and not checked by a run of their own.

Only model-checked:

- Liveness (`KeysAreReleased`, `KeyboardIsGivenBack`, `ServesUntilShutdown` but for
  its part `CleanMeansTornDown`, `EdgeIsUndone`, `BindingFollowsTheUser`, `FocusIsTold`,
  `TeardownEnds`, `TrackedEnds`, `RetriesSucceed`): fairness and `ENABLED` are out of
  the prover's reach.

## 5. The plan

The order is that of the harm a mistake does to the user's text, then to the
user's privacy, then to the user's disk.

| Step | Modules | Abstract specification, properties | State |
|---|---|---|---|
| 1 | `SuggestionMachine`, `SuggestionContract` | refinement of the contract | done, proved |
| 2 | `Engine` | screen, key and field agree with the machine | done, proved |
| 3 | `AcceptTap` (macOS) | the keys follow the suggestion | done, proved |
| 4 | `HostQueue` | a queue that may lose reports and never keys | done, proved |
| 5 | `ScreenOcr`, `Inference` | a worker that answers the newest request with its own context | done, safety proved |
| 6 | `HostLoop` | silence where policy asks for it | done, safety proved |
| 7 | `FieldTracker`, `MemoryStore`, `TypedMemory` | an echo is never typing; what is remembered is whole, permitted and erasable | done, proved |
| 8 | `ModelDownload` | the published file is the verified one; crash and retry at each step | done, safety proved |
| 9 | `AxWorker` | one observer on the app in front; what is retained is released; what has focus is told | done, safety proved |
| 10 | `X11Tap` (platform_linux) | the same promise as `AcceptTap`, with a watchdog that thaws a frozen keyboard and a grab that follows the action | done, safety proved |
| 11 | the caret subscription (`AxWorker`), key rotation (`MemoryStore`), `Stats`, `Settings` | a debounced caret read; the rewrite of a settings file; the counters under a clock that goes backwards | later |
| 12 | compositions | `HostLoop` over `SuggestionContract` by refinement; `AcceptTap` as the tap of `Engine` | later |

Each is checked at the size of the runs above, and every safety property a run checks
is proved.

## 6. Findings

Two runs violate the statement of a comment; the quotes are in `PROJECT.json`.

| Run | What happens |
|---|---|
| `late_permission` | Permission granted by the Apps pane or the menu does not clear what waits: text typed earlier in the turn, while collection was off, is stored. |
| `app_returns` | The safety poll's memo outlives the visit to another app: the field the user returns to reads as already announced, and the subscriber keeps the other app's field. |

Thirteen more are stated as formulas in their modules, under the comment or test they
contradict.  To see one, list the formula under `INVARIANTS` or `PROPERTIES` of the
configuration named.

| Formula | Configuration | What TLC finds |
|---|---|---|
| `SuggestionMachine!RendersForItsText` | `MCSuggestionMachine` | A partial accept moves the caret without ending the epoch (engine_core 275-277 says every event that outdates the text does): a grammar correction asked for before it is shown for the text after it. |
| `Engine!CorrectionKeepsItsKey` | `MCEngine` | A disarming delayed after synthetic keys fires between the two calls of `set_tap_visible` (engine 212-213): the second defaults the action the first had set, and a correction stands under the full accept (platform 509-511). |
| `AcceptTap!CorrectionLetsKeysPass` | `MCAcceptTap` | A correction shown over a ghost keeps the ghost's keys registered, which are swallowed. |
| `AcceptTap!RestoredKeysAreRegistered` | `MCAcceptTap` | After a failed rebind the second re-arm does nothing: the suggestion on screen has no keys. |
| `X11Tap!CorrectionKeepsItsKeys` | `MCX11Tap` | A deadline that passes between the two calls of a show takes the action back, and the second call arms a correction as a full accept (x11_tap.rs:954-957). |
| `X11Tap!KeysAreHeardOnce` | `MCX11Tap` | A freeze longer than its budget is replayed by the watchdog between the event thread's decision and its answer: the application gets the key and the engine hears of it too (x11_tap.rs:6-12). |
| `X11Tap!EachAnswerIsItsOwn` | `MCX11Tap` | After the watchdog has thawed a key, the event thread's answer to it, sent for CURRENT_TIME, goes to the next key that is frozen: that key is eaten or replayed undecided (x11_tap.rs:1207, 1226-1233). |
| `X11Tap!PlanIsCurrent` | `MCX11Tap` | A rebind builds its plan, a change of layout is handled whole, and the rebind publishes the plan of the old layout (x11_tap.rs:349). |
| `X11Tap!ShowRestartsCap` | `MCX11Tap` | A suggestion shown while the keys of the last are still grabbed does not restart the cap on the grab and may lose its keys at once (x11_keys.rs:103). |
| `HostQueue!NoOrphanCaret` | `MCHostQueue` | A caret report that overflows the queue drops its own focus and stays behind without it (the test of run_loop_tests.rs:10735 overflows with an accept only). |
| `HostLoop!RevivedWhenTrustReturns` | `MCHostLoop` | Secure input that ends while permission is missing leaves the field blocked when permission returns (run_loop.rs:4124). |
| `TypedMemory!KeysAreNotTyping` | `MCTypedMemory` | A read between a synthetic insertion and the moment the field takes the keys spends the echo flag: the insertion is then remembered as typing (wiring.rs:168). |
| `ModelDownload!OutcomeIsLogged` | `MCModelDownload` | A click pending when the worker finishes is consumed first: the outcome is never logged nor its path saved (run_loop.rs:4844). |

Five more behaviours explain why some properties are stated as they are.  To see
one, add the formula to the module and check it in the configuration named.

| Formula | Configuration | What TLC finds |
|---|---|---|
| `retractable => ownShown` | `MCEngine` | At the cap of the statistics buffer a failed placement retracts an earlier suggestion's Shown; hence `~lost` in the statistics properties. |
| `Idle /\ shown = "Correction" => action = "Correction"` | `MCAcceptTap` | A delayed hide that clears the action between the two calls of a show leaves a correction armed as a full accept; hence `NewestStaysArmed` speaks of ghosts. |
| `phase = "pump" /\ ~enabled /\ ~prevEnabled => visible = None` | `MCHostLoop` | "Disable globally: Always" right after a re-enable by hotkey is no edge (run_loop.rs:6784 compares two samples): a local offer stays on screen; hence `VetoedIsSilent` speaks of answers there. |
| `secureNow ~> (~secureNow \/ visible = None)` | `MCHostLoop` | Secure input that ends and returns between two polls is no edge: an offer of the gap stays on screen; hence `SecureIsDark` starts at the edge. |
| `([]trustedNow /\ <>[]~secureNow) => (caps = "secure" ~> caps # "secure")` | `MCHostLoop` | Secure input shorter than the polling interval leaves a field focused under it blocked; hence `EdgeIsUndone` speaks of what the edge blocked. |

Two more have no formula.  The event thread of the tap on Linux gives the keyboard
back if it panics (x11_tap.rs:1156-1170), but leaves the tap active: a later show
grabs keys that no thread will answer, and `frozen_since_ms`, which only that thread
sets, never tells the watchdog.  And the code has no rule that this breaks: an accepted
completion is stored under the domain cached at the last edit, which a navigation
without an edit leaves stale (run_loop.rs:6148), so that an erasure of the page's
domain misses the record.

## 7. What is not modelled

`PROJECT.json` lists every component with its status.  The map covers a small
part of the lines of the repository: about half of them are tests and tables
beside the code, most of the rest is what the models abstract on purpose
(accessibility, D-Bus and drawing calls, wording, parsing, the settings window),
and what is left, the control that decides what is shown, typed, remembered and
fetched, is the part worth a model.

Left out for good: drawing, accessibility and D-Bus calls (I/O without control of
their own), the text helpers and the ranker (pure string functions; the lists,
words and offers they return are inputs of the machine), token sampling, release
tooling, and the Windows adapter, a scaffold that offers nothing.  Left out so
far: steps 11 and 12 of the plan.

Within the modelled components:

- `Engine`: the geometry of anchors and the mirror mode.
- `AcceptTap`: the always-on shortcuts and the adapter's own shutdown.
- `X11Tap`: modifier masks, the release of a key, the always-on shortcuts (a tap of
  their own), a failed installation, and the death of the event thread by a panic or
  a lost connection.
- `Inference`: prompt texts.
- `HostLoop`: the settings panes and the persistence of statistics.
- `TypedMemory`: the user deleting text; the system acts only between the turns'
  phases that read it, and the read of a text and the read of its page's address
  are one step (the code compares addresses around the read,
  run_loop.rs:5944-5961); the permission of the system; insertions by keys and
  by value meet in one behaviour only across two fields, one accept each.
- `MemoryStore`: encryption and key rotation.
- `AxWorker`: the caret subscription and the jobs of other callers
  (`Message::Run`).
- `ModelDownload`: symbolic links, progress, the licence and memory gates (a
  closed gate is a fault); every catalog entry is pinned, as all of them are;
  renames become durable in the order they are made.
