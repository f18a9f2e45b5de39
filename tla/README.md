# capture-flow: specification and proofs

TLA+ models of capture-flow, a local Hub (Go, SQLite and files) that stores what
browser clients capture, captures URLs itself through a command-line runner, and
runs language-model recipes on what was captured. The modules are translated
from the source at this commit; comments cite `file:line` where a property takes
up a sentence of the code or of its documents. TLC checks them on small
instances; TLAPS proves the theorems listed below for every size.

`PROJECT.json` lists the components, runs, mutants, findings, hazards and
theorems, and maps every definition to the lines it stands for.

## 1. The system

### 1.1 Parts, state, operations

| Part | State | Operations that change it |
|---|---|---|
| Packet store (`internal/store/store.go`, `domain/ids.go`) | one JSON file per revision; table `documents` (document -> latest revision and hash); the mutex `store.mu` that every store call takes | `SavePacketIfChanged` |
| Capture orchestrator (`internal/orchestrator`) | table `jobs`; a pool of workers, each with its own copy of a row; a one-slot wake channel; stop channel | `Submit`, `CaptureSnapshot`, `worker`/`process`, `Close`, `NewWithConcurrency` |
| AI job queue (`internal/ai/queue.go`, `store/queue.go`) | table `ai_jobs`; a pool of workers; wake channel; `enqueueMu` | `Enqueue`, `worker`/`execute`, retry and failure, `Close`, `NewQueue` |
| AI service and dispatcher (`internal/ai/service.go`, `dispatcher.go`) | table `ai_responses` and its files; whether a key is configured | `RunRevision` (queue), `Run` (synchronous `/ai/run`) |
| Runner and adapters (`internal/runner`, `internal/adapter`) | none | `Plan`, `Run` with a timeout, `Normalize` |
| HTTP API and start-up (`internal/api`, `cmd/hub`) | none of its own | `/captures` (ingest, then enqueue), `/jobs`, `/ai/jobs`, `/ai/run`; start and exit of the process |
| Userscript studio (`userscript/packages/ui`) | `busy`, `settings`, `route`, the delayed auto-capture timer | `capture`, settings, navigation callback, `mount`, `destroy` |
| Userscript runtime (`packages/runtime`, `apps/userscript`) | the patch of `history`, last href; shared GM storage | subscribe, dispose, poll; request with privileged fallback |
| Hub client (`packages/hub-client`), CLI (`cmd/capture`) | settings in storage | `saveSettings`, `waitJob`, `capturePage` |
| Chrome extension (`extension/`) | settings | one request per click |
| Web library (`web/src`) | selected document, its packet and results, lists | polling, selection, `runAi` |

### 1.2 How they interact

* Handlers and workers are goroutines. They share the database behind
  `store.mu`, which is held for one store call (in `SavePacketIfChanged` for a
  lookup, a file and a statement). Between two calls anything may interleave.
* A handler stores a row and then fills the wake channel; a worker claims rows
  until there is none and then sleeps in a `select` on stop, wake and a ticker.
* `/captures` first saves the packet and then enqueues an AI job by *document*;
  `Enqueue` binds the job to the revision that is then the latest.
* The process may die between any two steps. `cmd/hub/main.go` ends with
  `log.Fatalf`, which skips its deferred `Close` calls, so in production every
  stop is a crash; `Close` is used by the tests. A new process requeues the rows
  it finds interrupted.
* Clients poll. A request may be sent twice (network fallback), may never be
  answered, and answers may arrive late.

### 1.3 What is hard, and what makes each part correct

| Part | Hard behaviour | Correct when |
|---|---|---|
| Packet store | two writes per packet, either of which may fail, be cut off or be followed by a crash; racing captures; ids from the clock | a row points to a complete file of its own content; receipts stay true; files are immutable; a row never moves to the content it has; every call returns |
| Capture queue | several workers, whole-row writes from a copy, dropped errors, crash between packet and job | one worker per job; stages in order; settled jobs stay; a done job names a revision of its document; no lost wake-up; every job is settled |
| AI queue | concurrent identical requests, claims, retries with back-off, dropped errors, crash in every stage, new revisions meanwhile | no work accepted twice; one worker per row; attempts bounded; a done row names an answer to its own revision; no lost wake-up; every row is settled |
| API | two components in one request; requests sent twice; two Hubs on one directory at start-up | the AI job of a receipt is about its revision or a later one; a resent capture is stored once; no lock order blocks a handler |
| Start-up | the port is tried after the queues work | what a second Hub may cost a row is bounded; done rows still have their answer |
| Adapters | three adapters look for texts in one URL | a web page is read by the adapter of its site, or by the catch-all |
| Polling clients | a Hub that dies, fails or never settles a job; requests sent twice; answers out of order | a call returns, and what it reports is so; what the page shows is right in the end |
| Capture panel | pages that move without a load, other scripts and subscribers, delayed captures, settings of several tabs | every move is noticed; other scripts keep their wrappers; a page the user stays at is captured, and not again and again |

The full list of hazards, each at its line, is in `PROJECT.json`.

## 2. Plan

Done, in this order:

1. `AIQueue`, the most intricate part, with `AIJobLedger`, the abstract
   specification of what it promises, and proofs of its safety and refinement.
2. `PacketStore`, with torn files and a clock that may be coarse.
3. `CaptureQueue`, composed with `PacketStore` (workers and browser captures
   compete for its lock).
4. `Hub`: `/captures` and `/ai/jobs` on top of `PacketStore` and `AIJobLedger`,
   with clients whose connections break.
5. Proofs of the safety of `PacketStore`.

6. `CaptureJobLedger` and `CaptureQueueLedger`: what the capture queue promises,
   and the refinement.
7. `HubProcess` and `HubStart`: two processes on one database between `NewQueue`
   and `ListenAndServe` (`cmd/hub/main.go:71-103`), each with a mutex of its own.
8. `Adapters`, `HubApi`, `CaptureClient`, `WebLibrary`, `HubClients`: what becomes
   of a URL, and the clients that poll.
9. `SpaNavigate` and `Studio`: the history patch and the capture panel.

10. Proofs of `CaptureQueue` and its refinement, of the clients that poll, of
    the panel with the history patch, and of `Hub`.
11. Proofs of two Hubs on one set of tables (`HubStart`).

## 3. Modules

| Module | Role |
|---|---|
| `SqlTable` | a table as a function from keys to rows; `Upsert` |
| `QueueTime` | instants, their RFC3339Nano text order, the retry back-off |
| `PacketStore` | the packet store with browser captures as its callers |
| `PacketStoreInvariant` | its inductive invariant |
| `PacketStoreProof` | theorems and proofs of the packet store |
| `CaptureQueue` / `MCCaptureQueue` | the capture queue; `INSTANCE PacketStore` with workers and browser handlers as callers |
| `CaptureQueueInvariant`, `CaptureQueueProof` | its inductive invariant; theorems and proofs, the refinement included |
| `AIQueue` / `MCAIQueue` | the AI queue |
| `AIJobLedger` | abstract: jobs accepted once, executed one at a time, done only with an answer |
| `AIQueueLedger` | refinement mapping from `AIQueue` to `AIJobLedger` |
| `AIQueueInvariant` | the inductive invariant `IInv` |
| `AIQueueProof`, `AIQueueLedgerProof` | theorems and proofs of the AI queue |
| `CaptureJobLedger` | abstract: a job waits, is worked on, and is settled at most once, done only with a stored packet |
| `CaptureQueueLedger` | refinement mapping from `CaptureQueue` to `CaptureJobLedger` |
| `HubProcess` | the AI queue of one Hub among other processes: a claim is a SELECT and a later UPDATE |
| `HubStart` / `MCHubStart` | a second Hub on the tables of a running one: two instances of `HubProcess` |
| `HubStartInvariant`, `HubStartProof` | its inductive invariant; theorems and proofs |
| `Adapters` | what becomes of a URL and of the output of opencli |
| `HubApi` | the Hub as clients that poll see it |
| `CaptureClient` | a call of the command line or of `capturePage` |
| `WebLibrary` | the web page |
| `HubClients` | both on one Hub |
| `HubClientsInvariant`, `HubClientsProof` | its inductive invariant; theorems and proofs |
| `SpaNavigate` | the shared patch of `history` and its subscribers |
| `Studio` | the capture panel of one tab, on `SpaNavigate` |
| `StudioInvariant`, `StudioProof` | its inductive invariant; theorems and proofs |
| `Hub` / `MCHub` | the HTTP handlers of captures and AI jobs with their clients; `INSTANCE PacketStore` and `INSTANCE AIJobLedger` |
| `HubInvariant`, `HubProof` | its inductive invariant; theorems and proofs |

The `MC` modules only add the symmetry set; the `.cfg` files give the constants.
Definitions marked "Mutant" in a module are deliberate slips that stand beside
the definition they would replace; `PROJECT.json` says which property catches
each.

### 3.1 Packet store

`files` is the directory `packets/`, `documents` the table, `mu` the holder of
`store.mu`. A capture (`Begin`) reads the clock and builds its packet; then
`Lookup`, `WriteFile` and `WriteRow` are the three statements of
`SavePacketIfChanged`, and `Take` (in `Reply`) hands the result to the caller.
`LookupFault`, `WriteFileFault` and `WriteRowFault` are their error returns;
`os.WriteFile` truncates before it writes, so a failed write or a crash inside
it may leave a file that is not `whole`. `mu` is taken at `Lookup` and released
by the step that returns; a lookup that finds the same hash takes and releases
it in one step.

`RevisionID` is the clock. With `FineClock = TRUE` every reading differs from the
one before, which is what the code counts on; with `FALSE` the clock moves only
with `Tick` (at most `MaxClock` times), as on a platform with a coarse clock.
`ContentHash` is a SHA-256 text and never empty, so the condition `hash != ""`
always holds.

### 3.2 Capture queue

`jobs` is the table, `held` and `job` are the id a worker claimed and the copy it
works on, `wpc` its place in `worker`/`process`. Each `SaveJob` of `process` is
one step that writes the whole copy or, when the call fails, nothing; the worker
goes on either way. `Run` chooses success, failure or timeout; `Normalize`
chooses the document and hash the adapter extracts and reads the clock;
then the worker is a caller of the packet store. Every store call of the queue
needs `mu` free, so it can also be delayed by a packet being written. The trace
and the adapter name are left out. `code = "none"` is the empty error code of a
job that was not settled.

`Close`, `Crash` and `Restart` model the process. A `Close` uses up one unit of
`MaxCrashes`. `NewWithConcurrency` fills the wake channel after it started the
workers; the model fills it at once, which can only wake a worker that has
nothing to lose. Handlers of `/jobs` go on while the queue closes, as in the code.

### 3.3 AI queue

`aiJobs`, `responses`, `documents` and `packets` are the tables and files.
Captures are reduced to their effect: a revision file is written and the
document points to it (or the statement fails); the detailed writes are in
`PacketStore`. The set `Rev` is finite, so a revision id may come again, which
is the collision of a coarse clock.

A handler is `EnqueueRead` (lock, `NormalizeRequest`, load the packet),
`EnqueueFind`, `EnqueueSave`, `EnqueueNotify`. A worker is `Claim` or `NoClaim`,
`LoadPacket` or `LoadError`, `CallModel`, `SaveResponse`, `Finish`, `Retry` or
`Fail`, and `WakeUp`, `TickerFires` or `StopWorker` in its select. Every step
that calls the store has a faulty variant with exactly what the code does with
the error: `NoClaim` takes it for an empty queue, `FinishFault` and `SettleFault`
drop it, `LoadError` calls it `not_found`.

`configured` is chosen anew at each start: a Hub may be restarted without a key.
`MaxAttempts` is the same at every start (the code stores it in the row). A
response is named by its row and attempt instead of a uuid. Recipe and model are
one value, because only their equality matters. `priority` is always 0 in the code
and left out.

### 3.4 The ledgers

`AIJobLedger` is what a caller of the AI queue may rely on: a piece of work (a
revision under a recipe and model) has at most one job that is not failed; a job
waits, runs, and is done with a recorded answer to its own work, or is given back
or given up; done and failed jobs never change. `AIQueueLedger` maps `queued` and
`retry_wait` to waiting, the table to the ledger's jobs and the responses to its
answers.

`CaptureJobLedger` is what a client that polls `/jobs/{id}` may rely on: a job
waits, is active, and is settled once, as failed or as done with a packet; packets
appear and stay. `CaptureQueueLedger` maps the four stages between the claim and
the end to active, the document and revision of a done row to its packet, and the
complete files to the packets. That a worker writes whole rows from an old copy,
that the store may answer with a revision older than the worker's own, and that
every error of `SaveJob` is dropped, all stay invisible behind it.

### 3.5 Hub

`waiting` is the request a client of `packages/hub-client` waits for, `network`
the requests on their way, `serves` and `hpc` the request of each handler and its
place in `handleCapture` or `handleAIEnqueue`. `Drop` is a connection that breaks
while the Hub is well: the request may be lost, on its way, or being served.
`Reset` is a connection whose process died. Both end `fetch` with an error, and
the userscript host then sends the same request once more on the privileged
channel (`Breaks`); when that fails too, the capture fails.

The handler of a capture is a caller of `PacketStore`; after `SnapshotReturns` it
answers or, with `auto_ai`, goes into `Enqueue`: `EnqueueRead` takes `enqueueMu`
and reads the latest revision of the document, `EnqueueReuse` or `EnqueueAccept`
find or insert the job. Any error of `Enqueue` (`EnqueueNotConfigured`,
`EnqueueNotFound`, `EnqueueFault`) leaves the capture stored and the answer
without a job. The queue behind it is its abstract specification: that the real
one implements it is `Implements` of `AIQueueLedgerProof`. `Ask` is a request of
`/ai/jobs`, from whatever client.

A row of `ai_jobs` is named by the order in which rows are made instead of a uuid.
All requests ask for one recipe and model. Requests that do not parse, or have no
content, end before they reach any state and are left out. `written` and
`replies` are history: the rows of `documents` in the order they were written,
and the answers to captures that were stored, whether a client still waited for
them or not.

### 3.6 A second Hub

`store.mu` is a mutex of one process, and no SQL transaction joins the SELECT and
the UPDATE of `ClaimNextAIJob` (`store/queue.go:231-262`). In one process nothing
comes between them, so a claim is one step of `AIQueue`. `HubProcess` takes it
apart: `Select` remembers in `reading` the row it found and the attempts it read,
and `Update` takes the row, whatever became of it, if it is queued or in
`retry_wait` at that moment. The UPDATE does not look at the due time again, and the
worker counts on from the attempts it read (`job.Attempts++`), while the table
counts its own. The other calls are single statements and stay one step; those of
the same process wait while a claim is between its two.

`HubStart` gives the second process its own copy of everything volatile and lets
both work on one set of tables. `SecondStarts` is `main` up to `NewQueue`, which
requeues the rows the first process is running; the workers of the second run
(`SecondWorks`) until `BindFails`. Nobody can reach its handlers. The first process
neither crashes nor closes here. Five promises are lost while two processes work,
and no property states them: `ExclusiveExecution`, `TerminalIsFinal`,
`UniqueLiveJob` (the first Hub may fail a row and accept its work anew, while a
worker of the second, which holds the row as well, then retries it),
`RunningWithinConcurrency`, and `RetriesAwaitTheirSecond` (one process selects a
queued row, the other claims it and puts it off, and the UPDATE of the first takes
it at once). What is left is checked and proved (6.7): a done row still names an
answer to its revision, and a row is sent to the model at most `MaxAttempts` times,
once more for every start, and once more in all for a claim by an outdated copy.

Two claims by outdated copies may count the same attempt, and their responses then
have one name in the model; both are made for the revision of the row, which is all
that is said of them. Two statements that meet inside SQLite are not modelled: they
wait for each other or fail, and a failing statement is among the steps.

### 3.7 The clients that poll

`Adapters` sorts URLs by what the adapters look at and gives, for each, the
adapter, the plan, and the outcome for each kind of output. `ErrorsOf` are the codes
`process` may end with: a packet that was made is stored or refused by the store
(`store_failed`), which the output does not tell. `no_command` stands for the `runner_failed` of a plan without
arguments, where opencli is not even started. That the fake runner of `-fake-runner`
replaces all this is left out.

`HubApi` is what a request reads or writes, one step per request, on a ledger of
capture jobs with their URLs, the documents and a ledger of AI jobs. An answer is
`Error` or a value. Its own steps settle jobs, or do not: nothing says that a job
is ever taken up. A row is numbered by the order in which rows are made, and
`JobList` is the newest `ListLimit` of them; that instants of one second may sort
otherwise as texts is left to `CaptureQueue`.

A call of `CaptureClient` waits in `cpc` (create, poll, sleep, doc, ai), its request
is in `link` and `reply`. `Break` is a connection that breaks, `Serve` and
`ServeFault` the Hub, `Refused` an answer that is an error. `Resends` says when the
userscript sends again; the command line never does. `strays` are posts whose
caller does not wait for them any more. A broken body (`userscript-host.ts:51`) is
not a network error, so it ends the request.

`WebLibrary` keeps the requests of the page in `flight`, in slots: each is answered
by some step of the Hub and applied by some later step, so answers overtake each
other freely. `loading` is the slot of the latest `loadDoc`, as `docLoadSeq` tells
it. The tabs "activity" and "capture" of the page are one, because the capture form
turns to the list. One job is done when the page is opened (`Earlier`). To the page, a Hub
that is down is a request that fails.

### 3.8 The capture panel

`SpaNavigate` writes a function of the page as the sequence of wrappers around the
native one. `Push` is a call of `pushState`; `Slip` is every other way a URL
changes: a link, back and forward, or the native function that a script has kept.
`Check` stands for all events and for the timer. `Wrap` and `Unwrap` are other
scripts, which may put back whatever they had found; `cut` remembers that our
wrapper was lost that way.

In `Studio` a handler is one step up to an await that does not continue at once.
Writes of settings continue before the next event of the page, so `Persist` is one
step; a capture has three: `Begin`, `Extract` after the settings are stored, and
`Settle` when the request ends. `Extract` reads the text of the page and names it
(`SnapshotUrl`) by the canonical link, when there is one, and else by the URL of the
route; a page without text ends the capture. `canonical` is that link, which scripts
of the page change when they like (`Relink`), or leave as it was on the page before. `on` is the checkbox, and the copy of the setting
the tab decides by; `stored` is what all tabs share. `seen`, `surplus` and
`handled` are history for the properties.

## 4. Runs

| Run | Question | Bounds |
|---|---|---|
| `aiqueue_safety` | types, no duplicate work, one owner, attempts, retries, wake-ups, orphans, the refinement of the ledger | 2 rows, 2 workers, 2 handlers, 2 recipes, 1 document and revision, 2 attempts, 1 crash, 1 fault |
| `hubstart` | attempts and answers while two Hubs work on the tables | 1 row of 1 document and revision, 2 workers in the first process and 1 in the second, 1 handler, 3 attempts, 1 start of the second Hub, 1 fault |
| `aiqueue_progress` | every row is settled, `Close` returns, no retry starts before its second | 2 rows, 2 workers, 2 attempts, 1 crash, closes without bound, 2 instants in a second, of which one passes freely |
| `packetstore` | readable pointers, true receipts, immutable files, no repeated revision; every capture returns | 3 captures of 2 documents and 2 hashes by 2 callers, 1 crash, 1 fault |
| `capturequeue_safety` | types, one worker per job, orphans, wake-ups, order between seconds, the refinement of the ledger | 2 jobs, 2 workers, 1 document (both jobs capture the same page), 1 crash or close, 1 fault |
| `hub` | AI job of a receipt, resent captures, locks of the handlers | 1 client and 2 handlers, 2 requests and their resends, 1 document and 2 hashes, 1 broken connection, 1 crash, 1 fault |
| `capturequeue_progress` | every job is settled | 1 job, 1 worker and 1 browser capture over 2 documents and 2 hashes, 1 crash or close |
| `hubclients` | web pages are read by the right adapter; what a call reports; jobs per call; calls return; what the page shows settles | 1 call of either client for any URL and 1 capture by others and 1 crash, or the page with 2 documents, 1 earlier job, 2 requests under way, 1 job of its own and a list of 1 job; 1 failing request |
| `browser` | moves are noticed, foreign wrappers stay, fresh snapshots, few and enough auto-captures | 2 URLs and 3 moves, 2 subscribers and 2 subscriptions, canonical links to 1 URL, changed at any time, 1 foreign wrapper, 1 change of the checkbox, any number in other tabs |

Why this is enough: the properties speak of at most two rows, two workers or two
callers at a time, and the second crash or fault meets the same states as the
first, because a crash forgets everything volatile and a fault leaves no trace
but the row it did not write. For safety, the proofs remove the bounds altogether.
One worker in `capturequeue_progress` is the hard case for progress: a job that is
left behind has nobody else.

`hubstart` has one row, because a claim and what overtakes it are about the same
row, and three attempts: with them a row is claimed as often as `AttemptsWithinStarts`
allows, with two it is not. In `aiqueue_safety` there is one document and revision, and
what tells two pieces of work apart is the recipe; that a row of one document is
never answered for another is shown by the theorems only (`DoneIsAnswered`,
`DoneIsAnsweredByEither`).

`MaxClock` bounds the instants that pass while nothing needs them. In
`aiqueue_safety` and `hubstart` it is 0: time then passes only while a retry is not
yet due (`Tick`), which keeps the state space finite and still lets every retry
become due. In `aiqueue_progress` it is 1, with two instants in a second, so that a
claim may come at either of them. In
`capturequeue_safety` it is 0 as well, because submissions and packets move the
clock themselves; `TicksPerSecond = 2` makes two submissions fall into one second
or into two. The symmetry sets of the `MC` modules are used in safety runs only.
Deadlock is checked except in the packet store and the Hub, whose runs end when
the bounded requests have been served; there `EveryCaptureReturns` and
`HandlersAdvance` say that nothing blocks before.

In `hubclients` one client is there at a time, since the clients share only the
Hub, and the captures of others are steps of it. The page meets no crash, because
it cannot tell one from a failed request. The user types the URL of a fixture
(`Typed`): the page shows nothing but the phases of a job, and one that waits, runs
and fails has them all but `done`, which is that of the earlier job. Two requests
under way are enough for every pair of answers to overtake each other. With
`ListLimit = 1` the job of the page drives the earlier one out of the list;
`MaxPageJobs = 2` counts both. In `browser` two URLs are enough to leave and come
back, and three moves to do so and leave again. Two subscriptions let
another script subscribe before or after the panel does, and the patch be made twice;
that more of them change nothing is proved (6.6). Deadlock is allowed in both because
the bounds end what a user does.

One client is enough in `hub`: a broken connection leaves its first request at
one handler while the resend, the next capture or a request of `/ai/jobs` is at
the other, so every pair of handlers meets.

Runs that are expected to find a violation show where the code and its documents
disagree:

| Run | What it shows |
|---|---|
| `aiqueue_stuck` | a dropped error of `FinishAIJob` leaves a row running for ever; the statistics exceed the pool |
| `packetstore_newest` | of two racing captures the older revision may stay the latest |
| `hub_receipt_job` | a capture between a saved packet and its `Enqueue` makes the AI job of a receipt bind another revision, so a repeated capture does not reuse the job |

More disagreements are visible in the models and have no run of their own.

In the Hub:

* `SavePacketIfChanged` compares with the latest revision only, so content that
  comes back after a change is stored again, where README.md:29 says that the same
  `content_hash` makes no new revision.
* A dropped error of the last `SaveJob` of `process` leaves a capture job active
  without a worker until a restart, as `aiqueue_stuck` shows for the AI queue;
  `ActiveHasWorker` therefore speaks of states without a failed call.
* Instants are compared as texts whose trailing zeros are dropped
  (`store/queue.go:86, 236-237`). A younger capture job may overtake an older one of
  the same second (`NoLaterSecondFirst` is the order that is left), and a retry may
  start up to a second before `next_retry_at`, where `store/queue.go:226` says that
  it becomes eligible then (`RetriesAwaitTheirSecond` is what is left in one process; with
  a second one nothing is left, see 3.6).
* The queue retries every error while attempts are left (`ai/queue.go:164`), also
  those `Recoverable` calls not recoverable, where `schemas/error-codes.md:35` says
  that only recoverable ones are retried. `Recoverable` in turn counts
  `plan_failed`, although `Plan` looks at nothing but the URL.
* A crash during the last attempt gives an AI job one attempt more than
  `-ai-max-attempts` (`cmd/hub/main.go:38`), because the requeue does not look at
  `attempts`; `AttemptsWithinBudget` is the limit that is left. So does every start
  of a second Hub (`AttemptsWithinStarts`), which also lets two workers run one row,
  and the copy a claim of one process has read may be outdated by the other.
* `RevisionID` is unique (`domain/ids.go:17`) only while the clock moves between two
  readings, which is why the theorems about files assume `FineClock`.
* Ingest and `/jobs` answer every error as 400 `invalid_target`, a failing store as well
  (`api/server.go:159, 195`).
* `zhihu.CanHandle` takes every URL with `zhihu.com` anywhere in it, so a page of
  another site that mentions it fails with `plan_failed` instead of reaching the
  catch-all (`WebPagesAreRead` allows it).

In the clients:

* The auto-capture of a navigation (README.md:79) is dropped when its timer fires
  while a capture is under way, and a request that is never answered, which has no
  timeout, ends all captures of the tab. It is also spent on another page when the
  page has moved without telling; coming back to the first URL is then not heard.
  `StayedPagesAreCaptured` excepts both. A page without text is tried once, and its
  capture fails.
* The text of a page is stored under the URL of its canonical link
  (`core/snapshot.ts:93`). A page that moves without a load and leaves the link as it
  was is stored as the page before it (`SnapshotIsFresh` allows it).
* A capture stores the checkboxes of its tab as they are there, and so takes back
  what another tab has stored since (`Begin`, `OtherTab` of `Studio`). Opening the
  panel reads `autoCapture` again, but does not schedule.
* `capturePage` fails when only `queueAI` failed, although the capture is done; the
  command line and the userscript give up at a failed poll although the job goes
  on. `ReportsAreTrue` says nothing of the report "error" for this reason.
* After a failed `loadDoc` the page keeps the former document under the new
  selection; the list of documents is not loaded again when the Hub is back, where
  `App.tsx:73` promises to reconnect; the badge of the latest AI job is not brought
  up to date in the library. `ReaderSettles` excepts the first.

## 5. Fairness

`Spec` states none. `FairSpec`, used by the progress runs, assumes:

* a goroutine that can run does (weak fairness on each worker, handler and reply);
* `sync.Mutex` starves nobody (its starvation mode hands the lock to a waiter
  after 1 ms): strong fairness on the steps that wait for `store.mu` in
  `PacketStore` and `CaptureQueue`;
* tickers fire, model calls and runner calls return (the HTTP client and the plan
  have timeouts);
* `select` chooses among ready cases at random, so a worker that is again and
  again in its select while the queue closes takes the stop case: strong fairness
  on `StopWorker`;
* time passes, and somebody starts the Hub again after it went down.

Nothing is assumed of the clients of these modules: no request need ever come.
`HubClients` assumes that the Hub is started again and answers what reaches it,
that programs go on and deadlines pass, and nothing of its jobs. The timer of the page
fires again and again: strong fairness, because that all slots are taken at times
is a bound of the model and not of the page. `Studio` assumes that the browser runs
what is due (scripts, the timer of the panel, the polling of the URL), and not that
a request is ever answered.

`EventuallySettled` holds for runs without failing store calls only (`MaxFaults = 0`): with one, the
"stuck" runs show the opposite.

## 6. Proofs

Each theorem is about the `Spec` of its module, without fairness, and for every
value of the constants that satisfies the named assumptions. Each of the
inductive invariants was checked by TLC on the instance of its run before it was
proved.

### 6.1 AI queue

For any finite or infinite sets of documents, revisions, recipes, rows, workers
and handlers, any number of attempts and any bounds on crashes and faults, from
the named assumptions of the module (`PoolAssumption`, `NoneAssumption`,
`BoundAssumption`, and `TicksPerSecondAssumption`).

`AIQueueProof` proves that `IInv` of `AIQueueInvariant` is inductive (`Inductive`)
and derives the safety properties from it. The invariants the runs check are not
inductive by themselves; `IInv` adds what goroutines know between two store
calls:

* `OwnershipInv`: a worker inside `execute` holds a row, every other holds none.
  Without it `ExclusiveExecution` would not survive a settling step.
* `AnswerInv`: the packet a worker sends is that of its row, and before `Finish`
  the answer is stored. Without it a done row could name nothing.
* `EnqueueInv`: one handler is inside `enqueueMu`, and from its lookup to its
  insert no reusable row for its work appears. This is what makes
  `UniqueLiveJob` hold.
* `DownInv`: a dead process has no goroutines, so that a restart finds no owner.
* `PoolInv` is the part of these that a process knows by itself: types, answers and
  the steps of its own workers are proved from it alone, so that 6.7 can use them.
* `RetryTimeInv`: a row in `retry_wait` has a time, so a claim that finds it due is not
  before its second, whatever the texts of the instants look like.
* `BudgetInv`: a row that may be claimed without a granted retry has an attempt
  to spend, unless a crash or a fault paid for it; this strengthens
  `AttemptsWithinBudget`.

Theorems: `TypeCorrect`, `NoDuplicateWork`, `OneOwner`, `DoneIsAnswered`,
`AttemptsBounded` and `AttemptsPaidFor`, `NoOrphan`, `WakeupKept` (invariants), `SettledForGood` and
`RetriesAwait` (action properties: each step that writes a row writes one that is not
settled; each claim of a put off row comes in its second or later).

`AIQueueLedgerProof` proves `Implements`, `Spec => LedgerSpec`: the initial state
maps to the empty ledger, and under `IInv` each action maps to one ledger action
(claim to `Begin`, save of a response to `Answer`, finish to `Complete`, retry,
crash and restart to `GiveBack`, failure to `GiveUp`, the insert of `Enqueue` to
`Accept`) or to a stutter.

### 6.2 Packet store

For any sets of callers, documents and hashes and any bounds, from
`ClockAssumption` and `NobodyAssumption` (`None` is not a caller, a packet or a
result). `IInv` of `PacketStoreInvariant` has two halves.

On any clock:

* `LockInv`: a caller between its lookup and its return holds `store.mu`, alone;
* `CallInv`: a caller inside has a packet, one that returned has a result;
* `ComparedInv`: what the lookup found is still so when the row is written. This
  is what `NoEqualSuccessor` (`NoRepeatedRevision`) rests on: without it two
  captures of the same new content would both write a row.

When no two readings of the clock are equal (`FineClock`, an assumption of the
theorems that need it), `ContentInv` holds too:

* `FreshInv`: every revision id in use lies in the past and belongs to one packet,
  and a packet that is not yet written has no file. Without it a write could
  replace the file of another revision.
* `WrittenInv`: a caller that is about to write its row, or to report success, has
  a complete file with its content.

`Readable`, `ReceiptsKept` and `Immutable` follow. On a coarse clock they all
fail: a second capture with the same id overwrites the file of the first one.

The steps of a caller are proved for any user of the store: `Use` (a step of the
store, a step that leaves it alone, a crash that ends all callers at once, or an
instant that passes) keeps `IInv` (`UseKeepsInv`) and never gives a row an equal
successor (`UseKeepsRows`). The specifications that put other callers on the store
prove only that each of their steps is a `Use`.

### 6.3 Capture queue

`CaptureQueueProof` takes the packet store's proof as an instance whose callers are
the workers and the browser captures: `StoreStep` shows that every step of the
queue is a `Use`, so the store's half of `IInv` costs nothing more, and
`StoreNoEqualSuccessor` and `StoreKeepsPackets` carry the theorems of 6.2 over to
the composition. The queue's half is `QueueInv`:

* `HandsInv`: a worker inside `process` holds a job, and has a copy once it has
  read the row.
* `CopyInv`: the status of the copy is that of the stage its worker entered last.
  Workers write whole rows from old copies, so what a write does to the table is
  known only from the copy; `OneWorkerPerJob` is not inductive without it.
* `DownInv`: a dead process has no goroutines, so that a restart requeues the rows
  of nobody.
* `PublishedInv` (only with `FineClock`): before the last write the packet that the
  row will name is in a complete file. Nothing else keeps a done job from naming a
  packet that is not there.

Theorems: `TypeCorrect`, `OneWorker`, `NoOrphan`, `WakeupKept` and `ClaimsInOrder`. The
last rests on the order of the texts of instants (`QueueTime`): whatever trailing
zeros do inside a second, they do not reach over its end.

`Implements` of the same module is the refinement, `Spec => LedgerSpec`, for a clock
no two readings of which are equal: without that, the file a done job names may be
replaced by one of another document. The writes between claim and settling, and
every write that fails, are stutters.

### 6.4 Handlers

`HubProof` is about any clients, handlers, documents and bounds, from
`HubAssumption` (`None` is not a handler, a number, a packet or a result). The
store's half of `IInv` is kept because every step is a `Use` of the store, as in
6.3. The half of the handlers, `HubInv` of `HubInvariant`, ties what a handler has
in hand to `written`, the order in which rows of `documents` were written:

* `LatestInv`: the row of a document is the last one written. So whatever `Enqueue`
  reads is the receipt's revision or one written later (`AnswerOf`), and stays so
  because jobs are never bound to other work (`JobsKept`).
* `AlternatesInv`: between two rows with the same content of a document lies one
  with other content. It needs `ComparedInv` of the store: nobody writes between the
  comparison and the row.
* `NamesInv`: two copies of a request ask for the same capture, wherever they are.
  With `AlternatesInv` it gives `ResentAnswersAgree`.
* `KeptInv`: every revision that ever was the latest is in a complete file.
* `EnqueueLockInv` and `HandlersInv`: where the locks and packets of handlers are.

Theorems: `ReceiptCovered` (`JobCoversReceipt`), `ResentAgree`
(`ResentAnswersAgree`), `AnswersReadable`, and `LocksInOrder`, which is what
`HandlersAdvance` rests on and, unlike it, needs no `ENABLED`.

### 6.5 Clients

`HubClientsProof` is about any finite number of calls of either client, any URLs
and any bounds. `IInv` of `HubClientsInvariant` says of the tables that ids are
given in order, that documents only gain revisions and that a done job names one
its document has had (`HubInv`); and of every call what it knows of them:

* `TicketInv`, `AnswerInv`, `ReportInv`: the job a call polls asks for its URL, and
  what was read of a settled job is still so. Tables only grow and settled rows
  stay, so an answer may be late without being wrong; that is the whole reason why
  `ReportsAreTrue` holds, and each step of the Hub is shown to respect it once.
* `StrayInv`, `BudgetInv`: an account of posts. A call may have its first post
  performed and, for the userscript, the second; jobs made and posts that may
  still be performed never exceed what the calls were entitled to. Counting jobs
  alone is not inductive: a post left behind by a broken connection makes its job
  later.

Theorems: `WebIsRead`, `TrueReports`, `FewJobs`. `AdaptersAssumption` and
`CaptureClientAssumption` say that `None` is none of the names that are compared
with it, and that there are finitely many calls; `WebLibraryAssumption`, that what
the user types is a URL; `HubApiAssumption`, that a list is one of 1 to 500 jobs. What the web page shows is only
promised in the end, so it stays with TLC.

### 6.6 Capture panel

`StudioProof` is about any subscribers and URLs, any functions other scripts wrap
around `pushState`, and any bounds. `PatchInv` says that the patch is there exactly
while somebody is subscribed and its wrapper installed at most once; from it
follow `Noticed` (`SubscribersAreHooked`) and `OthersSpared` (`ForeignWrappersStay`).
`RouteInv`, the URL of the route is one the page had since the capture began, gives
`Fresh` (`SnapshotIsFresh`), an action property, because what a snapshot is named by is
read in the step that takes it; `SeenInv` is what keeps it. `DueInv` is the account behind
`AtMostTwice` (`FewAutoCaptures`): captures made, a timer that is set and a move the
panel has not heard of add up to two at most, because each of them is spent to
get the next. `StudioAssumption`: the panel is one of the subscribers, and
`None` is not a URL that links name.

### 6.7 A second Hub

`HubStartProof` is about any rows and documents, any finite pool, any number of
attempts, failing calls and starts, from the assumptions of 6.1 and
`HubStartAssumption` (`-ai-concurrency` goroutines are finitely many). Most of `IInv`
is false while two processes work: a row may have two owners, a settled row may
move again. `StartIInv` of `HubStartInvariant` is what is left.

* `PoolInv`, once for each process: a worker inside `execute` holds a row that
  exists, and the packet it sends and the answer it stored are those of the row's
  revision. It says nothing that another process could spoil, because rows keep
  their binding and tables only grow (`TablesGrow`). So a step of one process keeps
  its own half by `PoolStep` and the other's by `PoolFrame`, and `AIQueueProof`
  need not know that there are two: it is taken once as it is and once as an
  instance, `SecondHub`, with the variables of the second process. Only the steps of
  a claim are proved here (`Take` of `AIQueue` is the UPDATE of both).
* `ReadingInv`: the row that a claim has selected is still there, with the attempts
  that were read or more. That it still waits is not said: it may have been claimed,
  settled or put off, and the UPDATE is proved for all of these.
* `ChargeInv`: an account for every row. A worker of either process that may still
  grant a retry, the row's place in the queue, and every attempt from the last
  regular one on are charged one claim each. Before the last regular attempt the sum
  is at most one more than the number of starts: claims and retries only move a claim
  from one place to another, a settling step drops one, and the requeue of a start is
  the only step that adds one. From the last regular attempt on (`Balanced`) a claim by
  an outdated copy adds a worker that counts fewer attempts than the row and grants a
  retry the row had no more claim to. Such copies are charged while they are selected
  (`Outdated`), and one more claim is allowed for them all: no copy selected from then
  on is outdated in this way, a process has one claim between its statements at a
  time, and of two such copies one is used up by the claim that makes them outdated.
  Counting attempts alone is not inductive: after a requeue the worker of the first Hub
  still holds the row, grants its own retry, and both claims are made later. A failing
  store call costs nothing, because the worker that cannot settle lets its claim go,
  and only a start would give it back.
* `AloneInv`: before the first start no claim is overtaken, so that `Outdated` costs
  nothing as long as there is one process.

Theorems: `StartInductive`, `StartsPaidFor` (`AttemptsWithinStarts`) and
`DoneIsAnsweredByEither` (`DoneHasItsResponse`). The last holds for each process for
the reasons of 6.1, and for both because each finds the tables as the other must leave
them.

### 6.8 Only model-checked

All liveness and `HandlersAdvance` (they speak of fairness or of ENABLED, which is
outside what the prover does; `LocksInOrder` is the part of the latter that needs
neither), and the expected violations.

## 7. Not modelled

* The Chrome extension: one request per click and no state between clicks; to the
  Hub it is one more client of `/captures`.
* The subcommands of the command line that are one request, and of the page the
  list of AI jobs (handled as that of capture jobs), search, panes and theme.
* The health line, opening and docking of the panel, beyond what they do to the
  settings.
* The synchronous `/ai/run`: it shares nothing with the queue but the table of
  responses.
* Reading operations of the store (lists, getters, statistics): they change
  nothing; what they return is stated in properties about the tables.
* Text processing: extraction of snapshots, the markdown an adapter builds, prompts,
  JSON, static files, styling.
* A power failure that loses synced-looking file data, and an operator who edits
  the data directory. A crash here is the death of the process.
* `cmd.Run` that does not return after its timeout because a grandchild keeps a
  pipe open: the model assumes that the runner returns.
