# TLA+ models of wai-telegram

wai-telegram keeps a searchable archive of its owner's Telegram chats, and offers
assistants tools to read it and to act on it. A FastAPI backend, Celery workers, a
beat scheduler and a Telethon listener share one PostgreSQL database and one Redis.
This directory holds TLA+ modules for the parts whose correctness depends on the
order in which these processes act, the configurations that check them with TLC, and
theorems checked by TLAPS.

Paths below are relative to `src/packages/backend/` unless they start with `src/`.

## 1. Inventory

| component | state | operations | what is hard | module |
|---|---|---|---|---|
| Memory Batch index: `services/memory_batch_service.py`, `memory_passages.py`, `tasks/embedding_tasks.py`, `cli/memory_batches.py`, migrations 033, 034 | `memory_days` (revisions), `memory_passages` (vectors, claims, failures), `memory_batches` (receipts), the submission lock; at the provider: requests, jobs, outputs | triggers, seed, prepare, claim, submit, reconcile, release, import | source changes during a submission that takes hours, crashes between any two transactions, requests of unknown fate, a pass that outlives its lock | `MemoryIndex`, `MemoryBatch` |
| History jobs: `tasks/sync_tasks.py`, `api/v1/sync.py`, `api/v1/indexing.py` | `sync_jobs`, the account's lock, heartbeat keys, Celery messages, `history_synced_at` | request, select chats, run a single or bulk job, retry, reap, resume | two worker slots, redelivery, silent runs, retries, lost messages | `SyncJobs` |
| Single-user cutover: `services/single_user_cutover.py` | `users.is_active`, jobs, session, Redis keys | deactivate, purge | runs under way | `SyncJobs` |
| History sync: `services/sync_service.py` | messages, `history_cursor`, `last_message_id` | batches, deduplication, resumption, discovery | interrupted imports, edits and deletions in between | `Archive` |
| Listener: `listener/main.py` | messages, tombstones, the client, heartbeat key | new, edited, deleted message; start, stop, health check | order against a running import; lost commands | `Archive`, `Sessions`, `MediaPipeline` |
| Telegram client and sessions: `services/telegram_client.py`, `api/v1/telegram.py` | `telegram_sessions`, connected clients | login, logout, connect, disable a refused session | a client outlives its session | `Sessions` |
| Media pipeline: `services/media_processing_service.py`, `tasks/media_tasks.py` | message status, media object stage and status, three queues | claim, fetch, extract, index, retry, reap, prepare | duplicate and lost deliveries, late errors, edits | `MediaPipeline` |
| Media cache: `services/media_cache_service.py`, `cli/media_cache_prune.py` | files, rows, a Redis lease | fetch, resume, replace, prune | crash between file and row | `MediaCache` |
| Correspondence outbox: `services/correspondence_events.py` | events with `delivered_at`, attempts | enqueue, deliver, revoke | at-least-once delivery in batches | `Outbox` |
| Digital agents: `tasks/agent_tasks.py`, `services/agent/digital_agents.py` | `next_run_at`, error counts | create, dispatch, run, disable | dispatch without a claim | `Agents` |
| Digests: `services/digest_service.py`, `tasks/digest_tasks.py` | one row a day | generate, send | three writers | `Digest` |
| Post drafts: `services/post_draft_service.py` | `post_drafts.status` | save, publish | a send of unknown outcome | `PostOnce`, `PostDraft` |
| Bot, assistant loop, builders: `api/v1/bot_webhook.py`, `services/agent/*` | seen updates, conversations, the stored page | receive, answer, clear, build, edit | repeated updates, turns side by side | `Bot` |
| Metadata reconciliation: `services/metadata_reconciliation.py` | checkpoint, messages, revisions | batches, resumption | beside the listener | `Reconcile` |
| Browsing: `inbox_service.py`, `file_browse_service.py`, `api/v1/chats.py`, `api/v1/messages.py` | none | pages by cursor or offset | rows move during a walk | `Listing` |
| Invited accounts: `services/onboarding.py`, `api/v1/onboarding.py`, `api/v1/telegram.py` | invitation hash, onboarding tokens, waiting clients, sessions | invite, accept, send code, verify | one-use links, repeated verification | `Accounts` |
| Peer-number migrations 021 and 026 | chats, messages, their duplicates | merge | half-migrated data, repeated runs | `PeerMerge` |

Without a module: MCP server, frontend, plugin and deployment, the request budget, the
legacy message embeddings, extraction and ranking (section 9).

How they interact. API requests and the beat put Celery messages into Redis after
committing rows that say what is to be done. Workers claim work through rows (media,
memory batches, events) or Redis locks (history, memory passes, media cache). The
listener, the import and the reconciliation write the same messages. Triggers on
messages and chats mark memory days in the transaction of the change; the listener's
transaction also records outbox events and resets a message's media. Deselecting a
chat or closing an account is a row update that running workers notice only where
they look again. The listener is told of logins and settings over Redis
publish/subscribe, which nothing repeats; its health check and the beat make up for it.

What makes each component correct:

* Memory index: search returns only passages of the current source of accessible
  chats; a claim is not given back while its job may still be charged; every passage
  is searchable in the end.
* History jobs: one run per account; the end of a run does not take the lock from
  another; a job that is run is not reaped; nothing stays IN_PROGRESS; the history of
  the selected chats gets loaded, whatever is lost or dies.
* Archive: a history that counts as complete has no hole; what was stored is not
  forgotten; what is stored is what Telegram holds.
* Sessions: one active session; a late error does not disable a good one; the
  listener comes back.
* Media: every pending message reaches an end; old media never returns; a duplicate
  does not pay twice; a deselected chat is not written. Cache: files are whole and
  rows name them, apart from gaps that the pruner opens and closes again.
* Outbox: every event is delivered or revoked, to its own destination, and repeats
  are paid for with lost answers.
* Agents: a failing one is given up. Digest: the owner gets the text that is stored,
  but for what a task sends before it loses its transaction.
* Post drafts: at most one post per draft, with the content that was saved; a save
  that was answered holds unless its commit, which comes after the answer, fails.
* Bot: an update is answered or sent again, and takes effect once otherwise.
* Reconciliation: the checkpoint covers only what is stored; no text is lost.
* Browsing: a walk by cursor returns each unchanged row once. Search promises less.
* Invited accounts: a link lets in once, and only the invited Telegram account.
* Migrations: no message and no job that was stored before is lost.

`PROJECT.json` lists the components with their status, and under "hazards" the
places where one of these could go wrong, with the properties that cover it.

## 2. Modules

| module | what it is |
|---|---|
| `MemoryIndex` | abstract: search is a derived view of the current source |
| `MemoryBatch`, `MCMemoryBatch` | the Batch machinery: archive with triggers, passes, provider |
| `SyncJobs`, `MCSyncJobs` | jobs, lock, messages, slots, reaper, resumption of one account |
| `Archive`, `MCArchive` | import and listener over Telegram's messages |
| `MediaPipeline`, `MCMedia` | stages, claims, three queues, reaper, edits, selection |
| `Sessions`, `Outbox`, `Agents`, `Digest`, composed by `MCServices` | the background services |
| `PostOnce` | abstract: a draft is posted at most once, with the first text saved |
| `PostDraft`, `MediaCache`, `Bot`, `Reconcile`, `Listing`, `Accounts`, `PeerMerge`, composed by `MCAssistant` | what people and assistants ask of the archive |
| `MemoryBatch_proofs`, `SyncJobs_proofs`, `Archive_proofs`, `MediaPipeline_proofs`, `PostDraft_proofs`, `Sessions_proofs` | the theorems about the module of that name |
| `Services_proofs`, `Assistant_proofs` | those about `Outbox`, `Agents`, `Digest` and `MCServices`; about `Accounts`, `Reconcile`, `Bot`, `MediaCache`, `PeerMerge`, `Listing` and `MCAssistant` |

The two compositions run one part at a time: the variable `component` is chosen in
the initial state, and a step of that part leaves the others alone. The parts share
processes but none of the modelled state, so an interleaving of two of them is a
behaviour of each with stutters, and nothing is lost for safety; for liveness each
part's fairness is over its own actions. One run then checks all their properties.
Each part keeps its own prefix for `Init`, `Next`, variables and type invariant.

Two compositions are by shared state instead: `Archive` lets the import, the listener
and selection work on the same rows, `MediaPipeline` the three stages, the listener's
edits and selection.

The order in which they were written is that of the inventory: what costs money or
loses history first. What the modules could still take in is in section 10.

## 3. MemoryBatch

State. `content` is the set of passages that `build_passages` yields for the stored
messages; an identifier is the hash of text and quoted messages, so a changed text
is another passage. `revision` and `prepared` are the columns of `memory_days`;
`rows`, `rowRev`, `claim`, `embedded`, `failures` those of `memory_passages`;
`status`, `items`, `known` those of `memory_batches` (`known`: the provider's id is
stored). `wire`, `job`, `good`, `garbled` are the provider's side: create requests
on their way, jobs, delivered vectors, malformed outputs. `lock`, `pc`, `todo`,
`cur` and the like are the passes.

Actions. One per transaction or provider call of the code, so that a crash (`Die`)
can fall between any two: `StartPass`, `ReturnClaims`, `NotListed`, `Reconcile`,
`ReleaseClaims`, `CloseFailed`, `ImportVectors`, `ReleaseMissing`, `WriteReceipt`,
`EndReconcile`, `PassPrepares`, `EndPrepare`, `ClaimBatch`, `CheckSources`,
`Upload`, `SendCreate`, `Created`, `EndPass`, and the three error answers
`SubmitRejected`, `SubmitBlocked`, `SubmitUncertain`. `EditDay`, `RenameChat`,
`SetIndexing`, `SetActive` are archive transactions with their triggers.
`LoseLock` is what `run_async` does under a soft time limit: the wait ends, the
lock is given up, the coroutine goes on.

Abstractions. Vectors are present or absent. The provider's list is read where it
is used. A rename and a claim are one action each (PostgreSQL snapshots and the
sum of queued tokens are not split; see the hazards). A day's first row is made at
revision 1. Uploaded files are not modelled.

Bounds. One chat with one day suffices because days share nothing but receipts,
the queue and the lock; two passages and two receipts (`mb_receipts`) make partial
outputs and two receipts in one pass happen; two workers and one receipt
(`mb_source`) make overlapping passes happen. `MaxRevision` 2 lets a day change
again while its second version is in flight.

Runs.

| run | shows |
|---|---|
| `mb_source` | `TypeOK`, `NoStaleRetrieval`, `ReceiptsCoverClaims`, `ImplementsIndex` hold with overlapping passes |
| `mb_receipts` | `ClosedReceiptHasNoJob` with one pass at a time |
| `mb_progress` | `EventuallySearchable`: once a day stays as it is, its passages end up searchable for good, also those of a day that was searchable before its last change |
| `mb_final_claims` | violation: a crash at one point strands the claims of a recovered receipt |

The quotation `mb_final_claims` refutes is in `PROJECT.json` "findings". With overlapping
passes `ClosedReceiptHasNoJob` does not hold; section 10 says why.

Fairness. Each pass step is weakly fair (the process goes on), and the preparation,
the claim and the end of a create call strongly fair, because every pass of every
minute attempts them; the provider decides requests and ends jobs; time passes for
`ripe`. No archive step and no failure is fair. `EventuallySearchable` has the
premise `Calm` (from some time on no crash and no failing call, and no malformed
output) and the escape `Halted`: the instance's receipts are used up, one waits
for the operator, or one of the findings has happened.

## 4. SyncJobs

State. `job` holds a row's status, chat and two flags of time: `old` (updated_at is
more than fifteen minutes ago) and `beat` (the heartbeat key exists); `order` is
created_at. `lock` has the job ("owner") and the attempt ("token", here the
slot). `queue` is a bag of messages, `run` the slots, `reap` the reaper's open
transaction, `synced` the chats with `history_synced_at`, `account` and `session`
the user and the Telegram session.

Actions. `StartSync` and `SelectChats` are the requests, `Deactivate` and `Purge`
the cutover, `Login` a new session. A slot goes through `Take`, then `Skip`,
`Defer`, `Turned` or `Acquire`; `Start`, `Touch`, for a bulk run `NextChat` for
each chat, `Progress`, `ChatSynced`, `ChatDone` or one of the error handlers
(`ChatFailed`, `BulkBreaks`, `Unauthorized`, `Flood`, `Error`), `FinishBulk`, and
`Release`. The reaper reads (`ReapScan`), looks at each row and frees its lock
(`ReapVisit`), commits (`ReapCommit`) or dies; then `Resume` runs in the same task.
`Age`, `BeatEnds`, `LockEnds` are time, `Crash` and `Redeliver` the broker.

Merged and left out. A request is one transaction plus `delay()`, whose failure is
the fault "lost". Release of the lock and deletion of the progress keys are one
action, marking a row and `self.retry` another. One reaper at a time. Disk space is
taken to suffice; a failing last commit of a chat job is not modelled; the listener's
own sync command is outside this module.

Assumptions on time, all for spans of a few calls against minutes in the code: a
row does not become old between `Start` and `Touch` (`Age`); the next attempt of a
job does not begin while the last one is releasing (`Due`: retries have a
countdown of at least a second, the first one sixty); a job does not take the lock while
the reaper's transaction looks at it (`Quiet`). The last one is a real
simplification: after a crash the window is reachable, and `OneRunner` is stated
for runs without crashes.

Bounds. `MaxFaults` and `MaxRequests` count faults and requests; `MaxWaiting` the
copies `Resume` puts into the queue; `Spare` leaves an id for the row of a bulk
run's chat; `Forget` gives the id of a finished, unreferenced row back, so that
jobs never run out in the liveness runs. Three jobs allow two competing jobs and
the row of a chat; `sj_faults` has two jobs, but two requests and two faults in one
behaviour: a theft needs a run that lost the lock and a run that took it. One retry instead of three: the last attempt and an earlier
one are the two cases the code tells apart. One chat: chats of a bulk run follow
each other and share nothing but the run.

Runs.

| run | shows |
|---|---|
| `sj_runner` | `TypeOK`, `OneRunner`, `DoomedIsDead`: two slots; lost and duplicate messages, FloodWait, errors, budget, session loss, reaper failure |
| `sj_faults` | `NoTheft` with silent runs, lapsing locks, discovery of dialogs, the cutover and syncs with a limit |
| `sj_progress` | `InProgressEnds` and `HistoryResumed` with crashes, lost messages, errors, session loss |

`sj_runner` and `sj_faults` use symmetry over slots and ids (safety only); the
liveness runs use none and give new rows the first unused id.

Fairness. A slot goes on (`Work`), a message is taken when a slot is free, the
beat starts the reaper every two minutes, keys of dead runs expire, ages pass. A
live run's heartbeat or lock ending is a fault and not fair; nor are requests,
logins or progress reports. Deadlock is not checked: without requests the system
rests.

## 5. Archive

State. `telegram` is what Telegram holds (a message is its text's version and whether
it is gone), `updates` the events that were sent to the listener or that a handler of
it has begun, `archive` the rows of `telegram_messages` with the texts in
`message_revisions`, `chat` the columns `indexing_enabled`, `history_cursor` and
`history_synced_at`, `run` the local variables of `sync_messages`. `raced` is a history
variable: the messages of which an edit was lost or came too early.

Actions. `Post`, `EditText`, `Delete` are people. The client is created without
`sequential_updates`, so Telethon runs each handler as a task of its own: `updates` is
a set, taken in any order. `HearMessage` is `_handle_message` up to its wait for the
sender, `HandleMessage` its insert and commit; `HearEdit` and `HandleEdit` are
`_handle_edit` before and after the row is read for update; `HandleDelete` is one step,
since a tombstone needs nothing it has read before. Between the two steps of a handler
every other handler, run and selection may go on. `Start`, `Read`, `Save` (a full batch
is committed, by a run without a limit with the cursor), `Finish` and `Fail` are
`sync_messages`; `SyncChats` is the discovery of dialogs and `Select` the selection,
with the reset of `history_synced_at`. Telethon fetches a hundred messages at once, as
many as a batch has; the model reads them one by one, so a text is held from its own
read on and not from that of its page.

Bounds. Three messages with a batch of one give an import three commits between which
everything can happen, and a limit of two a run that ends within a history; `Budget`
bounds each event and their sum (six). One chat: the handlers never relate two chats,
except by the number of a deleted message without a chat (section 10).

| run | shows |
|---|---|
| `archive` | `CompleteWhenSynced`, `Fresh`, `NothingForgotten`, ordinary and automatic accounts |
| `archive_reselect` | violation: a chat deselected and selected again while a run loads it counts as complete without the message received in between |

`CompleteWhenSynced` has the premise that the listener missed nothing and that no
selection fell into a run of the chat ("overlap"); the code has no second look at what
the listener missed, and the second run shows what an overlap does.

`Fresh` has no premise about the run as a whole. It speaks of each message by itself,
and excepts those in `raced`, which are the ways in which the code loses an edit for good:
the listener missed it; it was ignored (its chat was off, or its row not there yet) while
an older text was stored, in the batch of a run or in a handler that waits; or it was
handled while an older edit was still to come, which then puts its text over the newer
one. `Outdated` and `Early` say exactly when. What `Fresh` shows is that there is no
fourth way: neither a batch, nor a second insert, a tombstone, an interrupted run or
a reselection leaves a text behind that Telegram no longer has.

`NothingForgotten` has no premise for keeping: every text that was stored stays the text
of its row or one of its revisions, and a tombstone stays. A row may go back to an older
text while the newer edit is still to come (an edit delayed past a batch that has read a
newer text is stored over it), or if the message is in `raced`.

## 6. MediaPipeline

State. The media of a message is a number that an edit raises; the file, the content
and the chunks hold the number of the media they came from. `msg` and `obj` are the
columns of the message and of its `media_objects` row (status, stage, attempts, claim,
`old` for the stale limit), `queue` a bag of Celery tasks, `run` the worker processes.

Actions. `Beat` dispatches and reaps (one transaction each, as in `media_tasks.py`);
`Work(w)` is a worker that takes a task, claims, does the long step, saves and hands
over, with `RETRY_DELAYS_SECONDS` as `MaxRetries`; `Environment` are the eight events
of `Events`.

Bounds. One message, since messages share only queues and the dispatch depth; four
processes, two of them on the extraction queue, so that duplicates can meet; any two
events, so that a failure meets the repair of another one.

`media` shows: `FreshUnlessPruned` (old media never comes back, also when a download or
hand-over began before the edit), `DuplicatesSpendOnce`, `DeselectedIsUntouched`, and
`Settles` under the fairness of the beat, the workers, and time. `EditsOverlap` is
FALSE in this run: an edit within an extraction is a known divergence (section 10).

## 7. Background services (`services`)

* `Sessions`. Rows are absent, active, inactive or deleted; Telegram accepts some of
  them. A holder of a client (a request, or the listener) connects, asks, may be
  refused, disables the session it remembers and tells the listener. The listener's
  start, its heartbeat loop and its check loop, a message's handler that Telegram
  refuses, the commands in its channel, the key `listener:active` and the beat's health
  check are actions. `_handle_message` looks up the client to blame after its error and
  its rollback (`HandlerBlames`); it may find the client that has taken the place of its
  own. A logout removes rows while logins and callers go on. `_handle_sync` is left out:
  nothing in the repository publishes `sync_chat`. `OneActiveSession`,
  `OnlyTheRefused`, which excepts a handler that blames another client; `ListenerComesBack` under the fairness of the loops, the key's
  expiry and the beat, with strong fairness for those that a start may disable for a
  moment. `MayBeCut` FALSE: see section 10. Two sessions, one caller or handler at a time
  (`MaxBusy`) beside the listener's loops, two faults: an old client and a new login, and
  a lost command on top of them.
* `Outbox`. A row is pending, delivered or revoked and knows its destination. A worker
  takes a batch under row locks, posts, and saves in one transaction; answers, batches
  and commits get lost; a process may be restarted with another destination.
  `DeliveredIsQuiet` counts what each destination accepted against what was lost;
  `EventsArrive` assumes the beat, the workers and time.
* `Agents`. The beat queues what is due without a claim; runs overlap, a lost worker's
  task is delivered again, and a run writes the count it read at its start. `GivesUp`:
  a scheduled agent that keeps failing is disabled all the same.
* `Digest`. The hourly task, the endpoint and the bot generate the same day's digest:
  `SentIsStored`, with the texts in `void` excepted: a task sends before it commits, and
  `void` has what it had sent when its transaction was lost, one text per loss.

One service at a time (section 2): 165,073 states.

## 8. Assistants and requests (`assistant`)

* `PostDraft` implements `PostOnce` (`DraftsArePostedOnce`) and promises
  `PublishedAsStored`. A request stops at every await and may end there. A save inserts
  (`SaveStores`), answers (`SaveAnswers`) and only then commits (`SaveCommits`, the exit
  of `get_db`, which FastAPI runs after the response); a tool call of the bot commits
  before it answers. A save that dies in between goes into `lost`. Three requests: one
  that publishes, one that repeats it, and one that saves.
* `MediaCache`. Chunks are numbers, so that a resumed, overtaken or half-flushed partial
  file shows: `CacheIsWhole`. The pruner unlinks (`PruneUnlinks`), deletes
  rows (`PruneDeletes`), reads the keys (`PruneReads`) and sweeps what they do not name
  (`PruneSweeps`), each a step of its own: it may take the part from under a worker that
  writes it (which goes on into a file without a name and fails, `Bereft`), or an
  original that a row has come to name since (`taken`). `MayLapse` FALSE: see section 10.
* `Bot`. Telegram posts an update until it is answered 200; requests run side by side.
  `AckedIsHandled`, `DoneOnce`: repeats happen only after a failed attempt, a restart
  or an eviction. `MaxSeen` is 2 for three updates, so that eviction happens;
  `EarlyRetry` FALSE: section 10. What a turn's tools read or note is left out.
* `Reconcile`. Batches upwards from a checkpoint beside the listener:
  `CheckpointCovers`, `HistoryKept`. The second names the rows inserted between the
  lock of a batch and its write, which the code's `FOR UPDATE` cannot have locked.
* `Listing`. Rows change during a walk: `EachOnce`. Keys may be missing or equal, which
  is why a cursor compares both key and number. The listings differ in what a cursor
  carries (`Accepts`): that of the files its order, that of the inbox its filters, those
  of chats and messages neither; a request may change what is not carried, and the
  property then speaks of the inbox only. `RankedPage` is search: its candidates grow
  with the offset, so any page may follow any other, and nothing is claimed of it.
* `Accounts`. Links, onboarding tokens, waiting clients (one per token and phone), verifications, each repeated
  and overlapping: `OnlyTheInvited`.
* `PeerMerge`. Every statement of 021 and 026 over every database that may hold a chat
  twice, with the transaction lost and started again: `MergeKeepsAll`. Two posts, each of
  them under one number, under the other, or under both. What hangs on a message
  (transcript, media object, revisions) is `attached`; it goes with the old row's copy
  of a message that both have, which the property excepts.

One part at a time: 1,372,975 states, with symmetry over the bot's requests (no liveness
is checked there).

## 9. Not modelled

* MCP server, frontend, plugin: they pass requests through to the API and keep no
  state of their own that outlives a request.
* Deployment: shell and Docker configuration.
* Request budget: two counters with an expiry in real time; `SyncJobs` has its refusal.
* Legacy message embeddings: one-transaction updates.
* Extraction of text from media, ranking of search, prompts and the HTML of pages: data.
* Which tools a turn of the assistant calls: a language model's choice.
* API keys and password login: one-transaction requests; the limit on keys is counted
  before the insertion, so two requests may exceed it by one.
* Budgets and free space of the media cache; streaming of ranges.

PostgreSQL's isolation is modelled by one action per transaction unless a module says
otherwise; the Redis commands are atomic.

## 10. Known divergences outside the runs

Found while modelling; each is excluded by a premise or a constant of the module named,
so that the runs check what remains true beside it.

* Overlapping memory passes (`MemoryBatch`, `LockCanLapse`): `run_async` gives up
  waiting, and its lock, while the coroutine goes on; a second pass then releases the
  claims of a receipt that the first submits. The comment at
  `services/memory_batch_service.py:299` promises no second charge.
* A create request that never arrived (`MemoryBatch`): the receipt is in no list of the
  provider and stays `submitting` or `unknown` with its claims
  (`memory_batch_service.py:473`).
* A vector delivered while its day is dirty is dropped and counted as a failure
  (`memory_batch_service.py:431`), against "Only missing vectors are retried" (:426).
* FloodWait at the last attempt (`SyncJobs`): `self.retry(exc=e)` raises `e`, so the
  handler at `tasks/sync_tasks.py:248` is not reached and the job stays PENDING.
* A chat job whose delivery is lost is waited for by every resumption
  (`sync_tasks.py:666`); `Hindered` names it.
* After a crash the reaper frees the lock by the name of the job (`sync_tasks.py:739`),
  also when a new attempt of the job holds it: `OneRunner` is stated without crashes.
  A redelivered job that finds its own dead attempt's lock is failed (:377).
* An edit during an extraction (`MediaPipeline`, `EditsOverlap`): the checkpoint of the
  old media is stored over it (`media_processing_service.py:755`).
* `prepare_message_media` of a message that failed in the index stage
  (`api/v1/chats.py:610`) circulates without being claimed; `Settles` excludes it.
* A deleted message without a chat (`Archive`, `Nameless`) may resolve to a channel's
  message of the same number (`listener/main.py:543`).
* A connection whose reconnects are exhausted (`Sessions`, `MayBeCut`) leaves the
  listener's object in place; a lease of the cache that lapses under a live worker
  (`MediaCache`, `MayLapse`) lets two workers write one partial file.
* Telegram repeats an update that is still being worked on (`Bot`, `EarlyRetry`): the
  copy is answered 200, and a later failure of the first is lost.
* Turns of one user overlap, against "Each user gets a serial execution queue"
  (`services/agent/loop.py:4`).
* Overlapping runs of an agent overwrite each other's counts, so that it may be disabled
  later than after the ten errors of `tasks/agent_tasks.py:237`.
* Deletion of a site removes a directory that nothing writes; two edits of a site at
  once lose one of them.
* A digest's text may be sent by a task whose transaction is then lost (`void`); the
  `get_digest` tool generates without committing.
* A save of a draft is answered (`api/v1/post_drafts.py:58`) before it is committed
  (`core/database.py:96`): when the commit fails, another content can be saved and
  published under the identifier (`lost`).
* Edits are lost when their handler runs before their message's insert, and go back when
  two are handled in reverse (`listener/main.py:423`; `raced`).
* `_handle_message` may disable a good session for the error of its predecessor
  (`listener/main.py:385`; `astray`).
* Pages of a search may repeat or miss a row of unchanged data
  (`services/search_service.py:72`; `RankedPage`).
* Originals that a row came to name after the pruner had read the keys are removed
  (`cli/media_cache_prune.py:183`; `taken`); the next pruning deletes such a row.
* `sync_chat` has a handler in the listener and no publisher.
* A reconciliation writes what it read before an edit that the listener handled
  meanwhile; the newer text is then a revision.


## 11. Proofs

Each theorem holds for every value of the constants that the module's named assumption
allows, and for every number of steps; the bounds of sections 3 to 8 do not enter, except as
constants. TLC finds every inductive invariant to
hold, too, on the instance of a run of its module.

`MemoryBatch_proofs`, from `ConstantsAssumption`, with `LockCanLapse` either way except in the
last theorem:

* `TypeInvariance`. `TypeOK` is not inductive: several steps use the receipt at
  hand, `cur[w]`, as an index. `AtHand` says that a pass in such a step has one.
* `RetrievalIsCurrent`. `NoStaleRetrieval` says nothing of rows that are not searchable
  now and may become so, by a preparation, a reselection or an import. `SourceInv`
  strengthens it: revisions of rows and preparations do not run ahead of the day's, and
  in a selected chat a row of the current revision is a passage of the current source. A
  rename of a deselected chat counts no revision, so the second part is claimed for
  selected chats only; the selection counts one. `WorkKeepsSource` disposes at once of
  all steps but archive transactions and preparation.
* `IndexImplementsSpec`. `MemoryBatch` implements `MemoryIndex` under the mapping
  `source <- content`, `open <-` accessible days, `visible <- Retrievable`. An edit maps
  to `Change` (or `ChangeClosed` where the trigger does not mark), selection to `Change`
  or `Revoke`, account changes to `Revoke` or `Restore`, imports and preparations to
  `Publish`, everything else to a stutter.
* `ClaimsAreCovered` (`ReceiptsCoverClaims`). `ReceiptInv` adds that rows not in the archive
  have no claim, and for each pass, `FrameOK`, that the receipts it means to look at exist and
  that one it is about to mark as applied has no claim left without a vector. `Advances` says
  why a step of one pass leaves the frames of the others alone, even of one whose lock is lost.
* `ClosedReceiptsAreQuiet` (`ClosedReceiptHasNoJob`), for a lock that does not lapse: with a
  lapse, the second pass may close a receipt that the first one submits. `JobInv` has
  `PassOK` (what each program counter knows of the receipt at hand, its job and the wire) and
  `ReceiptOK` (a receipt being prepared has sent nothing; one request at most is answered by
  one job). `AloneWithTheLock` leaves one pass to look at.

`SyncJobs_proofs`:

* `SyncTypesAlways` (`TypeOK`). `Handed` is added: a slot that works has a message, whose
  fields the steps read.
* `LockIsNotStolen` (`NoTheft`), whatever fails. `LockIsGiven` goes through the steps that
  write the lock.
* `OneRunAtATime` (`OneRunner`), for `Reliable` constants: no crash, silence or lapse among
  the faults; lost and repeated messages, errors, FloodWait, session loss, a dying reaper
  and the cutover may occur. That only the lock's holder loads is not inductive, since the
  reaper frees locks by the name of a job. `RunnerInv` says why it spares a running one.
  `SlotOK`: an attempt has the lock until the cutover's purge (after which none begins);
  its job and its chat's row have their heartbeats from the first one on, and before that
  the job is not old; so neither is doomed, nor to be doomed when the reaper looks.
  `MessagesKnown`: a job that somebody will run is never left IN_PROGRESS, or the reaper
  could find it between two attempts, without a heartbeat, and free the lock of the
  next one. `RowsInv` keeps rows in use from being given another chat or id. The steps are
  sorted into those beside the attempts (`Bystander`), those of the one attempt
  (`OwnStep`), its beginning and its end.
* `TheReaperIsRight` (`DoomedIsDead`), from the same invariant where the cutover does not
  happen: it purges the heartbeats of runs that go on.

`PostDraft_proofs`, from `DraftConstants`. `DraftInv` has `CallsHaveContent` (a request
that goes on holds the stored text), `OneInserts` (one open transaction has inserted an
identifier's row, and it is not stored yet), `ClaimHeld` (one request holds the claim and
knows whether Telegram accepted) and `StatusHonest` (what a status says of the posts made).

* `DraftTypesAlways`, `DraftPublishedAsStored`, and the refinement `DraftsPostOnce`:
  `PostDraft` implements `PostOnce`, for any drafts, texts and overlapping requests.

`Sessions_proofs`, from `SessionConstants`: `SessionsStaySingle` and `AcceptedSessionsStay`.
`SessionInv` adds `OneLogin` (an open verification has read every active session) and
`ClientsHonest` (a client found refused has a session that Telegram gave up, unless a
message's handler blames the client that took its own's place).
`SessionTypesAlways` bounds the commands under way: whoever disables a session publishes two
at most, and nobody disables it again (`TellersApart`, `InboxBounded`). The proof attempt
found that the bound has to grow with the sessions, not with the callers, as it did.

`Services_proofs`:

* `DeliveriesAreQuiet` (`DeliveredIsQuiet`), from `OutboxConstants`. `OutboxInv` adds
  `BatchesApart` (a row is in one batch, at one place of it, for its own destination) and
  `ReceiptsCounted` (acceptances against answers lost).
* `OwnersGetTheStoredDigest` (`SentIsStored`), from `DigestConstants`. `WritersAgree`: before a
  text is stored one insert at most is open, afterwards everybody who goes on has that text;
  a text that was sent is stored, about to be, or in `void`, which has one per loss.
* `ServicesTypesAlways` (`ServicesTypeOK`), of the composition. For the agents it rests on
  `ErrorsLeft`: an agent that is not disabled, and whoever began a run of it, has errors left,
  so that the count stays within its limit although overlapping runs write over it.
  `ServicesAreThemselves`: a step of one service is a stutter of the others, so each theorem
  about a service holds of `MCServices`.

`Archive_proofs`, from `ArchiveAssumption`: chats, messages, batch size and the budget of
events are arbitrary.

* `ArchiveTypesAlways` (`TypeOK`), with a bound on texts from the budget of edits.
* `TheArchiveRemembers` (`NothingForgotten`, an action property) from `OrderInv`: what is stored,
  held or on its way is not ahead of Telegram, and an update with an older text than
  Telegram's has the newest edit beside it, whatever the order they are taken in, unless the
  message is in `raced`.
* `SyncedHistoriesAreComplete` (`CompleteWhenSynced`). `HistoryInv` says it of the
  interrupted and of the running: every message above the cursor of a chat, or above the
  position of a run, is stored, in the batch or on its way to the listener.
* `StoredTextsAreFresh` (`Fresh`). `FreshInv`: of a message that is not in `raced`, a stored text
  is Telegram's or the newest edit is on its way (`Current`), and so is a text that a batch
  holds, unless the message is stored already (`BatchCurrent`). `HistoryInv` is claimed, as
  its property is, while nothing was missed and no run overlapped; the other two always.

`MediaPipeline_proofs`, from `MediaAssumption`:

* `MediaTypesAlways` (`TypeOK`). A worker has a task of its own queue, with few enough retries.
* `DeselectedStoresNothing` (`DeselectedIsUntouched`, an action property).
* `ReadyIsFresh` (`FreshUnlessPruned`), for edits that do not fall into a stage of their message
  (`~EditsOverlap`, as in the run). `FreshInv`: file, content and index of a row are of the
  media it has now (`FreshRow`), and so is what each worker carries (`FreshWorker`).
* `DuplicatesAreClaimedOnce` (`DuplicatesSpendOnce`). That two workers never extract the same
  message is not inductive, since one that downloads or indexes could follow. `CalmInv`: one
  worker at most holds a message; without a file all its tasks are for the fetch queue, and
  with one the rows say what the holder does, so that no other can claim it.

`Assistant_proofs`, each from the constants' assumption of its module:

* `OnlyTheInvitedEnter` (`OnlyTheInvited`). `AccountInv` adds `LinksFresh` (the current link and
  those not yet made have not been accepted) and `TokensAccepted` (a request at work came by
  an accepted link).
* `CheckpointsPassOverNothing` (`CheckpointCovers`) and `RevisionsAreComplete` (`HistoryKept`).
  `ReconcileInv`: neither the checkpoint nor a walk is beyond the messages given out
  (`NumbersAscend`), what a walk has passed is stored or in its batch (`WalksCover`), a row
  that a batch did not find to lock has no text to lose or has slipped in since
  (`UnlockedIsNew`), and the locked ones are rows with a text.
* `BotTypesAlways` (`BotTypeOK`): the conversation stays within MAX_HISTORY.
* `NothingIsSwallowed` (`AckedIsHandled`), where Telegram does not repeat an update that is being
  processed (`~EarlyRetry`, as in the run): one attempt at a time, and what is acknowledged or
  remembered as seen has been answered.
* `UpdatesTakeEffectOnce` (`DoneOnce`), early repetitions included: `EffectsCounted` sets the
  effects and the attempts under way against what made another attempt possible.
* `CachedOriginalsAreWhole` (`CacheIsWhole`), where a live worker keeps its lease (`~MayLapse`,
  as in the run). `CacheInv`: each stage of a worker has the lease, a version and, with its
  buffer, exactly the first chunks (`FetcherOK`); a file is a beginning or whole (`FilesOK`); a
  row names its own version or a file that is gone, and a gone one is the pruner's doing
  (`RowOK`).
* `CacheTypesAlways`, `ReconcileTypesAlways`: lapsing leases included, a partial file has chunks
  of its original and no offset exceeds its size; a batch never exceeds `BatchSize`.
* `MergesLoseNothing` (`MergeKeepsAll`), for every content of the two rows and what hangs on it. `MergeInv` says what
  the first k statements leave of two rows (`PairAfter`) and of one (`SingleAfter`).
* `PagesReturnEachOnce` (`EachOnce`), for every set of rows, keys and limit, and for callers
  that change order or filters where a cursor lets them; search pages are outside it.
  `ListingInv`: a walk
  by cursor has given the rows that do not come after the cursor, a walk by offset those of
  smaller rank. `PageHasLast`, `LeadingSize` and `OffsetTakesNext` are about the
  ranks of a finite order. `ListingConstants` asks for positive, finitely many row numbers,
  as the tables have: number 0 with key 0 would be the cursor of the first page.
* `AssistantTypesAlways` (`AssistantTypeOK`) and `PartsAreThemselves`, of the composition, as for
  the services.

Model-checked only: all liveness (`EventuallySearchable`, `InProgressEnds`,
`HistoryResumed`, `Settles`, `ListenerComesBack`, `EventsArrive`, `GivesUp`), which is out
of the prover's reach. Every other property that a passing run checks is a theorem.

## 12. Running

    tlc -workers 2 -config mb_source.cfg MCMemoryBatch.tla    # mb_*
    tlc -workers 2 -config sj_runner.cfg MCSyncJobs.tla       # sj_*
    tlc -workers 2 -config archive.cfg   MCArchive.tla        # archive*
    tlc -workers 2 -config media.cfg     MCMedia.tla
    tlc -workers 2 -config services.cfg  MCServices.tla
    tlc -workers 2 -config assistant.cfg MCAssistant.tla
    tlapm SyncJobs_proofs.tla                                 # and the other *_proofs

Every run ends within five minutes on two workers; the proofs take some minutes.
