---------------------------- MODULE MemoryBatch ----------------------------
(***************************************************************************)
(* Incremental Batch indexing of the message archive                       *)
(* (services/memory_batch_service.py, the triggers of migrations 033 and   *)
(* 034, the beat task of tasks/embedding_tasks.py, cli/memory_batches.py). *)
(*                                                                         *)
(* Three parties share the state.  The archive changes the source and the  *)
(* triggers mark the changed days in the same transaction.  A pass, run by *)
(* a Celery worker or the CLI, reconciles submitted batches, prepares      *)
(* changed days and submits new batches; each of its database transactions *)
(* and provider calls is one action.  The provider decides about a create  *)
(* request, runs the job, and may answer late or never.                    *)
(*                                                                         *)
(* A passage identifier is the hash of its content, so the text of a       *)
(* passage is its identity; the numeric order of identifiers stands for    *)
(* ORDER BY day DESC, id.  Chat owners never change in this code, so       *)
(* p.user_id = c.user_id always holds and is left out.                     *)
(***************************************************************************)
EXTENDS Naturals, FiniteSets
LOCAL INSTANCE FiniteSetsExt

CONSTANTS Users, Chats, UserOf,        \* UserOf: owner of a chat
          Days, ChatOf,                \* (chat, UTC day) pairs
          Passages, DayOf, Tokens,     \* content-hash identifiers
          Batches, NoBatch,            \* receipt identifiers (uuid4)
          Workers, NoWorker,           \* processes that can run a pass
          QueueTokens,                 \* settings.memory_batch_queue_tokens
          MinRoom,                     \* 1400: one passage's token bound
          MaxFailures,                 \* 3
          FlushLimit,                  \* 100 rows per import transaction
          MaxRevision,                 \* bound on source changes per day
          LockCanLapse                 \* may a pass outlive its Redis lock?

ASSUME ConstantsAssumption ==
    /\ UserOf \in [Chats -> Users]
    /\ ChatOf \in [Days -> Chats]
    /\ DayOf \in [Passages -> Days]
    /\ Passages \subseteq Nat
    /\ IsFiniteSet(Passages)
    /\ Tokens \in [Passages -> Nat \ {0}]
    /\ {QueueTokens, MinRoom, MaxFailures, FlushLimit, MaxRevision} \subseteq Nat
    /\ FlushLimit > 0 /\ MaxRevision > 0
    /\ NoBatch \notin Batches
    /\ NoWorker \notin Workers
    /\ LockCanLapse \in BOOLEAN

VARIABLES
    active,     \* users.is_active
    enabled,    \* telegram_chats.indexing_enabled
    content,    \* passages build_passages yields for the current messages
    revision,   \* memory_days.revision, 0 while the day has no row
    prepared,   \* memory_days.prepared_revision
    rows,       \* memory_passages: the identifiers that have a row
    rowRev,     \* ... .revision
    claim,      \* ... .batch_id
    embedded,   \* ... .embedding IS NOT NULL
    failures,   \* ... .failures
    ripe,       \* rows that satisfy the five-minute rule of the claim
    status,     \* memory_batches.status, "none" before the receipt exists
    items,      \* ... .passage_ids
    known,      \* ... .provider_id IS NOT NULL
    wire,       \* create requests sent and not yet decided by the provider
    job,        \* the provider's batch for a receipt (metadata memory_batch)
    good,       \* its output: passages with a valid vector
    garbled,    \* outputs with a foreign, duplicate or malformed line
    lock,       \* holder of the Redis lock memory:batch
    pc, todo, cur, counted, back, unread   \* per worker, see below

source   == <<active, enabled, content>>
days     == <<revision, prepared>>
passages == <<rows, rowRev, claim, embedded, failures, ripe>>
receipts == <<status, items, known>>
provider == <<wire, job, good, garbled>>
passes   == <<pc, todo, cur, counted, back, unread>>
vars     == <<source, days, passages, receipts, provider, lock, passes>>

Final   == {"applied", "failed", "cancelled", "expired"}
Settled == Final \cup {"blocked"}     \* not selected by reconcile_batches
Open    == {"prepared", "submitting", "unknown", "in_progress", "completed"}
Statuses == {"none"} \cup Settled \cup Open

Ended == {"completed", "expired", "cancelled"}       \* remote, with output
Jobs  == {"none", "in_progress", "failed"} \cup Ended

Steps == {"idle", "reconcile", "release", "close", "import", "receipt",
          "prepare", "claim", "check", "upload", "create", "await"}
Plans == {"skip", "prepared", "ambiguous", "known"}

TypeOK ==
    /\ active \in [Users -> BOOLEAN]
    /\ enabled \in [Chats -> BOOLEAN]
    /\ content \subseteq Passages
    /\ revision \in [Days -> 0..MaxRevision]
    /\ prepared \in [Days -> 0..MaxRevision]
    /\ rows \subseteq Passages
    /\ rowRev \in [Passages -> 0..MaxRevision]
    /\ claim \in [Passages -> Batches \cup {NoBatch}]
    /\ embedded \subseteq rows
    /\ failures \in [Passages -> Nat]
    /\ ripe \subseteq rows
    /\ status \in [Batches -> Statuses]
    /\ items \in [Batches -> SUBSET Passages]
    /\ known \subseteq Batches
    /\ wire \subseteq Batches
    /\ job \in [Batches -> Jobs]
    /\ good \in [Batches -> SUBSET Passages]
    /\ garbled \subseteq Batches
    /\ lock \in Workers \cup {NoWorker}
    /\ pc \in [Workers -> Steps]
    /\ todo \in [Workers -> [Batches -> Plans]]
    /\ cur \in [Workers -> Batches \cup {NoBatch}]
    /\ counted \in [Workers -> BOOLEAN]
    /\ back \in [Workers -> {"reconcile", "idle"}]
    /\ unread \in [Workers -> SUBSET Passages]

NothingToDo == [b \in Batches |-> "skip"]

\* Any archive: messages may predate the tables, so days start without rows.
Init ==
    /\ active \in [Users -> BOOLEAN]
    /\ enabled \in [Chats -> BOOLEAN]
    /\ content \in SUBSET Passages
    /\ revision = [d \in Days |-> 0]
    /\ prepared = [d \in Days |-> 0]
    /\ rows = {} /\ embedded = {} /\ ripe = {}
    /\ rowRev = [p \in Passages |-> 0]
    /\ claim = [p \in Passages |-> NoBatch]
    /\ failures = [p \in Passages |-> 0]
    /\ status = [b \in Batches |-> "none"]
    /\ items = [b \in Batches |-> {}]
    /\ known = {} /\ wire = {} /\ garbled = {}
    /\ job = [b \in Batches |-> "none"]
    /\ good = [b \in Batches |-> {}]
    /\ lock = NoWorker
    /\ pc = [w \in Workers |-> "idle"]
    /\ todo = [w \in Workers |-> NothingToDo]
    /\ cur = [w \in Workers |-> NoBatch]
    /\ counted = [w \in Workers |-> FALSE]
    /\ back = [w \in Workers |-> "idle"]
    /\ unread = [w \in Workers |-> {}]

-----------------------------------------------------------------------------
(* Predicates that the SQL repeats.                                        *)

PassagesOf(D) == {p \in Passages : DayOf[p] \in D}
Stored(d)     == revision[d] > 0 \/ content \cap PassagesOf({d}) # {}
DaysOf(c)     == {d \in Days : ChatOf[d] = c /\ Stored(d)}

\* c.indexing_enabled AND u.is_active
Access(d) == enabled[ChatOf[d]] /\ active[UserOf[ChatOf[d]]]

\* p.revision = d.revision AND d.prepared_revision = d.revision AND access
Current(p) == /\ rowRev[p] = revision[DayOf[p]]
              /\ prepared[DayOf[p]] = revision[DayOf[p]]
              /\ Access(DayOf[p])

\* The memory_candidates of a hybrid search.
Retrievable == {p \in embedded : Current(p)}

TokensOf(S) == MapThenSumSet(LAMBDA p : Tokens[p], S)
Queued      == MapThenSumSet(LAMBDA b : TokensOf(items[b]),
                             {b \in Batches : status[b] \notin Final \cup {"none"}})

-----------------------------------------------------------------------------
(* The archive.  Every action is one transaction together with its trigger. *)

\* mark_memory_day and mark_memory_chat: insert the row at 1, or add 1.
Mark(D) == revision' = [d \in Days |-> IF d \in D THEN revision[d] + 1
                                                  ELSE revision[d]]

\* A message of the day is stored, edited, transcribed or tombstoned.
EditDay(d) ==
    /\ revision[d] < MaxRevision
    /\ \E S \in SUBSET PassagesOf({d}) :
           content' = (content \ PassagesOf({d})) \cup S
    /\ Mark({d})
    /\ UNCHANGED <<active, enabled, prepared, passages, receipts, provider,
                   lock, passes>>

\* Mutant: the trigger of migration 034 is missing.
RenameChatUnmarked(c) ==
    /\ \E S \in SUBSET PassagesOf(DaysOf(c)) :
           content' = (content \ PassagesOf(DaysOf(c))) \cup S
    /\ UNCHANGED <<active, enabled, days, passages, receipts, provider,
                   lock, passes>>

\* A new title changes the text of every passage of the chat; the trigger is
\* restricted to selected chats (NEW.indexing_enabled).
RenameChat(c) ==
    /\ \A d \in DaysOf(c) : revision[d] < MaxRevision
    /\ \E S \in SUBSET PassagesOf(DaysOf(c)) :
           content' = (content \ PassagesOf(DaysOf(c))) \cup S
    /\ Mark(IF enabled[c] THEN DaysOf(c) ELSE {})
    /\ UNCHANGED <<active, enabled, prepared, passages, receipts, provider,
                   lock, passes>>

\* Mutant: a re-selected chat keeps the passages prepared before.
SetIndexingUnmarked(c, on) ==
    /\ enabled[c] # on
    /\ enabled' = [enabled EXCEPT ![c] = on]
    /\ UNCHANGED <<active, content, days, passages, receipts, provider,
                   lock, passes>>

SetIndexing(c, on) ==
    /\ enabled[c] # on
    /\ on => \A d \in DaysOf(c) : revision[d] < MaxRevision
    /\ enabled' = [enabled EXCEPT ![c] = on]
    /\ Mark(IF on THEN DaysOf(c) ELSE {})
    /\ UNCHANGED <<active, content, prepared, passages, receipts, provider,
                   lock, passes>>

SetActive(u, on) ==
    /\ active[u] # on
    /\ active' = [active EXCEPT ![u] = on]
    /\ UNCHANGED <<enabled, content, days, passages, receipts, provider,
                   lock, passes>>

\* INSERT ... SELECT over accessible messages, ON CONFLICT DO NOTHING.
SeedDays ==
    /\ \E d \in Days : revision[d] = 0 /\ Stored(d) /\ Access(d)
    /\ Mark({d \in Days : revision[d] = 0 /\ Stored(d) /\ Access(d)})
    /\ UNCHANGED <<source, prepared, passages, receipts, provider, lock, passes>>

-----------------------------------------------------------------------------
(* Preparing a changed day: one transaction that holds the day's row lock.  *)

PrepareDay(d) ==
    LET new  == content \cap PassagesOf({d})
        gone == (rows \cap PassagesOf({d})) \ new
    IN
    /\ revision[d] # prepared[d]
    /\ Access(d)
    /\ rows' = (rows \ gone) \cup new
    /\ embedded' = embedded \ gone
    /\ ripe' = ripe \ gone
    /\ rowRev' = [p \in Passages |-> IF p \in new THEN revision[d]
                                     ELSE IF p \in gone THEN 0 ELSE rowRev[p]]
    /\ claim' = [p \in Passages |-> IF p \in gone THEN NoBatch ELSE claim[p]]
    /\ failures' = [p \in Passages |-> IF p \in gone THEN 0 ELSE failures[p]]
    /\ prepared' = [prepared EXCEPT ![d] = revision[d]]
    /\ UNCHANGED <<source, revision, receipts, provider, lock>>

\* The CLI's --prepare-all loop does not take the Redis lock.
PrepareAll == (\E d \in Days : PrepareDay(d)) /\ UNCHANGED passes

\* The day is over, or five minutes have passed since the row was inserted.
Ripen(p) ==
    /\ p \in rows \ ripe
    /\ ripe' = ripe \cup {p}
    /\ UNCHANGED <<source, days, rows, rowRev, claim, embedded, failures,
                   receipts, provider, lock, passes>>

-----------------------------------------------------------------------------
(* The pass.  todo is what reconcile_batches still has to look at, as its   *)
(* SELECT saw it; cur is the batch at hand; counted and back say whether a  *)
(* release adds a failure and where the pass goes after it; unread are the  *)
(* valid lines of the output not yet imported.                              *)

Goto(w, step) == pc' = [pc EXCEPT ![w] = step]

\* The pass returns or raises: its frame is gone and the lock is given up
\* (a lock that was lost is not: the release is refused by its token).
Finish(w) ==
    /\ Goto(w, "idle")
    /\ todo' = [todo EXCEPT ![w] = NothingToDo]
    /\ cur' = [cur EXCEPT ![w] = NoBatch]
    /\ counted' = [counted EXCEPT ![w] = FALSE]
    /\ back' = [back EXCEPT ![w] = "idle"]
    /\ unread' = [unread EXCEPT ![w] = {}]
    /\ lock' = IF lock = w THEN NoWorker ELSE lock

\* Mutant: receipts without a provider id are not looked for.
StartPassKnownOnly(w) ==
    /\ pc[w] = "idle"
    /\ lock = NoWorker
    /\ lock' = w
    /\ Goto(w, "reconcile")
    /\ todo' = [todo EXCEPT ![w] = [b \in Batches |->
           CASE status[b] \in Open /\ b \in known -> "known"
             [] status[b] = "prepared" /\ b \notin known -> "prepared"
             [] OTHER -> "skip"]]
    /\ UNCHANGED <<source, days, passages, receipts, provider,
                   cur, counted, back, unread>>

StartPass(w) ==
    /\ pc[w] = "idle"
    /\ lock = NoWorker
    /\ lock' = w
    /\ Goto(w, "reconcile")
    /\ todo' = [todo EXCEPT ![w] = [b \in Batches |->
           CASE status[b] \notin Open  -> "skip"
             [] status[b] \in Open /\ b \in known -> "known"
             [] status[b] = "prepared" /\ b \notin known -> "prepared"
             [] OTHER -> "ambiguous"]]
    /\ UNCHANGED <<source, days, passages, receipts, provider,
                   cur, counted, back, unread>>

\* An uncaught exception, a killed process or a restart, at any point.
Die(w) ==
    /\ pc[w] # "idle"
    /\ Finish(w)
    /\ UNCHANGED <<source, days, passages, receipts, provider>>

\* The soft time limit interrupts run_async, which leaves the coroutine
\* running, and the with-block gives the lock up; or a CLI pass outlives the
\* lock's 600 seconds.
LoseLock(w) ==
    /\ LockCanLapse
    /\ lock = w
    /\ lock' = NoWorker
    /\ UNCHANGED <<source, days, passages, receipts, provider, passes>>

Visited(w, b) == todo' = [todo EXCEPT ![w][b] = "skip"]

\* Mutant: a submission of unknown fate is released like a prepared one.
ReturnAnyClaims(w, b) ==
    /\ pc[w] = "reconcile"
    /\ todo[w][b] \in {"prepared", "ambiguous"}
    /\ Visited(w, b)
    /\ cur' = [cur EXCEPT ![w] = b]
    /\ counted' = [counted EXCEPT ![w] = FALSE]
    /\ back' = [back EXCEPT ![w] = "reconcile"]
    /\ Goto(w, "release")
    /\ UNCHANGED <<source, days, passages, receipts, provider, lock, unread>>

\* "prepared" without a provider id: no network write was begun.
ReturnClaims(w, b) ==
    /\ pc[w] = "reconcile"
    /\ todo[w][b] = "prepared"
    /\ Visited(w, b)
    /\ cur' = [cur EXCEPT ![w] = b]
    /\ counted' = [counted EXCEPT ![w] = FALSE]
    /\ back' = [back EXCEPT ![w] = "reconcile"]
    /\ Goto(w, "release")
    /\ UNCHANGED <<source, days, passages, receipts, provider, lock, unread>>

\* The provider's list has no batch with this receipt in its metadata.
NotListed(w, b) ==
    /\ pc[w] = "reconcile"
    /\ todo[w][b] = "ambiguous"
    /\ job[b] = "none"
    /\ Visited(w, b)
    /\ UNCHANGED <<source, days, passages, receipts, provider, lock,
                   pc, cur, counted, back, unread>>

\* The remote batch is found by its metadata or retrieved by its id, the
\* receipt is updated, and the remote status decides what is next.
Reconcile(w, b) ==
    /\ pc[w] = "reconcile"
    /\ todo[w][b] \in {"ambiguous", "known"}
    /\ job[b] # "none"
    /\ Visited(w, b)
    /\ known' = known \cup {b}
    /\ status' = IF todo[w][b] = "ambiguous" \/ job[b] = "in_progress"
                 THEN [status EXCEPT ![b] = job[b]] ELSE status
    /\ Goto(w, CASE job[b] \in Ended  -> "import"
                 [] job[b] = "failed" -> "release"
                 [] OTHER             -> "reconcile")
    /\ cur' = [cur EXCEPT ![w] = IF job[b] = "in_progress" THEN NoBatch ELSE b]
    /\ unread' = [unread EXCEPT ![w] = IF job[b] \in Ended THEN good[b] ELSE {}]
    /\ \E c \in BOOLEAN :     \* "token_limit" not in code
           /\ c => job[b] = "failed"
           /\ counted' = [counted EXCEPT ![w] = c]
    /\ back' = [back EXCEPT ![w] = "reconcile"]
    /\ UNCHANGED <<source, days, passages, items, provider, lock>>

\* _release, first transaction: unembedded claims go back to the pool.
ReleaseClaims(w) ==
    LET freed == {p \in rows \ embedded : claim[p] = cur[w]} IN
    /\ pc[w] = "release"
    /\ claim' = [p \in Passages |-> IF p \in freed THEN NoBatch ELSE claim[p]]
    /\ failures' = [p \in Passages |-> IF p \in freed /\ counted[w]
                                       THEN failures[p] + 1 ELSE failures[p]]
    /\ Goto(w, "close")
    /\ UNCHANGED <<source, days, rows, rowRev, embedded, ripe, receipts,
                   provider, lock, todo, cur, counted, back, unread>>

\* _release, second transaction.  A release during submission ends the pass.
CloseFailed(w) ==
    /\ pc[w] = "close"
    /\ status' = [status EXCEPT ![cur[w]] = "failed"]
    /\ \/ /\ back[w] = "reconcile"
          /\ Goto(w, "reconcile")
          /\ cur' = [cur EXCEPT ![w] = NoBatch]
          /\ counted' = [counted EXCEPT ![w] = FALSE]
          /\ UNCHANGED <<lock, todo, back, unread>>
       \/ /\ back[w] = "idle"
          /\ Finish(w)
    /\ UNCHANGED <<source, days, passages, items, known, provider>>

\* One flush of _apply_output.  A garbled output raises before its last,
\* incomplete flush; every flush re-checks claim, revision and access.
ImportVectors(w) ==
    /\ pc[w] = "import"
    /\ unread[w] # {}
    /\ \E S \in SUBSET unread[w] :
           /\ \/ Cardinality(S) = FlushLimit
              \/ /\ S = unread[w]
                 /\ Cardinality(S) < FlushLimit
                 /\ cur[w] \notin garbled
           /\ unread' = [unread EXCEPT ![w] = @ \ S]
           /\ embedded' = embedded \cup
                  {p \in S \cap rows : claim[p] = cur[w] /\ Current(p)}
    /\ UNCHANGED <<source, days, rows, rowRev, claim, failures, ripe, receipts,
                   provider, lock, pc, todo, cur, counted, back>>

\* Mutant: failures are counted but the claims are not returned.
CountMissingOnly(w) ==
    LET missing == {p \in rows \ embedded : claim[p] = cur[w]} IN
    /\ pc[w] = "import"
    /\ unread[w] = {}
    /\ cur[w] \notin garbled
    /\ failures' = [p \in Passages |-> IF p \in missing THEN failures[p] + 1
                                                        ELSE failures[p]]
    /\ Goto(w, "receipt")
    /\ UNCHANGED <<source, days, rows, rowRev, claim, embedded, ripe, receipts,
                   provider, lock, todo, cur, counted, back, unread>>

\* The claims that got no vector are released and counted as failed items.
ReleaseMissing(w) ==
    LET missing == {p \in rows \ embedded : claim[p] = cur[w]} IN
    /\ pc[w] = "import"
    /\ unread[w] = {}
    /\ cur[w] \notin garbled
    /\ claim' = [p \in Passages |-> IF p \in missing THEN NoBatch ELSE claim[p]]
    /\ failures' = [p \in Passages |-> IF p \in missing THEN failures[p] + 1
                                                        ELSE failures[p]]
    /\ Goto(w, "receipt")
    /\ UNCHANGED <<source, days, rows, rowRev, embedded, ripe, receipts,
                   provider, lock, todo, cur, counted, back, unread>>

WriteReceipt(w) ==
    /\ pc[w] = "receipt"
    /\ status' = [status EXCEPT ![cur[w]] = "applied"]
    /\ Goto(w, "reconcile")
    /\ cur' = [cur EXCEPT ![w] = NoBatch]
    /\ UNCHANGED <<source, days, passages, items, known, provider, lock,
                   todo, counted, back, unread>>

\* A blocked receipt pauses the whole queue, otherwise days are prepared.
EndReconcile(w) ==
    /\ pc[w] = "reconcile"
    /\ todo[w] = NothingToDo
    /\ \/ /\ \E b \in Batches : status[b] = "blocked"
          /\ Finish(w)
       \/ /\ \A b \in Batches : status[b] # "blocked"
          /\ Goto(w, "prepare")
          /\ UNCHANGED <<lock, todo, cur, counted, back, unread>>
    /\ UNCHANGED <<source, days, passages, receipts, provider>>

PassPrepares(w) ==
    /\ pc[w] = "prepare"
    /\ \E d \in Days : PrepareDay(d)
    /\ UNCHANGED passes

\* No changed day is left, or the limit, 90 seconds or the disk says so.
EndPrepare(w) ==
    /\ pc[w] = "prepare"
    /\ Goto(w, "claim")
    /\ back' = [back EXCEPT ![w] = "idle"]
    /\ UNCHANGED <<source, days, passages, receipts, provider, lock,
                   todo, cur, counted, unread>>

Claimable == {p \in (rows \cap ripe) \ embedded :
                  claim[p] = NoBatch /\ failures[p] < MaxFailures /\ Current(p)}

\* The loop stops at the first row that does not fit.
Selected == {p \in Claimable :
                 TokensOf({q \in Claimable : q <= p}) <= QueueTokens - Queued}

ClaimBatch(w, b) ==
    /\ pc[w] = "claim"
    /\ status[b] = "none"
    /\ Queued + MinRoom <= QueueTokens
    /\ Selected # {}
    /\ items' = [items EXCEPT ![b] = Selected]
    /\ status' = [status EXCEPT ![b] = "prepared"]
    /\ claim' = [p \in Passages |-> IF p \in Selected THEN b ELSE claim[p]]
    /\ cur' = [cur EXCEPT ![w] = b]
    /\ Goto(w, "check")
    /\ UNCHANGED <<source, days, rows, rowRev, embedded, failures, ripe, known,
                   provider, lock, todo, counted, back, unread>>

\* Nothing to claim, the submit limit is reached, or the disk is full.
EndPass(w) ==
    /\ pc[w] = "claim"
    /\ Finish(w)
    /\ UNCHANGED <<source, days, passages, receipts, provider>>

\* _submit counts the claims that are still current and accessible.
CheckSources(w) ==
    /\ pc[w] = "check"
    /\ Goto(w, IF items[cur[w]] = {p \in rows : claim[p] = cur[w] /\ Current(p)}
               THEN "upload" ELSE "release")
    /\ UNCHANGED <<source, days, passages, receipts, provider, lock,
                   todo, cur, counted, back, unread>>

\* Mutant: a status outside the ones that the pass and the claim know.
UploadUnlisted(w) ==
    /\ pc[w] = "upload"
    /\ status' = [status EXCEPT ![cur[w]] = "uploading"]
    /\ Goto(w, "create")
    /\ UNCHANGED <<source, days, passages, items, known, provider, lock,
                   todo, cur, counted, back, unread>>

\* files.create succeeded; the receipt says "submitting" before the create.
Upload(w) ==
    /\ pc[w] = "upload"
    /\ status' = [status EXCEPT ![cur[w]] = "submitting"]
    /\ Goto(w, "create")
    /\ UNCHANGED <<source, days, passages, items, known, provider, lock,
                   todo, cur, counted, back, unread>>

SendCreate(w) ==
    /\ pc[w] = "create"
    /\ wire' = wire \cup {cur[w]}
    /\ Goto(w, "await")
    /\ UNCHANGED <<source, days, passages, receipts, job, good, garbled, lock,
                   todo, cur, counted, back, unread>>

Created(w) ==
    /\ pc[w] = "await"
    /\ job[cur[w]] # "none"
    /\ known' = known \cup {cur[w]}
    /\ status' = [status EXCEPT ![cur[w]] = "in_progress"]
    /\ Goto(w, "claim")
    /\ cur' = [cur EXCEPT ![w] = NoBatch]
    /\ UNCHANGED <<source, days, passages, items, provider, lock,
                   todo, counted, back, unread>>

\* The provider's answer to the upload or to the create was an error; an
\* answer to the create means that it did not take effect.
Refused(w) == /\ pc[w] \in {"upload", "await"}
              /\ pc[w] = "await" => cur[w] \in wire
              /\ wire' = wire \ {cur[w]}

\* Any 4xx; a 429 is not counted as a failure.
SubmitRejected(w) ==
    /\ Refused(w)
    /\ \E c \in BOOLEAN : counted' = [counted EXCEPT ![w] = c]
    /\ Goto(w, "release")
    /\ UNCHANGED <<source, days, passages, receipts, job, good, garbled, lock,
                   todo, cur, back, unread>>

\* insufficient_quota or billing_hard_limit_reached.
SubmitBlocked(w) ==
    /\ Refused(w)
    /\ status' = [status EXCEPT ![cur[w]] = "blocked"]
    /\ Finish(w)
    /\ UNCHANGED <<source, days, passages, items, known, job, good, garbled>>

\* Timeout, lost connection, 5xx, or a failing statement of _submit itself.
SubmitUncertain(w) ==
    /\ pc[w] \in {"check", "upload", "create", "await"}
    /\ status' = [status EXCEPT ![cur[w]] = "unknown"]
    /\ Finish(w)
    /\ UNCHANGED <<source, days, passages, items, known, provider>>

-----------------------------------------------------------------------------
(* The provider (external).                                                *)

AcceptCreate(b) ==
    /\ b \in wire
    /\ wire' = wire \ {b}
    /\ job' = [job EXCEPT ![b] = "in_progress"]
    /\ UNCHANGED <<source, days, passages, receipts, good, garbled, lock, passes>>

LoseCreate(b) ==
    /\ b \in wire
    /\ wire' = wire \ {b}
    /\ UNCHANGED <<source, days, passages, receipts, job, good, garbled, lock,
                   passes>>

\* An expired or cancelled batch still has the output it got to.
EndJob(b, outcome) ==
    /\ job[b] = "in_progress"
    /\ job' = [job EXCEPT ![b] = outcome]
    /\ \E S \in SUBSET items[b] : /\ outcome = "failed" => S = {}
                                  /\ good' = [good EXCEPT ![b] = S]
    /\ UNCHANGED <<source, days, passages, receipts, wire, garbled, lock, passes>>

GarbleOutput(b) ==
    /\ job[b] = "in_progress"
    /\ garbled' = garbled \cup {b}
    /\ UNCHANGED <<source, days, passages, receipts, wire, job, good, lock, passes>>

-----------------------------------------------------------------------------
Archive == \/ \E d \in Days : EditDay(d)
           \/ \E c \in Chats : RenameChat(c)
           \/ \E c \in Chats, on \in BOOLEAN : SetIndexing(c, on)
           \/ \E u \in Users, on \in BOOLEAN : SetActive(u, on)
           \/ SeedDays
           \/ PrepareAll
           \/ \E p \in Passages : Ripen(p)

Reconciling(w) == \/ StartPass(w)
                  \/ \E b \in Batches : \/ ReturnClaims(w, b)
                                        \/ NotListed(w, b)
                                        \/ Reconcile(w, b)
                  \/ ReleaseClaims(w) \/ CloseFailed(w)
                  \/ ImportVectors(w) \/ ReleaseMissing(w) \/ WriteReceipt(w)
                  \/ EndReconcile(w)

Submitting(w) == \/ PassPrepares(w) \/ EndPrepare(w)
                 \/ \E b \in Batches : ClaimBatch(w, b)
                 \/ EndPass(w)
                 \/ CheckSources(w) \/ Upload(w) \/ SendCreate(w) \/ Created(w)

Disturbance(w) == \/ Die(w) \/ LoseLock(w)
                  \/ SubmitRejected(w) \/ SubmitBlocked(w) \/ SubmitUncertain(w)

Provider == \E b \in Batches : \/ AcceptCreate(b) \/ LoseCreate(b)
                               \/ \E o \in Ended \cup {"failed"} : EndJob(b, o)
                               \/ GarbleOutput(b)

Next == \/ Archive
        \/ \E w \in Workers : Reconciling(w) \/ Submitting(w) \/ Disturbance(w)
        \/ Provider

Spec == Init /\ [][Next]_vars

\* The beat starts a pass every minute and a pass goes on by itself; each
\* pass tries to prepare and to claim at least once; time passes; the provider
\* decides about every create request and ends every job.
Fairness == /\ \A w \in Workers : /\ WF_vars(Reconciling(w))
                                  /\ WF_vars(Submitting(w))
                                  /\ SF_vars(PassPrepares(w))
                                  /\ SF_vars(\E b \in Batches : ClaimBatch(w, b))
                                  /\ SF_vars(Created(w))
            /\ \A p \in Passages : WF_vars(Ripen(p))
            /\ \A b \in Batches :
                   /\ WF_vars(AcceptCreate(b) \/ LoseCreate(b))
                   /\ WF_vars(\E o \in Ended \cup {"failed"} : EndJob(b, o))

FairSpec == Spec /\ Fairness

-----------------------------------------------------------------------------
(* Safety.                                                                 *)

\* Search never returns a passage that the current messages do not yield:
\* revisions, access and the atomic preparation of a day together make every
\* searchable vector one of the current source (docs/architecture/
\* memory-batch.md, "Changed source revisions immediately leave semantic
\* retrieval"), also across a rename while the chat is deselected.
NoStaleRetrieval == Retrievable \subseteq content

\* A receipt whose claims were given back has no create request on its way and
\* no job that still runs: what was released can be submitted again without a
\* second charge (the comment on _submit).
ClosedReceiptHasNoJob ==
    \A b \in Batches : status[b] \in Settled => b \notin wire
                                             /\ job[b] # "in_progress"

\* A claim is always listed by its receipt, which reconcile_batches will
\* import against passage_ids; and once a receipt is applied, every passage it
\* still claims has its vector, so that no passage waits for nothing.
ReceiptsCoverClaims ==
    \A p \in rows : claim[p] # NoBatch =>
        /\ p \in items[claim[p]]
        /\ status[claim[p]] # "none"
        /\ status[claim[p]] = "applied" => p \in embedded

\* The index implements MemoryIndex: a change of the source or of the access
\* takes effect in search in the same step.
Index == INSTANCE MemoryIndex
    WITH source <- content, open <- {d \in Days : Access(d)},
         visible <- Retrievable
ImplementsIndex == Index!Spec

-----------------------------------------------------------------------------
(* Liveness.                                                               *)

\* Eventually no crash and no failing request, and no malformed output.  (A
\* pass that ends by itself leaves the same state as one that is killed then.)
Interruption(w) == Disturbance(w) /\ ~EndPass(w) /\ ~EndReconcile(w)
Calm == /\ <>[][\A w \in Workers : ~Interruption(w)]_vars
        /\ [](garbled = {})

\* The request of an ambiguous receipt never reached the provider.
Lost(b) == status[b] \in {"submitting", "unknown"} /\ job[b] = "none"

\* Why the queue may rightly, or by a known defect, not move any more: the
\* receipts of the instance are used up, one waits for the operator, one is
\* lost, or one is final although it still holds claims.
Halted ==
    \/ \A b \in Batches : status[b] # "none"
    \/ \E b \in Batches : status[b] = "blocked" \/ Lost(b)
    \/ \E p \in rows \ embedded : /\ claim[p] # NoBatch
                                  /\ status[claim[p]] \in {"failed", "cancelled",
                                                           "expired"}

\* Once the source stays as it is, every accessible passage of a day that the
\* triggers or the seed have marked ends up searchable for good, however often
\* its day was changed before, or has used up its attempts, unless the queue has
\* halted for good.  (That it was searchable before the last change is not enough.)
EventuallySearchable ==
    Calm => \A p \in Passages :
        <>[](p \in content /\ revision[DayOf[p]] > 0 /\ Access(DayOf[p]))
            => <>[](p \in Retrievable \/ failures[p] >= MaxFailures) \/ <>[]Halted

-----------------------------------------------------------------------------
(* What comments and documents say and the code does not do.               *)

\* "Failed/expired partial results are recoverable": outside a pass, a passage
\* without a vector is free or claimed by a receipt that will be looked at.
ClaimsAreOpen ==
    (\A w \in Workers : pc[w] = "idle") =>
        \A p \in rows \ embedded :
            claim[p] # NoBatch => status[claim[p]] \notin Final
=============================================================================
