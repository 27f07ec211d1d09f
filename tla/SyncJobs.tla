------------------------------ MODULE SyncJobs ------------------------------
(***************************************************************************)
(* The history jobs of one account: rows of sync_jobs, the Redis lock that *)
(* lets one sync run at a time, the Celery messages that carry the jobs to *)
(* the two worker slots, the heartbeat keys, the reaper that fails silent  *)
(* jobs and frees their lock, and the periodic resume of history that is   *)
(* still missing (tasks/sync_tasks.py, api/v1/sync.py, api/v1/indexing.py). *)
(*                                                                         *)
(* Time is not counted.  `old' says that updated_at is more than fifteen   *)
(* minutes ago, `beat' that the heartbeat key exists; both may change      *)
(* whenever the code could be slow enough, with two exceptions, for moments *)
(* of a few database or Redis calls: a run does not spend fifteen minutes  *)
(* between taking the lock and its first heartbeat (Age), and the next run *)
(* of a job - retries have a countdown - does not begin while the last one *)
(* releases the lock or the reaper's transaction looks at the job (Due,    *)
(* Quiet).                                                                 *)
(*                                                                         *)
(* What may go wrong is bounded by MaxFaults and drawn from Faults:        *)
(*   lost       delay() fails, or the process dies before it               *)
(*   duplicate  the broker delivers an unacknowledged message again        *)
(*   crash      the worker dies; its message is delivered again            *)
(*   silence    a live run lets its heartbeat key expire                   *)
(*   lapse      a live run fails to refresh its lock for the TTL           *)
(*   budget     the Telegram request budget is used up                     *)
(*   flood      Telegram answers FloodWait                                 *)
(*   error      any other exception of a sync                              *)
(*   unauthorized  the Telegram session is no longer accepted              *)
(*   reaper     the reaper dies in the middle of its transaction           *)
(***************************************************************************)
EXTENDS Naturals, Sequences, FiniteSets, SequencesExt, BagsExt

CONSTANTS
  Chats,        \* chats of the account
  Jobs,         \* ids of sync jobs
  Workers,      \* worker slots of the default queue (wai-celery: two)
  Bulk,         \* chat_id of a job for all chats
  NoOne,        \* nobody: no job, no chat, no lock holder
  AutoIndex,    \* users.auto_index_since is set
  MayClose,     \* the single-user cutover may happen
  UserModes,    \* modes the user may ask for: with a limit or without
  MaxRetries,   \* max_retries of sync_chat_task
  MaxWaiting,   \* bound: copies of a dispatched message that wait at once
  Faults,       \* kinds of faults that may occur
  MaxFaults,    \* bound: how many faults occur
  MaxRequests,  \* bound: how many requests the user makes
  Fresh(_)      \* those of the unused ids that a new row may get

ASSUME ConstantsAssumption ==
  /\ IsFiniteSet(Jobs) /\ IsFiniteSet(Workers)
  /\ Bulk \notin Chats /\ NoOne \notin Chats \cup Jobs \cup Workers
  /\ AutoIndex \in BOOLEAN /\ MayClose \in BOOLEAN
  /\ UserModes \subseteq {"all", "latest"}
  /\ MaxRetries \in Nat /\ MaxWaiting \in Nat \ {0}
  /\ MaxFaults \in Nat /\ MaxRequests \in Nat
  /\ \A S \in SUBSET Jobs : Fresh(S) \in SUBSET S /\ (S # {} => Fresh(S) # {})

VARIABLES
  job,       \* sync_jobs, with the age of updated_at and the heartbeat key
  order,     \* the rows in the order of created_at
  lock,      \* sync:{user}:lock - the job in "owner", the attempt in "token"
  queue,     \* messages at the broker
  run,       \* what each worker slot is doing
  reap,      \* the transaction of the reaper
  selected,  \* chats with indexing_enabled
  synced,    \* chats with history_synced_at
  account,   \* users.is_active, and whether the cutover has still to purge
  session,   \* there is a TelegramSession with is_active
  faults, requests

db    == <<job, order, selected, synced, account, session>>
vars  == <<job, order, lock, queue, run, reap, selected, synced,
           account, session, faults, requests>>

Terminal == {"COMPLETED", "FAILED", "CANCELLED"}
Statuses == Terminal \cup {"PENDING", "IN_PROGRESS"}
Absent   == [status |-> "absent", chat |-> NoOne, old |-> FALSE, beat |-> FALSE]

\* What a run does: "resume" loads the rest of the chats without history
\* (limit_per_chat 0, only_incomplete), "all" everything, "latest" a page.
Modes    == {"resume", "all", "latest"}
Messages == [job : Jobs, tries : 0 .. MaxRetries, mode : Modes]

Idle == [pc |-> "idle", msg |-> NoOne, sub |-> NoOne, left |-> {}, failed |-> FALSE]
Free == [job |-> NoOne, by |-> NoOne]
Calm == [todo |-> {}, doomed |-> {}]

TypeOK ==
  /\ job \in [Jobs -> [status : Statuses \cup {"absent"}, chat : Chats \cup {Bulk, NoOne},
                       old : BOOLEAN, beat : BOOLEAN]]
  /\ order \in Seq(Jobs)
  /\ lock \in [job : Jobs \cup {NoOne}, by : Workers \cup {NoOne}]
  /\ IsABag(queue) /\ BagToSet(queue) \subseteq Messages
  /\ run \in [Workers ->
       [pc : {"idle", "entry", "locked", "started", "between", "syncing", "synced",
              "release"},
        msg : Messages \cup {NoOne}, sub : Jobs \cup {NoOne},
        left : SUBSET Chats, failed : BOOLEAN]]
  /\ reap \in [todo : SUBSET Jobs, doomed : SUBSET Jobs]
  /\ selected \in SUBSET Chats /\ synced \in SUBSET Chats
  /\ account \in {"active", "closing", "closed"} /\ session \in BOOLEAN
  /\ faults \in 0 .. MaxFaults /\ requests \in 0 .. MaxRequests

Init ==
  /\ job = [j \in Jobs |-> Absent] /\ order = <<>> /\ lock = Free
  /\ queue = EmptyBag
  /\ run = [w \in Workers |-> Idle] /\ reap = Calm
  /\ selected \in SUBSET Chats /\ synced = {} /\ account = "active"
  /\ session = TRUE
  /\ faults = 0 /\ requests = 0

Fault(kind) == kind \in Faults /\ faults < MaxFaults /\ faults' = faults + 1
Request     == requests < MaxRequests /\ requests' = requests + 1

-----------------------------------------------------------------------------
(* Rows.  Every UPDATE renews updated_at. *)

Exists(j)    == job[j].status # "absent"
IsBulk(j)    == job[j].chat = Bulk
Running(j)   == job[j].status = "IN_PROGRESS"
Open(j)      == job[j].status \in {"PENDING", "IN_PROGRESS"}

\* An UPDATE of the status.
Set(jobs, j, s) == [jobs EXCEPT ![j].status = s, ![j].old = FALSE]

\* _mark_job_state: terminal states are not downgraded.
Mark(jobs, j, s) ==
  IF jobs[j].status \in Terminal /\ s \notin Terminal THEN jobs ELSE Set(jobs, j, s)

\* create_sync_job, in jobs that `jobs' does not hold yet.
New(jobs, j, c, s) == [jobs EXCEPT ![j] = [status |-> s, chat |-> c, old |-> FALSE,
                                           beat |-> FALSE]]

Unused(j) == j \in Fresh({i \in Jobs : ~Exists(i)})
\* Bound: a new job leaves an id for the row of a chat of a bulk run.
Spare(j)  == Unused(j) /\ \E i \in Jobs : i # j /\ ~Exists(i)

\* _expire_stale_jobs: the silent jobs of a chat, or the silent bulk jobs.
Expired(c) == {j \in Jobs : Running(j) /\ job[j].chat = c /\ job[j].old /\ ~job[j].beat}
ExpireStale(c) == [j \in Jobs |-> IF j \in Expired(c) THEN Set(job, j, "FAILED")[j] ELSE job[j]]

-----------------------------------------------------------------------------
(* Requests of the user.  The row is committed before its message is sent. *)

\* task.delay(), or its failure, after which the row is left without a message.
Delay(m) == \/ queue' = BagAdd(queue, m) /\ UNCHANGED faults
            \/ queue' = queue /\ Fault("lost")
Message(j, mode) == [job |-> j, tries |-> 0, mode |-> mode]

\* POST /sync/all and POST /sync/chats/{id}: only a running job is in the way.
\* A refused request rolls back.
StartSync(c, j, mode) ==
  /\ Request /\ account = "active" /\ Spare(j)
  /\ LET kept == ExpireStale(c)
     IN  /\ \A i \in Jobs : kept[i].status = "IN_PROGRESS" => kept[i].chat # c
         /\ job' = New(kept, j, c, "PENDING")
  /\ order' = Append(order, j) /\ Delay(Message(j, mode))
  /\ UNCHANGED <<lock, run, reap, selected, synced, account, session>>

\* PUT of the selected chats, under the lock of the account's row.
SelectChats(S) ==
  /\ Request /\ account = "active"
  /\ selected' = S
  /\ synced' = synced \ (S \ selected)
  /\ IF S \ synced' # {} /\ \A i \in Jobs : Open(i) => ~IsBulk(i)
     THEN \E j \in Jobs :
            /\ Spare(j)
            /\ job' = New(job, j, Bulk, "PENDING")
            /\ order' = Append(order, j) /\ Delay(Message(j, "resume"))
     ELSE UNCHANGED <<job, order, queue, faults>>
  /\ UNCHANGED <<lock, run, reap, account, session>>

\* The single-user cutover: the account is closed, its open jobs cancelled ...
Deactivate ==
  /\ MayClose /\ Request /\ account = "active"
  /\ account' = "closing" /\ session' = FALSE
  /\ job' = [j \in Jobs |-> IF Open(j) THEN Set(job, j, "CANCELLED")[j] ELSE job[j]]
  /\ UNCHANGED <<order, lock, queue, run, reap, selected, synced, faults>>

\* ... and then its lock and the keys of the cancelled jobs are deleted.
Purge ==
  /\ account = "closing" /\ account' = "closed"
  /\ lock' = Free
  /\ job' = [j \in Jobs |-> IF job[j].status = "CANCELLED"
                            THEN [job[j] EXCEPT !.beat = FALSE] ELSE job[j]]
  /\ UNCHANGED <<order, queue, run, reap, selected, synced, session, faults, requests>>

\* The user logs in to Telegram again.
Login ==
  /\ Request /\ account = "active" /\ ~session /\ session' = TRUE
  /\ UNCHANGED <<job, order, lock, queue, run, reap, selected, synced, account, faults>>

-----------------------------------------------------------------------------
(* A worker slot.  acks_late: the message is acknowledged when the task ends. *)

Single(w)  == ~IsBulk(run[w].msg.job)
MyJob(w)   == run[w].msg.job
Holds(w)   == lock.by = w
Busy(w)    == run[w].pc # "idle"
At(w, pc)  == run[w].pc = pc
Goto(w, pc) == run' = [run EXCEPT ![w].pc = pc]
End(w)     == run' = [run EXCEPT ![w] = Idle]

\* The chat whose messages w is loading, and the row that stands for it.
SyncJob(w)  == IF Single(w) THEN MyJob(w) ELSE run[w].sub
SyncChat(w) == job[SyncJob(w)].chat

\* The next attempt of a job does not begin in the moment in which the last one
\* gives up its lock, nor take the lock while the reaper looks at the job.
Due(m)   == \A w \in Workers : run[w].pc = "release" => run[w].msg.job # m.job
Quiet(j) == j \notin reap.todo \cup reap.doomed

Take(w, m) ==
  /\ At(w, "idle") /\ BagIn(m, queue) /\ Due(m)
  /\ queue' = BagRemove(queue, m)
  /\ run' = [run EXCEPT ![w] = [Idle EXCEPT !.pc = "entry", !.msg = m]]
  /\ UNCHANGED <<db, lock, reap, faults, requests>>

\* The account was closed before the task began.
Skip(w) ==
  /\ At(w, "entry") /\ account # "active"
  /\ job' = Mark(job, MyJob(w), "CANCELLED") /\ End(w)
  /\ UNCHANGED <<order, lock, queue, reap, selected, synced, account, session, faults, requests>>

\* Mutant of Again: the number of retries is not limited.
AgainForever(w) == queue' = BagAdd(queue, [run[w].msg EXCEPT !.tries = @ + 1])

\* self.retry(): the message comes again, up to max_retries times.
Again(w) == queue' = IF run[w].msg.tries < MaxRetries
                     THEN BagAdd(queue, [run[w].msg EXCEPT !.tries = @ + 1]) ELSE queue

\* check_budget: the message comes again, the row is left as it is.
Defer(w) ==
  /\ At(w, "entry") /\ account = "active" /\ Single(w) /\ Fault("budget")
  /\ Again(w) /\ End(w)
  /\ UNCHANGED <<db, lock, reap, requests>>

\* Mutant of Acquire: SET without NX.
AcquireAnyway(w) ==
  /\ At(w, "entry") /\ account = "active" /\ Quiet(MyJob(w))
  /\ lock' = [job |-> MyJob(w), by |-> w] /\ Goto(w, "locked")
  /\ UNCHANGED <<db, queue, reap, faults, requests>>

Acquire(w) ==
  /\ At(w, "entry") /\ account = "active" /\ lock = Free /\ Quiet(MyJob(w))
  /\ lock' = [job |-> MyJob(w), by |-> w] /\ Goto(w, "locked")
  /\ UNCHANGED <<db, queue, reap, faults, requests>>

\* "Another sync is already in progress".
Turned(w) ==
  /\ At(w, "entry") /\ account = "active" /\ lock # Free
  /\ job' = Mark(job, MyJob(w), "FAILED") /\ End(w)
  /\ UNCHANGED <<order, lock, queue, reap, selected, synced, account, session, faults, requests>>

\* The head of _run_sync and _run_bulk_sync.  An UPDATE that changes nothing
\* is not sent: a row left IN_PROGRESS by a dead run keeps its old updated_at.
Start(w) ==
  LET j == MyJob(w)
      finished == ~Single(w) /\ job[j].status \in {"COMPLETED", "CANCELLED"}
  IN  /\ At(w, "locked")
      /\ \/ finished /\ Goto(w, "release") /\ UNCHANGED job
         \/ /\ ~finished /\ account # "active"
            /\ job' = Set(job, j, "CANCELLED") /\ Goto(w, "release")
         \/ /\ ~finished /\ account = "active"
            /\ job' = IF Running(j) THEN job ELSE Set(job, j, "IN_PROGRESS")
            /\ Goto(w, "started")
      /\ UNCHANGED <<order, lock, queue, reap, selected, synced, account, session, faults, requests>>

\* A bulk run that rediscovers dialogs needs Telegram before its first heartbeat.
NoDialogs(w) == At(w, "started") /\ ~Single(w) /\ AutoIndex /\ ~session

\* The first heartbeat; a bulk run has read its chats by then.
Touch(w) ==
  LET m == run[w].msg
  IN  /\ At(w, "started") /\ ~NoDialogs(w)
      /\ job' = [job EXCEPT ![m.job].beat = TRUE]
      /\ IF Single(w) THEN Goto(w, "syncing")
         ELSE run' = [run EXCEPT ![w].pc = "between",
                        ![w].left = IF m.mode = "resume" THEN selected \ synced ELSE selected]
      /\ UNCHANGED <<order, lock, queue, reap, selected, synced, account, session, faults, requests>>

NextChat(w, c, j) ==
  /\ At(w, "between") /\ c \in run[w].left /\ Unused(j)
  /\ job' = [New(job, j, c, "IN_PROGRESS") EXCEPT ![j].beat = TRUE, ![MyJob(w)].beat = TRUE]
  /\ order' = Append(order, j)
  /\ run' = [run EXCEPT ![w].pc = "syncing", ![w].sub = j, ![w].left = @ \ {c}]
  /\ UNCHANGED <<lock, queue, reap, selected, synced, account, session, faults, requests>>

\* on_progress and the commit of a batch: both heartbeats, and the row of the
\* chat unless nothing in it changed.
Progress(w) ==
  /\ At(w, "syncing")
  /\ \E kept \in BOOLEAN :
       job' = [job EXCEPT ![SyncJob(w)].beat = TRUE, ![MyJob(w)].beat = TRUE,
                          ![SyncJob(w)].old = @ /\ kept]
  /\ job' # job
  /\ UNCHANGED <<order, lock, queue, run, reap, selected, synced, account, session, faults, requests>>

\* sync_messages returns: the whole history was loaded unless a limit was given.
\* (Until Telegram learns of the cutover a connected client goes on.)
ChatSynced(w) ==
  /\ At(w, "syncing") /\ SyncChat(w) \in selected
  /\ session \/ account = "closing"
  /\ synced' = IF run[w].msg.mode = "latest" THEN synced ELSE synced \cup {SyncChat(w)}
  /\ Goto(w, "synced")
  /\ UNCHANGED <<job, order, lock, queue, reap, selected, account, session, faults, requests>>

\* The row of the chat is completed; a bulk run goes on to its next chat.
ChatDone(w) ==
  /\ At(w, "synced")
  /\ IF Single(w)
     THEN job' = Set(job, MyJob(w), "COMPLETED") /\ Goto(w, "release")
     ELSE /\ \E kept \in BOOLEAN :
               job' = [Set(job, run[w].sub, "COMPLETED") EXCEPT
                         ![run[w].sub].beat = FALSE, ![MyJob(w)].beat = TRUE,
                         ![MyJob(w)].old = @ /\ kept]
          /\ run' = [run EXCEPT ![w].pc = "between", ![w].sub = NoOne]
  /\ UNCHANGED <<order, lock, queue, reap, selected, synced, account, session, faults, requests>>

\* sync_messages raises, always for a chat that is not selected or without a
\* Telegram session.  One that Telegram refuses is deactivated first.
Raises(w) ==
  \/ SyncChat(w) \in selected /\ session /\ Fault("error") /\ UNCHANGED session
  \/ ~(SyncChat(w) \in selected /\ session) /\ UNCHANGED <<faults, session>>
Refused == Fault("unauthorized") /\ session' = FALSE

\* In a bulk run one failed chat does not stop the others.
ChatFailed(w) ==
  /\ At(w, "syncing") /\ ~Single(w) /\ (Raises(w) \/ Refused)
  /\ \E kept \in BOOLEAN :
       job' = [Set(job, run[w].sub, "FAILED") EXCEPT
                 ![run[w].sub].beat = FALSE, ![MyJob(w)].beat = TRUE,
                 ![MyJob(w)].old = @ /\ kept]
  /\ run' = [run EXCEPT ![w].pc = "between", ![w].sub = NoOne, ![w].failed = TRUE]
  /\ UNCHANGED <<order, lock, queue, reap, selected, synced, account, requests>>

FinishBulk(w) ==
  /\ At(w, "between") /\ run[w].left = {}
  /\ job' = Set(job, MyJob(w), IF run[w].failed THEN "FAILED" ELSE "COMPLETED")
  /\ Goto(w, "release")
  /\ UNCHANGED <<order, lock, queue, reap, selected, synced, account, session, faults, requests>>

\* An exception outside the loop body (a broken transaction, no dialogs) ends
\* the bulk run; the row of its chat is left as it is.
BulkBreaks(w) ==
  /\ run[w].pc \in {"started", "between", "syncing"} /\ ~Single(w)
  /\ IF NoDialogs(w) THEN UNCHANGED faults ELSE Fault("error")
  /\ job' = Mark(IF run[w].sub = NoOne THEN job ELSE [job EXCEPT ![run[w].sub].beat = FALSE],
                 MyJob(w), "FAILED")
  /\ run' = [run EXCEPT ![w].pc = "release", ![w].sub = NoOne]
  /\ UNCHANGED <<order, lock, queue, reap, selected, synced, account, session, requests>>

Unauthorized(w) ==
  /\ At(w, "syncing") /\ Single(w) /\ Refused
  /\ job' = Mark(job, MyJob(w), "FAILED") /\ Goto(w, "release")
  /\ UNCHANGED <<order, lock, queue, reap, selected, synced, account, requests>>

\* FloodWait: the row waits for the retry.  Beyond max_retries Celery raises the
\* exception it was given (exc=e), not MaxRetriesExceededError: the handler that
\* would fail the row is not reached.
Flood(w) ==
  /\ At(w, "syncing") /\ Single(w) /\ Fault("flood")
  /\ job' = Mark(job, MyJob(w), "PENDING") /\ Again(w) /\ Goto(w, "release")
  /\ UNCHANGED <<order, lock, reap, selected, synced, account, session, requests>>

Error(w) ==
  /\ At(w, "syncing") /\ Single(w) /\ Raises(w)
  /\ job' = Mark(job, MyJob(w), IF run[w].msg.tries < MaxRetries THEN "PENDING" ELSE "FAILED")
  /\ Again(w) /\ Goto(w, "release")
  /\ UNCHANGED <<order, lock, reap, selected, synced, account, requests>>

\* Mutant of Release: DEL without a look at the token.
ReleaseAny(w) ==
  /\ At(w, "release") /\ lock' = Free
  /\ job' = [job EXCEPT ![MyJob(w)].beat = FALSE]
  /\ End(w)
  /\ UNCHANGED <<order, queue, reap, selected, synced, account, session, faults, requests>>

\* The end of the task: the lock is deleted only if it still holds the token of
\* this attempt, the progress keys go, the message is acknowledged.
Release(w) ==
  /\ At(w, "release")
  /\ lock' = IF Holds(w) THEN Free ELSE lock
  /\ job' = [job EXCEPT ![MyJob(w)].beat = FALSE]
  /\ End(w)
  /\ UNCHANGED <<order, queue, reap, selected, synced, account, session, faults, requests>>

-----------------------------------------------------------------------------
(* The beat task reap_stale_sync_jobs: fail the silent jobs, then resume. *)

\* Mutant of ReapScan: the rows that a bulk run makes for its chats are forgotten.
ReapScanBulk ==
  LET stale == {j \in Jobs : Running(j) /\ job[j].old /\ IsBulk(j)}
  IN  /\ reap = Calm /\ stale # {}
      /\ reap' = [Calm EXCEPT !.todo = stale]
      /\ UNCHANGED <<db, lock, queue, run, faults, requests>>

\* Rows are read without a lock and written when the transaction commits.
ReapScan ==
  LET stale == {j \in Jobs : Running(j) /\ job[j].old}
  IN  /\ reap = Calm /\ stale # {}
      /\ reap' = [Calm EXCEPT !.todo = stale]
      /\ UNCHANGED <<db, lock, queue, run, faults, requests>>

\* Mutant of ReapVisit: the heartbeat of a bulk job is looked for under the key
\* of a single one.
ReapVisitOneKey(j) ==
  /\ j \in reap.todo
  /\ IF job[j].beat /\ ~IsBulk(j)
     THEN reap' = [reap EXCEPT !.todo = @ \ {j}] /\ UNCHANGED lock
     ELSE /\ reap' = [todo |-> reap.todo \ {j}, doomed |-> reap.doomed \cup {j}]
          /\ lock' = IF lock.job = j THEN Free ELSE lock
  /\ UNCHANGED <<db, queue, run, faults, requests>>

\* A job with a heartbeat is left alone; the lock of another one is deleted by
\* the name of the job, whichever attempt holds it.
ReapVisit(j) ==
  /\ j \in reap.todo
  /\ IF job[j].beat
     THEN reap' = [reap EXCEPT !.todo = @ \ {j}] /\ UNCHANGED lock
     ELSE /\ reap' = [todo |-> reap.todo \ {j}, doomed |-> reap.doomed \cup {j}]
          /\ lock' = IF lock.job = j THEN Free ELSE lock
  /\ UNCHANGED <<db, queue, run, faults, requests>>

ReapCommit ==
  /\ reap.todo = {} /\ reap.doomed # {} /\ reap' = Calm
  /\ job' = [j \in Jobs |-> IF j \in reap.doomed THEN Set(job, j, "FAILED")[j] ELSE job[j]]
  /\ UNCHANGED <<order, lock, queue, run, selected, synced, account, session, faults, requests>>

ReaperDies ==
  /\ reap # Calm /\ Fault("reaper") /\ reap' = Calm
  /\ UNCHANGED <<db, lock, queue, run, requests>>

\* j is the latest job that is not over.
Latest(j) == \E i \in DOMAIN order :
               /\ order[i] = j /\ Open(j)
               /\ \A k \in DOMAIN order : k > i => ~Open(order[k])
Wanted    == account = "active" /\ session /\ selected # {} /\ (AutoIndex \/ selected \ synced # {})
\* A bulk job that failed - or ended, where dialogs are rediscovered - less
\* than fifteen minutes ago.
Recent(j) == IsBulk(j) /\ ~job[j].old
             /\ job[j].status \in {"FAILED"} \cup (IF AutoIndex THEN {"COMPLETED"} ELSE {})

\* Mutant of ResumeAgain: an open job is always waited for.
ResumeNever(j) == FALSE /\ UNCHANGED <<job, order, queue, faults>>

\* A bulk job that has been pending for long is sent again; any other open job
\* is waited for.
ResumeAgain(j) ==
  /\ Latest(j) /\ ~Running(j) /\ IsBulk(j) /\ job[j].old
  /\ BagIn(Message(j, "resume"), queue) => queue[Message(j, "resume")] < MaxWaiting
  /\ job' = [job EXCEPT ![j].old = FALSE]
  /\ Delay(Message(j, "resume")) /\ UNCHANGED order

ResumeAnew ==
  /\ \A j \in Jobs : ~Open(j) /\ ~Recent(j)
  /\ \E j \in Jobs :
       /\ Spare(j)
       /\ job' = New(job, j, Bulk, "PENDING") /\ order' = Append(order, j)
       /\ Delay(Message(j, "resume"))

\* It follows the reaper's transaction in the same task.
Resume ==
  /\ reap = Calm /\ Wanted
  /\ (\E j \in Jobs : ResumeAgain(j)) \/ ResumeAnew
  /\ UNCHANGED <<lock, run, reap, selected, synced, account, session, requests>>

-----------------------------------------------------------------------------
(* Time, and what goes wrong. *)

\* Fifteen minutes without an UPDATE, for the rows whose age is asked for.  A
\* run sends its first heartbeat sooner than that after its UPDATE.
Age(j) ==
  /\ Exists(j) /\ ~job[j].old
  /\ Running(j) \/ (IsBulk(j) /\ Open(j)) \/ Recent(j)
  /\ \A w \in Workers : ~(run[w].pc \in {"locked", "started"} /\ MyJob(w) = j)
  /\ job' = [job EXCEPT ![j].old = TRUE]
  /\ UNCHANGED <<order, lock, queue, run, reap, selected, synced, account, session, faults, requests>>

\* Ten minutes without a heartbeat.
Alive(j) == \E w \in Workers : run[w].pc \in {"between", "syncing", "synced", "release"}
                                /\ j \in {MyJob(w), run[w].sub}
BeatEnds(j) ==
  /\ job[j].beat
  /\ IF Alive(j) THEN Fault("silence") ELSE UNCHANGED faults
  /\ job' = [job EXCEPT ![j].beat = FALSE]
  /\ UNCHANGED <<order, lock, queue, run, reap, selected, synced, account, session, requests>>

\* 180 seconds without a refresh; a dead attempt no longer refreshes.
LockEnds ==
  /\ lock # Free
  /\ IF lock.by = NoOne THEN UNCHANGED faults ELSE Fault("lapse")
  /\ lock' = Free
  /\ UNCHANGED <<db, queue, run, reap, requests>>

Crash(w) ==
  /\ Busy(w) /\ Fault("crash")
  /\ queue' = BagAdd(queue, run[w].msg)
  /\ lock' = IF Holds(w) THEN [lock EXCEPT !.by = NoOne] ELSE lock
  /\ End(w)
  /\ UNCHANGED <<db, reap, requests>>

\* The visibility timeout of the broker: a message that is still being worked
\* on is delivered again.
Redeliver(w) ==
  /\ Busy(w) /\ Fault("duplicate")
  /\ queue' = BagAdd(queue, run[w].msg)
  /\ UNCHANGED <<db, lock, run, reap, requests>>

\* Bound: the id of a job that is over is used again once nothing refers to it
\* and no query asks for its age.
Referenced(j) ==
  \/ \E m \in BagToSet(queue) : m.job = j
  \/ \E w \in Workers : Busy(w) /\ j \in {MyJob(w), run[w].sub}
  \/ lock.job = j \/ j \in reap.todo \cup reap.doomed
Forget(j) ==
  /\ job[j].status \in Terminal /\ ~Referenced(j) /\ ~Recent(j)
  /\ job' = [job EXCEPT ![j] = Absent]
  /\ \E i \in DOMAIN order : order[i] = j /\ order' = RemoveAt(order, i)
  /\ UNCHANGED <<lock, queue, run, reap, selected, synced, account, session, faults, requests>>

-----------------------------------------------------------------------------

UserStep ==
  \/ \E c \in Chats \cup {Bulk}, j \in Jobs, mode \in UserModes : StartSync(c, j, mode)
  \/ \E S \in SUBSET Chats : SelectChats(S)
  \/ Deactivate \/ Purge \/ Login

Work(w) ==
  \/ Skip(w) \/ Acquire(w) \/ Turned(w) \/ Start(w) \/ Touch(w)
  \/ \E c \in Chats, j \in Jobs : NextChat(w, c, j)
  \/ ChatSynced(w) \/ ChatDone(w) \/ ChatFailed(w) \/ FinishBulk(w) \/ BulkBreaks(w)
  \/ Error(w) \/ Release(w)

Trouble(w) ==
  Defer(w) \/ Unauthorized(w) \/ Flood(w) \/ Crash(w) \/ Redeliver(w)

Reaper == ReapScan \/ (\E j \in Jobs : ReapVisit(j)) \/ ReapCommit \/ Resume

Next ==
  \/ UserStep
  \/ \E w \in Workers : (\E m \in BagToSet(queue) : Take(w, m)) \/ Work(w) \/ Progress(w) \/ Trouble(w)
  \/ Reaper \/ ReaperDies
  \/ \E j \in Jobs : Age(j) \/ BeatEnds(j) \/ Forget(j)
  \/ LockEnds

Spec == Init /\ [][Next]_vars

(* The two slots work as long as there is something to do, the broker hands
   out its messages, Beat starts the reaper every two minutes, keys expire. *)
Fairness ==
  /\ \A w \in Workers : WF_vars(Work(w))
  /\ WF_vars(\E w \in Workers, m \in BagToSet(queue) : Take(w, m))
  /\ WF_vars(Reaper)
  /\ \A j \in Jobs : WF_vars(Age(j))
  /\ WF_vars(\E j \in Jobs : Forget(j))
  /\ WF_vars(((\E j \in Jobs : BeatEnds(j)) \/ LockEnds) /\ UNCHANGED faults)

FairSpec == Spec /\ Fairness

-----------------------------------------------------------------------------
(* What the jobs promise. *)

\* w writes the account's messages.
Loading(w) == run[w].pc \in {"started", "between", "syncing", "synced"}

\* The purpose of DistributedLock: two runs never load history of the account
\* at the same time, whichever requests, resumptions, duplicate deliveries and
\* retries meet (worker crashes and silent runs excepted: see README.md).
OneRunner == \A v, w \in Workers : Loading(v) /\ Loading(w) => v = w

\* The reaper's "stale" is right: a job it is about to fail is not being run,
\* under the same exceptions.
DoomedIsDead == \A j \in reap.doomed : ~Alive(j)

\* A run loses the lock by its own step, to a fault of its own, or to a reaper
\* that found no heartbeat of its job; never to the end of another attempt,
\* even one that lost the lock earlier.
NoTheft ==
  [][\A w \in Workers :
       (lock.by = w /\ lock'.by # w)
         => \/ run'[w] # run[w] \/ faults' # faults
            \/ lock.job \in reap.todo /\ ~job[lock.job].beat
            \/ account = "closing"]_vars

\* No job stays IN_PROGRESS, whatever died: again and again none is, as every
\* run ends and the row of a dead one is reaped.
InProgressEnds == []<>(\A j \in Jobs : ~Running(j))

Delivered(j) == \/ \E m \in BagToSet(queue) : m.job = j
                \/ \E w \in Workers : Busy(w) /\ MyJob(w) = j
Stranded(j)  == job[j].status = "PENDING" /\ ~IsBulk(j) /\ ~Delivered(j)

\* What resume_selected_history cannot help: a stranded chat job (its
\* only delivery was lost), a closed account, no Telegram session.
Hindered == (\E j \in Jobs : Stranded(j)) \/ account # "active" \/ ~session

\* Resume after lost deliveries, crashes, failures and reselection: the history
\* of the selected chats is complete again and again, unless resumption is
\* hindered for good.
HistoryResumed == []<>(selected \subseteq synced) \/ <>[]Hindered
=============================================================================
