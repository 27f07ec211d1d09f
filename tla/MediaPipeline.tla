--------------------------- MODULE MediaPipeline ---------------------------
(* The three-stage media pipeline of the backend: a beat task moves PENDING  *)
(* messages to the fetch queue, and one Celery worker per stage fetches the  *)
(* original, extracts its text and builds its search index, handing over     *)
(* through the broker.  Delivery is at least once (task_acks_late), a failed *)
(* stage is retried with a delay, and a reaper returns claims that are too   *)
(* old.  The listener may replace the media of a message and a user may ask  *)
(* for a file at any time.                                                   *)
(*                                                                           *)
(* The media of a message is a number, raised by an edit that replaces it;   *)
(* file, content and chunks hold the number of the media they were made      *)
(* from, 0 when there are none.                                              *)
EXTENDS Naturals, FiniteSets, FiniteSetsExt, Bags

CONSTANTS
  Messages,      \* the messages with media
  Workers,       \* the worker processes
  Pool,          \* the queue each worker consumes: fetch, process or index
  TargetDepth,   \* media_dispatch_target_depth
  MaxRetries,    \* the length of RETRY_DELAYS_SECONDS
  EditsOverlap,  \* an edit may arrive while a stage works on the message
  Budget         \* bound: how often each event of the environment happens, and
                 \* how many happen in "all"

Stages == {"fetch", "process", "index"}

\* edit: the listener sees new media; crash: a worker dies; prepare: a user asks
\* for a file; select: the chat is deselected or selected; broker: Redis refuses
\* a message; error: a stage raises; slow: a claim outlives its stale limit;
\* prune: the cached original is dropped with its media_objects row.
Events == {"edit", "crash", "prepare", "select", "broker", "error", "slow", "prune"}

ASSUME MediaAssumption ==
  /\ Pool \in [Workers -> Stages]
  /\ TargetDepth \in Nat \ {0} /\ MaxRetries \in Nat
  /\ EditsOverlap \in BOOLEAN
  /\ Budget \in [Events \cup {"all"} -> Nat]

VARIABLES
  msg,       \* the media columns of each telegram_messages row
  obj,       \* its media_objects row
  selected,  \* the chat's indexing_enabled (and its owner's is_active)
  queue,     \* the broker: a bag of tasks
  run,       \* what each worker process is doing
  left       \* what is left of Budget

vars == <<msg, obj, selected, queue, run, left>>

\* voice: in MEDIA_TRANSCRIPTION_TYPES; video: audio and video transcribed only
\* on request; document: everything else with text.
Types == {"voice", "video", "document"}
MessageStatus == {"none", "pending", "queued", "processing", "ready", "failed", "skipped"}
ObjectStatus == {"absent", "pending", "fetching", "cached", "extracting", "indexing", "ready",
                 "ready_download_only", "retry_wait", "no_speech", "failed"}
ObjectStage == {"fetch", "extraction", "summary", "index", "complete"}

Media == 1 .. Budget["edit"] + 1
Task == [msg: Messages, stage: Stages, retries: 0 .. MaxRetries, again: BOOLEAN]
\* What an extraction or a checkpoint holds: the media it was made from, and
\* whether it is a transcript, other text, or only a note that a file exists.
Kinds == {"speech", "text", "file"}
Content == [of: Media \cup {0}, how: Kinds \cup {"none"}]
Nothing == [of |-> 0, how |-> "none"]
Idle == [at |-> "idle"]
NoObject == [status |-> "absent", stage |-> "fetch", file |-> 0, wanted |-> FALSE]
Steps == {"need_file", "downloading", "extracting", "extracted", "indexing", "hand_over"}

Settled(m) == msg[m].status \in {"ready", "failed", "skipped"}
Waits(t) == BagIn(t, queue)
Works(w, m) == run[w] # Idle /\ run[w].task.msg = m
In(w, step) == run[w].at = step
Active(m) == (\E w \in Workers : Works(w, m)) \/ (\E t \in BagToSet(queue) : t.msg = m)

-----------------------------------------------------------------------------
TypeOK ==
  /\ msg \in [Messages -> [type: Types, status: MessageStatus, started: {"none", "recent", "stale"},
                           media: Media, content: Content, chunks: Media \cup {0}]]
  /\ obj \in [Messages -> [status: ObjectStatus, stage: ObjectStage,
                           file: Media \cup {0}, wanted: BOOLEAN]]
  /\ selected \in BOOLEAN
  /\ BagToSet(queue) \subseteq Task
  /\ run \in [Workers -> {Idle} \cup
               [at: Steps, task: Task, type: Types, got: Content, how: Kinds \cup {"none"}]]
  /\ \A w \in Workers : run[w] # Idle => run[w].task.stage = Pool[w]
  /\ left \in [Events \cup {"all"} -> Nat]

Init ==
  /\ msg \in [Messages -> [type: Types, status: {"none", "pending"}, started: {"none"},
                           media: {1}, content: {Nothing}, chunks: {0}]]
  /\ obj = [m \in Messages |-> NoObject]
  /\ selected = TRUE
  /\ queue = EmptyBag
  /\ run = [w \in Workers |-> Idle]
  /\ left = Budget

-----------------------------------------------------------------------------
\* The environment's budget.
Spend(e) == left[e] > 0 /\ left["all"] > 0 /\ left' = [left EXCEPT ![e] = @ - 1, !["all"] = @ - 1]

\* An update of the media_objects row, when there is one.
Update(m, row) == obj' = IF obj[m] = NoObject THEN obj ELSE [obj EXCEPT ![m] = row]

FirstTask(m, s) == [msg |-> m, stage |-> s, retries |-> 0, again |-> FALSE]
Send(t) == queue' = queue (+) SetToBag({t})

\* _mark_failed and mark_media_retry: neither looks at the state of the claim.
\* An error is transient, final (no disk, no configuration) or empty: there is
\* nothing to extract (no speech, deleted at the source).
Errors == {"transient", "final", "empty"}

MarkFailed(m, error) ==
  IF selected
  THEN /\ msg' = [msg EXCEPT ![m].status = IF error = "empty" THEN "skipped" ELSE "failed"]
       /\ Update(m, [obj[m] EXCEPT !.status = IF error = "empty" THEN "no_speech" ELSE "failed"])
  ELSE UNCHANGED <<msg, obj>>

MarkRetry(m) ==
  IF selected
  THEN /\ msg' = [msg EXCEPT ![m].status = "queued", ![m].started = "none"]
       /\ Update(m, [obj[m] EXCEPT !.status = "retry_wait"])
  ELSE UNCHANGED <<msg, obj>>

\* Mutant of RetryOrFinish: the last attempt is retried too.
RetryOnceMore(w, error, published) ==
  LET t == run[w].task IN
  /\ run' = [run EXCEPT ![w] = Idle]
  /\ IF error # "transient" \/ t.retries > MaxRetries
     THEN MarkFailed(t.msg, error) /\ UNCHANGED queue
     ELSE /\ MarkRetry(t.msg)
          /\ IF published
             THEN Send([t EXCEPT !.retries = @ + 1, !.again = FALSE])
             ELSE UNCHANGED queue

\* The except clause of the three tasks: a terminal error or the last attempt
\* marks the message, any other one sends the task again.
RetryOrFinish(w, error, published) ==
  LET t == run[w].task IN
  /\ run' = [run EXCEPT ![w] = Idle]
  /\ IF error # "transient" \/ t.retries = MaxRetries
     THEN MarkFailed(t.msg, error) /\ UNCHANGED queue
     ELSE /\ MarkRetry(t.msg)
          /\ IF published
             THEN Send([t EXCEPT !.retries = @ + 1, !.again = FALSE])
             ELSE UNCHANGED queue

-----------------------------------------------------------------------------
(* The beat task                                                             *)

\* Mutant of Stale: only claims that wait in the queue are recovered.
StaleInQueue(m) == selected /\ msg[m].started = "stale" /\ msg[m].status = "queued"

Stale(m) == selected /\ msg[m].started = "stale" /\ msg[m].status \in {"queued", "processing"}

Reaped == [m \in Messages |->
  IF Stale(m) THEN [msg[m] EXCEPT !.status = "pending", !.started = "none"] ELSE msg[m]]

ReapedObjects == [m \in Messages |->
  IF Stale(m) /\ msg[m].status = "processing" /\ obj[m].status \in {"extracting", "indexing"}
  THEN [obj[m] EXCEPT !.status = "cached"] ELSE obj[m]]

Room == LET active == Cardinality({m \in Messages : Reaped[m].status \in {"queued", "processing"}})
        IN IF active < TargetDepth THEN TargetDepth - active ELSE 0

Dispatchable == {m \in Messages : selected /\ Reaped[m].status = "pending"}

\* dispatch_pending_media: what the broker refuses goes back to PENDING, what a
\* crash after the commit leaves unsent stays QUEUED.
Dispatch(picked, sent, lost) ==
  /\ picked # {} \/ \E m \in Messages : Stale(m)
  /\ picked \subseteq Dispatchable
  /\ Cardinality(picked) = Min({Room, Cardinality(Dispatchable)})
  /\ sent \cup lost \subseteq picked /\ sent \cap lost = {}
  /\ IF sent = picked THEN UNCHANGED left
     ELSE IF lost = {} THEN Spend("broker")
     ELSE lost = picked \ sent /\ Spend("crash")
  /\ msg' = [m \in Messages |->
       IF m \in sent \cup lost
       THEN [Reaped[m] EXCEPT !.status = "queued", !.started = "recent"] ELSE Reaped[m]]
  /\ obj' = ReapedObjects
  /\ queue' = queue (+) SetToBag({FirstTask(m, "fetch") : m \in sent})
  /\ UNCHANGED <<selected, run>>

-----------------------------------------------------------------------------
(* The stages                                                                *)

\* A worker receives t; the message is acknowledged when the task ends.
Receive(w, t) ==
  /\ run[w] = Idle /\ Waits(t) /\ Pool[w] = t.stage
  /\ queue' = queue (-) SetToBag({t})
  /\ UNCHANGED <<selected, left>>

Begin(w, t, step, got, how) ==
  run' = [run EXCEPT ![w] = [at |-> step, task |-> t, type |-> msg[t.msg].type, got |-> got, how |-> how]]

Continue(w, step, got) == run' = [run EXCEPT ![w].at = step, ![w].got = got]

TakeFetch(w, t) ==
  /\ Receive(w, t) /\ t.stage = "fetch"
  /\ IF selected THEN Begin(w, t, "need_file", Nothing, "none") ELSE UNCHANGED run
  /\ UNCHANGED <<msg, obj>>

\* recover_interrupted_media_stage, for a message the broker delivers again.
Interrupted(t, stage, status) ==
  t.again /\ selected /\ obj[t.msg].stage = stage /\ obj[t.msg].status = status

\* What process_local_media will do with a file, decided by the claimed job.
Treatment(type, wanted) ==
  IF type = "document" THEN "text"
  ELSE IF type = "voice" \/ wanted THEN "speech" ELSE "file"

\* claim_media_message: what waits is claimed for extraction.
Claim(m, row, o) ==
  /\ msg' = [msg EXCEPT ![m] = [row EXCEPT !.status = "processing", !.started = "recent"]]
  /\ Update(m, [o EXCEPT !.status = "extracting", !.stage = "extraction"])

\* summarize_existing_transcript: a stored transcript is not bought again.
Reusable(row) == row.type = "voice" /\ row.content.how = "speech"

\* Mutant of Claimable: a message that is being processed is claimed again.
ClaimableTwice(row) == selected /\ row.status \in {"pending", "queued", "processing"}

Claimable(row) == selected /\ row.status \in {"pending", "queued"}

\* extract_media_stage up to the file: an index checkpoint is handed over, a
\* claimed message goes on, others are skipped.
TakeProcess(w, t) ==
  LET m == t.msg
      broken == Interrupted(t, "extraction", "extracting")
      o == IF broken THEN [obj[m] EXCEPT !.status = "cached"] ELSE obj[m]
      row == IF broken /\ msg[m].status = "processing"
             THEN [msg[m] EXCEPT !.status = "queued", !.started = "none"] ELSE msg[m]
  IN /\ Receive(w, t) /\ t.stage = "process"
     /\ IF selected /\ o.stage = "index" /\ row.content.of # 0
        THEN /\ Begin(w, t, "hand_over", Nothing, "none")
             /\ UNCHANGED <<msg, obj>>
        ELSE IF Claimable(row)
        THEN /\ Claim(m, row, o)
             /\ IF Reusable(row)
                THEN Begin(w, t, "extracted", row.content, "speech")
                ELSE Begin(w, t, "need_file", Nothing, Treatment(row.type, o.wanted))
        ELSE /\ msg' = [msg EXCEPT ![m] = row]
             /\ obj' = [obj EXCEPT ![m] = o]
             /\ UNCHANGED run

\* fetch_media_to_cache, as the two stages call it: the cached file, or a
\* download under the message's lease that ends with a check that the media is
\* still the one it began with.
GoOn(w, file) ==
  IF Pool[w] = "fetch" THEN Continue(w, "hand_over", Nothing)
  ELSE Continue(w, "extracting", [of |-> file, how |-> run[w].how])

Hit(w) ==
  LET m == run[w].task.msg IN
  /\ In(w, "need_file") /\ obj[m].file # 0 /\ GoOn(w, obj[m].file)
  /\ UNCHANGED <<msg, obj, selected, queue, left>>

Downloads(m) == \E v \in Workers : Works(v, m) /\ In(v, "downloading")

Download(w) ==
  LET m == run[w].task.msg IN
  /\ In(w, "need_file") /\ obj[m].file = 0 /\ ~Downloads(m)
  /\ obj' = [obj EXCEPT ![m].status = "fetching", ![m].stage = "fetch"]
  /\ Continue(w, "downloading", [of |-> msg[m].media, how |-> run[w].how])
  /\ UNCHANGED <<msg, selected, queue, left>>

Current(w) == run[w].got.of = msg[run[w].task.msg].media

\* Mutant of Downloaded: the identity is not compared before the file is kept.
DownloadedUnchecked(w) ==
  LET m == run[w].task.msg IN
  /\ In(w, "downloading")
  /\ obj' = [obj EXCEPT ![m].status = "cached", ![m].stage = "extraction",
                        ![m].file = run[w].got.of]
  /\ GoOn(w, run[w].got.of)
  /\ UNCHANGED <<msg, selected, queue, left>>

Downloaded(w) ==
  LET m == run[w].task.msg IN
  /\ In(w, "downloading") /\ Current(w)
  /\ obj' = [obj EXCEPT ![m].status = "cached", ![m].stage = "extraction",
                        ![m].file = run[w].got.of]
  /\ GoOn(w, run[w].got.of)
  /\ UNCHANGED <<msg, selected, queue, left>>

Stored(m) == selected /\ obj[m] # NoObject

\* _mark_summary_stage
MarkSummary(m) == Stored(m) /\ obj' = [obj EXCEPT ![m].stage = "summary"]

\* process_local_media: a video nobody asked for is only kept for download;
\* otherwise the stage SUMMARY is marked between extraction and summary.
Extract(w) ==
  LET m == run[w].task.msg IN
  /\ In(w, "extracting")
  /\ IF run[w].how = "file" THEN UNCHANGED obj
     ELSE MarkSummary(m)
  /\ Continue(w, "extracted", run[w].got)
  /\ UNCHANGED <<msg, selected, queue, left>>

\* Mutant of Checkpoint: the owner's and the chat's state is not looked at.
CheckpointAnyway(w) ==
  LET m == run[w].task.msg IN
  /\ In(w, "extracted")
  /\ msg' = [msg EXCEPT ![m].content = run[w].got, ![m].type = run[w].type]
  /\ Update(m, [obj[m] EXCEPT !.status = "cached", !.stage = "index"])
  /\ Continue(w, "hand_over", Nothing)
  /\ UNCHANGED <<selected, queue, left>>

\* _save_content_checkpoint
Checkpoint(w) ==
  LET m == run[w].task.msg IN
  /\ In(w, "extracted") /\ selected
  /\ msg' = [msg EXCEPT ![m].content = run[w].got, ![m].type = run[w].type]
  /\ Update(m, [obj[m] EXCEPT !.status = "cached", !.stage = "index"])
  /\ Continue(w, "hand_over", Nothing)
  /\ UNCHANGED <<selected, queue, left>>

\* apply_async of the next stage, then the task ends and is acknowledged.
NextTask(w) == FirstTask(run[w].task.msg, IF Pool[w] = "fetch" THEN "process" ELSE "index")

HandOver(w) ==
  /\ In(w, "hand_over")
  /\ Send(NextTask(w))
  /\ run' = [run EXCEPT ![w] = Idle]
  /\ UNCHANGED <<msg, obj, selected, left>>

\* index_media_stage up to the embedding call.
TakeIndex(w, t) ==
  LET m == t.msg
      broken == Interrupted(t, "index", "indexing")
      o == IF broken THEN [obj[m] EXCEPT !.status = "cached"] ELSE obj[m]
  IN /\ Receive(w, t) /\ t.stage = "index"
     /\ IF /\ msg[m].status # "ready" /\ selected
           /\ o.stage = "index" /\ o.status \in {"cached", "retry_wait", "failed"}
        THEN /\ msg' = [msg EXCEPT ![m].status = "processing", ![m].started = "recent"]
             /\ obj' = [obj EXCEPT ![m].status = "indexing"]
             /\ Begin(w, t, "indexing", msg[m].content, "none")
        ELSE /\ obj' = [obj EXCEPT ![m] = o]
             /\ UNCHANGED <<msg, run>>

Claimed(w) == msg[run[w].task.msg].status = "processing" /\ selected /\ run[w].got.of # 0

\* _finalize_media
Finalize(w) ==
  LET m == run[w].task.msg
      got == run[w].got
  IN /\ In(w, "indexing") /\ Claimed(w)
     /\ msg' = [msg EXCEPT ![m].status = "ready", ![m].content = got, ![m].chunks = got.of,
                               ![m].type = run[w].type]
     /\ Update(m, [obj[m] EXCEPT !.stage = "complete",
          !.status = IF got.how = "file" THEN "ready_download_only" ELSE "ready"])
     /\ run' = [run EXCEPT ![w] = Idle]
     /\ UNCHANGED <<selected, queue, left>>

\* What the code itself refuses: a download of media that has changed or that
\* another worker fetches, a deselected chat, a claim that is gone.
Refused(w) ==
  LET m == run[w].task.msg IN
  \/ In(w, "need_file") /\ obj[m].file = 0 /\ Downloads(m)
  \/ In(w, "downloading") /\ ~Current(w)
  \/ In(w, "extracting") /\ ~Stored(m) /\ run[w].how # "file"
  \/ In(w, "extracted") /\ ~selected
  \/ In(w, "indexing") /\ ~Claimed(w)

Raise(w, error) ==
  /\ error \in Errors
  /\ \/ Refused(w) /\ error = "transient" /\ UNCHANGED left
     \/ run[w] # Idle /\ ~In(w, "hand_over") /\ Spend("error")
  /\ RetryOrFinish(w, error, TRUE)
  /\ UNCHANGED selected

\* The broker refuses the message for the next stage, or the retry of this one.
BrokerFails(w) ==
  /\ Spend("broker")
  /\ \/ In(w, "hand_over") /\ RetryOrFinish(w, "transient", TRUE)
     \/ Refused(w) /\ RetryOrFinish(w, "transient", FALSE)
  /\ UNCHANGED selected

-----------------------------------------------------------------------------
(* The environment                                                           *)

\* A worker process dies: its message is delivered again, marked as such.  It
\* may have sent the next task already.
Crash(w) ==
  /\ run[w] # Idle /\ Spend("crash")
  /\ run' = [run EXCEPT ![w] = Idle]
  /\ LET returned == SetToBag({[run[w].task EXCEPT !.again = TRUE]}) IN
     \/ queue' = queue (+) returned
     \/ In(w, "hand_over") /\ queue' = queue (+) returned (+) SetToBag({NextTask(w)})
  /\ UNCHANGED <<msg, obj, selected>>

\* A dead worker had prefetched t.
Return(t) ==
  /\ Waits(t) /\ ~t.again /\ Spend("crash")
  /\ queue' = (queue (-) SetToBag({t})) (+) SetToBag({[t EXCEPT !.again = TRUE]})
  /\ UNCHANGED <<msg, obj, selected, run>>

\* A claim gets older than the reaper's limit: six hours in the queue, two hours
\* in a stage.  As long as a task of the message exists that is an event.
Age(m) ==
  /\ msg[m].status \in {"queued", "processing"} /\ msg[m].started = "recent"
  /\ msg' = [msg EXCEPT ![m].started = "stale"]
  /\ IF Active(m) THEN Spend("slow") ELSE UNCHANGED left
  /\ UNCHANGED <<obj, selected, queue, run>>

\* The listener's _handle_edit with other media, which it knows from the
\* media_objects row.  started_at stays as it was.
Edit(m, type) ==
  /\ selected /\ Spend("edit")
  /\ EditsOverlap \/ \A w \in Workers : Works(w, m) => Pool[w] = "fetch"
  /\ IF obj[m] = NoObject
     THEN /\ msg' = [msg EXCEPT ![m].media = @ + 1, ![m].type = type,
                               ![m].status = IF @ = "none" THEN "pending" ELSE @]
          /\ UNCHANGED obj
     ELSE /\ msg' = [msg EXCEPT ![m].media = @ + 1, ![m].type = type, ![m].status = "pending",
                               ![m].content = Nothing, ![m].chunks = 0]
          /\ obj' = [obj EXCEPT ![m].status = "pending", ![m].stage = "fetch", ![m].file = 0]
  /\ UNCHANGED <<selected, queue, run>>

\* prepare_message_media: request_transcription reopens a video that was only
\* kept for download, or that waits for a retry; then the message is enqueued
\* unless it is claimed or done.
Prepare(m) ==
  LET asks == msg[m].type = "video"
      row == IF obj[m] = NoObject THEN [NoObject EXCEPT !.status = "pending"] ELSE obj[m]
      reopens == /\ asks /\ msg[m].content.how # "speech"
                 /\ row.status \in {"ready_download_only", "retry_wait"}
      o == [row EXCEPT !.wanted = @ \/ asks, !.status = IF reopens THEN "pending" ELSE @]
      needed == /\ o.status \notin {"ready", "ready_download_only", "fetching",
                                    "extracting", "indexing", "retry_wait"}
                /\ msg[m].status \notin {"pending", "queued", "processing"}
  IN /\ needed \/ o # obj[m]
     /\ Spend("prepare")
     /\ IF needed
        THEN /\ msg' = [msg EXCEPT ![m].status = "pending"]
             /\ obj' = [obj EXCEPT ![m] = [o EXCEPT !.status = "pending"]]
             /\ Send(FirstTask(m, "fetch"))
        ELSE obj' = [obj EXCEPT ![m] = o] /\ UNCHANGED <<msg, queue>>
     /\ UNCHANGED <<selected, run>>

\* prune_media_cache: the file of settled work goes after two hours, and its
\* row with it.
Prune(m) ==
  /\ Settled(m) /\ obj[m].file # 0 /\ Spend("prune")
  /\ obj' = [obj EXCEPT ![m] = NoObject]
  /\ UNCHANGED <<msg, selected, queue, run>>

Select == selected' = ~selected /\ Spend("select") /\ UNCHANGED <<msg, obj, queue, run>>

-----------------------------------------------------------------------------
Beat == \E picked \in SUBSET Messages : \E sent, lost \in SUBSET picked : Dispatch(picked, sent, lost)

Work(w) ==
  \/ \E t \in BagToSet(queue) : TakeFetch(w, t) \/ TakeProcess(w, t) \/ TakeIndex(w, t)
  \/ Hit(w) \/ Download(w) \/ Downloaded(w) \/ Extract(w) \/ Checkpoint(w)
  \/ HandOver(w) \/ Finalize(w) \/ \E error \in Errors : Raise(w, error)

Environment ==
  \/ \E w \in Workers : Crash(w) \/ BrokerFails(w)
  \/ \E t \in BagToSet(queue) : Return(t)
  \/ \E m \in Messages : Age(m) \/ Prepare(m) \/ Prune(m) \/ \E type \in Types : Edit(m, type)
  \/ Select

Next == Beat \/ (\E w \in Workers : Work(w)) \/ Environment

\* The beat runs every 15 seconds, the worker services are always restarted,
\* and time passes.
Fairness ==
  /\ WF_vars(Beat)
  /\ \A w \in Workers : WF_vars(Work(w))
  /\ \A m \in Messages : WF_vars(Age(m) /\ ~Active(m))

Spec == Init /\ [][Next]_vars /\ Fairness

-----------------------------------------------------------------------------
\* The events of S have not happened.
Unused(S) == \A e \in S : left[e] = Budget[e]

\* What search finds for a READY message comes from the media the message has
\* now: _handle_edit is to "update all searchable metadata".
FreshWhenReady == \A m \in Messages : msg[m].status = "ready" =>
  /\ msg[m].content.of = msg[m].media
  /\ msg[m].chunks = msg[m].media

\* As long as no media_objects row has been pruned, downloads and hand-overs
\* begun before an edit never bring its old media back.
FreshUnlessPruned == Unused({"prune"}) => FreshWhenReady

\* Two workers never extract (and pay for) the same message at once: the claim
\* is there "so duplicate tasks cannot spend twice".
OneExtraction == \A v, w \in Workers, m \in Messages :
  v # w /\ Works(v, m) /\ Works(w, m) =>
    ~(run[v].at \in {"extracting", "extracted"} /\ run[w].at \in {"extracting", "extracted"})

\* The claim does keep apart the duplicates that requests and the beat make of
\* a message, as long as nothing else goes wrong.
DuplicatesSpendOnce == Unused(Events \ {"prepare"}) => OneExtraction

\* Work that began before its chat was deselected stores nothing afterwards.
DeselectedIsUntouched == [][\A m \in Messages : ~selected =>
  msg'[m].content = msg[m].content /\ msg'[m].chunks = msg[m].chunks]_vars

\* A pending message of a selected chat comes to an end, whatever two of the
\* crashes, errors, edits, slow stages and prunings happen on the way.
Settles == \A m \in Messages : msg[m].status = "pending" ~>
  (Settled(m) \/ ~selected \/ ~Unused({"prepare", "broker"}))
=============================================================================
