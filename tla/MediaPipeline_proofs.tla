------------------------ MODULE MediaPipeline_proofs ------------------------
(* Proofs about the media pipeline, for any messages, workers and bounds.      *)
EXTENDS MediaPipeline, Integers, TLAPS

MsgRow == [type : Types, status : MessageStatus, started : {"none", "recent", "stale"},
           media : Media, content : Content, chunks : Media \cup {0}]
ObjRow == [status : ObjectStatus, stage : ObjectStage, file : Media \cup {0}, wanted : BOOLEAN]
Job == [at : Steps, task : Task, type : Types, got : Content, how : Kinds \cup {"none"}]

\* A worker is at a step of its own queue, and a row that is absent holds nothing.
Rows ==
  /\ msg \in [Messages -> MsgRow] /\ obj \in [Messages -> ObjRow]
  /\ \A m \in Messages : obj[m].status = "absent" => obj[m] = NoObject
Runs ==
  /\ run \in [Workers -> {Idle} \cup Job]
  /\ \A w \in Workers : run[w] # Idle =>
       /\ run[w].task.stage = Pool[w]
       /\ run[w].at \in {"extracting", "extracted"} => Pool[w] = "process"
       /\ run[w].at = "indexing" <=> Pool[w] = "index"
\* Each edit raises the media once, so that the budget of edits bounds it.
MediaBounded == \A m \in Messages : msg[m].media + left["edit"] <= Budget["edit"] + 1
MediaTypes ==
  /\ Rows /\ Runs /\ MediaBounded
  /\ selected \in BOOLEAN
  /\ BagToSet(queue) \subseteq Task
  /\ left \in [Events \cup {"all"} -> Nat] /\ \A e \in Events : left[e] <= Budget[e]

-----------------------------------------------------------------------------
(* What the shared steps do.                                                   *)

LEMMA SendBag ==
  ASSUME NEW q, NEW S
  PROVE  /\ BagToSet(q (+) SetToBag(S)) = BagToSet(q) \cup S
         /\ BagToSet(q (-) SetToBag(S)) \subseteq BagToSet(q)
<1>1. BagToSet(q (+) SetToBag(S)) = BagToSet(q) \cup S
    BY DEF BagToSet, SetToBag, (+)
<1>2. BagToSet(q (-) SetToBag(S)) \subseteq BagToSet(q)
    BY DEF BagToSet, SetToBag, (-)
<1> QED BY <1>1, <1>2

LEMMA BudgetIsNat == ASSUME NEW e \in Events PROVE Budget[e] \in Nat
    BY MediaAssumption DEF MediaAssumption

LEMMA MediaAre == Media \subseteq Nat \ {0} /\ 1 \in Media /\ 0 \notin Media
<1>1. Budget["edit"] \in Nat
    BY BudgetIsNat DEF Events
<1> QED BY <1>1 DEF Media

LEMMA ConstantRows ==
  /\ Nothing \in Content /\ NoObject \in ObjRow /\ NoObject.status = "absent" /\ NoObject.file = 0
  /\ \A r \in Job : r # Idle /\ r.at \in Steps
  /\ Idle.at = "idle" /\ "idle" \notin Steps
<1>1. Nothing \in Content
    BY DEF Nothing, Content
<1>2. NoObject \in ObjRow /\ NoObject.status = "absent" /\ NoObject.file = 0
    BY DEF NoObject, ObjRow, ObjectStatus, ObjectStage
<1>3. Idle.at = "idle" /\ "idle" \notin Steps
    BY DEF Idle, Steps
<1>4. \A r \in Job : r.at \in Steps
    BY DEF Job
<1> QED BY <1>1, <1>2, <1>3, <1>4

LeftFalls == left' \in [Events \cup {"all"} -> Nat] /\ \A e \in Events : left'[e] <= left[e]

LEMMA Spending ==
  ASSUME left \in [Events \cup {"all"} -> Nat], NEW e \in Events, Spend(e)
  PROVE  LeftFalls /\ left[e] \in Nat /\ left[e] > 0 /\ left'[e] = left[e] - 1
<1>1. left[e] \in Nat /\ left[e] > 0 /\ left["all"] \in Nat /\ left["all"] > 0
    BY DEF Spend
<1>2. left' = [left EXCEPT ![e] = left[e] - 1, !["all"] = left["all"] - 1]
  <2>1. e # "all"
      BY DEF Events
  <2> QED BY <2>1 DEF Spend
<1>3. e # "all"
    BY DEF Events
<1>4. left' \in [Events \cup {"all"} -> Nat] /\ left'[e] = left[e] - 1
    BY <1>1, <1>2, <1>3
<1>5. \A d \in Events : d # e => left'[d] = left[d]
  <2>1. \A d \in Events : d # "all"
      BY DEF Events
  <2> QED BY <1>2, <2>1
<1>6. \A d \in Events : left[d] \in Nat
    OBVIOUS
<1>7. \A d \in Events : left'[d] <= left[d]
  <2> TAKE d \in Events
  <2>1. CASE d = e
      BY <1>1, <1>4, <2>1
  <2>2. CASE d # e
      BY <1>5, <1>6, <2>2
  <2> QED BY <2>1, <2>2
<1> QED BY <1>1, <1>4, <1>7 DEF LeftFalls

LEMMA NothingSpent ==
  ASSUME left \in [Events \cup {"all"} -> Nat], left' = left PROVE LeftFalls
<1>1. \A e \in Events : left[e] \in Nat
    OBVIOUS
<1> QED BY <1>1 DEF LeftFalls

\* An event that has not happened after a step has not happened in it.
LEMMA UnusedBefore ==
  ASSUME MediaTypes, LeftFalls, NEW S \in SUBSET Events, Unused(S)'
  PROVE  Unused(S) /\ \A e \in S : left'[e] = left[e] /\ left[e] \in Nat
<1> SUFFICES ASSUME NEW e \in S PROVE left[e] = Budget[e] /\ left'[e] = left[e] /\ left[e] \in Nat
    BY DEF Unused
<1>1. left'[e] = Budget[e] /\ left'[e] <= left[e] /\ left[e] <= Budget[e]
    BY DEF Unused, LeftFalls, MediaTypes
<1>2. left[e] \in Nat /\ Budget[e] \in Nat
    BY BudgetIsNat DEF MediaTypes
<1> QED BY <1>1, <1>2

-----------------------------------------------------------------------------
(* The worker processes.                                                       *)

OthersRun(w) == \A v \in Workers : v # w => run'[v] = run[v]

LEMMA WorkerTypes ==
  ASSUME MediaTypes, NEW w \in Workers, run[w] # Idle
  PROVE  /\ run[w] \in Job /\ run[w].at \in Steps /\ run[w].task \in Task
         /\ run[w].task.msg \in Messages /\ run[w].task.stage = Pool[w] /\ Pool[w] \in Stages
         /\ run[w].task.retries \in 0 .. MaxRetries
         /\ run[w].type \in Types /\ run[w].got \in Content /\ run[w].how \in Kinds \cup {"none"}
         /\ run[w].at \in {"extracting", "extracted"} => Pool[w] = "process"
         /\ run[w].at = "indexing" <=> Pool[w] = "index"
<1>1. run[w] \in Job
    BY DEF MediaTypes, Runs
<1>2. run[w].task \in Task
    BY <1>1 DEF Job
<1>3. Pool[w] \in Stages
    BY MediaAssumption DEF MediaAssumption
<1> QED BY <1>1, <1>2, <1>3 DEF MediaTypes, Runs, Job, Task

LEMMA InIsBusy == ASSUME NEW w \in Workers, NEW s \in Steps, In(w, s) PROVE run[w] # Idle
    BY ConstantRows DEF In

LEMMA Running ==
  ASSUME run \in [Workers -> {Idle} \cup Job], NEW w \in Workers, NEW r \in {Idle} \cup Job,
         run' = [run EXCEPT ![w] = r]
  PROVE  run' \in [Workers -> {Idle} \cup Job] /\ run'[w] = r /\ OthersRun(w)
    BY DEF OthersRun

\* A worker goes on with its task.
GoesOn(w, step, got) ==
  /\ run' \in [Workers -> {Idle} \cup Job] /\ OthersRun(w)
  /\ run'[w] \in Job /\ run'[w] # Idle
  /\ run'[w].at = step /\ run'[w].got = got /\ run'[w].task = run[w].task
  /\ run'[w].type = run[w].type /\ run'[w].how = run[w].how

LEMMA Continuing ==
  ASSUME MediaTypes, NEW w \in Workers, run[w] # Idle, NEW step \in Steps, NEW got \in Content,
         Continue(w, step, got)
  PROVE  GoesOn(w, step, got)
<1> DEFINE r == [run[w] EXCEPT !.at = step, !.got = got]
<1>1. run[w] \in Job /\ run \in [Workers -> {Idle} \cup Job]
    BY WorkerTypes DEF MediaTypes, Runs
<1>2. r \in Job /\ r.at = step /\ r.got = got /\ r.task = run[w].task /\ r.type = run[w].type
      /\ r.how = run[w].how
    BY <1>1 DEF Job
<1>3. run' = [run EXCEPT ![w] = r]
    BY <1>1 DEF Continue, Job
<1> HIDE DEF r
<1>4. run' \in [Workers -> {Idle} \cup Job] /\ run'[w] = r /\ OthersRun(w)
    BY <1>1, <1>2, <1>3, Running
<1> QED BY <1>2, <1>4, ConstantRows DEF GoesOn

Stops(w) == run' \in [Workers -> {Idle} \cup Job] /\ run'[w] = Idle /\ OthersRun(w)

LEMMA Stopping ==
  ASSUME MediaTypes, NEW w \in Workers, run' = [run EXCEPT ![w] = Idle] PROVE Stops(w)
    BY Running DEF MediaTypes, Runs, Stops

\* A worker begins the task t.
Begins(w, t, step, got, how) ==
  /\ run' \in [Workers -> {Idle} \cup Job] /\ OthersRun(w)
  /\ run'[w] \in Job /\ run'[w] # Idle
  /\ run'[w].at = step /\ run'[w].got = got /\ run'[w].task = t /\ run'[w].how = how

LEMMA Beginning ==
  ASSUME MediaTypes, NEW w \in Workers, NEW t \in Task, NEW step \in Steps, NEW got \in Content,
         NEW how \in Kinds \cup {"none"}, Begin(w, t, step, got, how)
  PROVE  Begins(w, t, step, got, how)
<1> DEFINE r == [at |-> step, task |-> t, type |-> msg[t.msg].type, got |-> got, how |-> how]
<1>1. msg[t.msg].type \in Types
    BY DEF MediaTypes, Rows, MsgRow, Task
<1>2. r \in Job
    BY <1>1 DEF Job
<1>3. run' = [run EXCEPT ![w] = r] /\ run \in [Workers -> {Idle} \cup Job]
    BY DEF Begin, MediaTypes, Runs
<1>4. r.at = step /\ r.got = got /\ r.task = t /\ r.how = how
    OBVIOUS
<1> HIDE DEF r
<1>5. run' \in [Workers -> {Idle} \cup Job] /\ run'[w] = r /\ OthersRun(w)
    BY <1>2, <1>3, Running
<1> QED BY <1>2, <1>4, <1>5, ConstantRows DEF Begins

-----------------------------------------------------------------------------
(* The rows.                                                                   *)

MsgTo(m, r) ==
  /\ msg' \in [Messages -> MsgRow] /\ msg'[m] = r
  /\ \A d \in Messages : d # m => msg'[d] = msg[d]
ObjTo(m, o) ==
  /\ obj' \in [Messages -> ObjRow] /\ obj'[m] = o
  /\ \A d \in Messages : d # m => obj'[d] = obj[d]
  /\ \A d \in Messages : obj'[d].status = "absent" => obj'[d] = NoObject

LEMMA MsgSet ==
  ASSUME Rows, NEW m \in Messages, NEW r \in MsgRow, msg' = [msg EXCEPT ![m] = r]
  PROVE  MsgTo(m, r)
    BY DEF Rows, MsgTo

LEMMA ObjSet ==
  ASSUME Rows, NEW m \in Messages, NEW o \in ObjRow, o.status = "absent" => o = NoObject,
         obj' = [obj EXCEPT ![m] = o]
  PROVE  ObjTo(m, o)
    BY DEF Rows, ObjTo

LEMMA MsgIs == ASSUME Rows, NEW m \in Messages, msg' = msg PROVE MsgTo(m, msg[m])
    BY DEF Rows, MsgTo

LEMMA ObjIs == ASSUME Rows, NEW m \in Messages, obj' = obj PROVE ObjTo(m, obj[m])
    BY DEF Rows, ObjTo

LEMMA Updating ==
  ASSUME Rows, NEW m \in Messages, NEW row \in ObjRow, row.status # "absent", Update(m, row)
  PROVE  ObjTo(m, IF obj[m] = NoObject THEN obj[m] ELSE row)
<1>1. CASE obj[m] = NoObject
    BY <1>1, ObjIs DEF Update
<1>2. CASE obj[m] # NoObject
    BY <1>2, ObjSet DEF Update
<1> QED BY <1>1, <1>2

SameMedia(r, s) == s.media = r.media /\ s.content = r.content /\ s.chunks = r.chunks /\ s.type = r.type

LEMMA RowStatus ==
  ASSUME NEW r \in MsgRow, NEW s \in MessageStatus
  PROVE  LET f == [r EXCEPT !.status = s] IN
         f \in MsgRow /\ f.status = s /\ f.started = r.started /\ SameMedia(r, f)
    BY DEF MsgRow, SameMedia

LEMMA ObjectStatusSet ==
  ASSUME NEW o \in ObjRow, NEW s \in ObjectStatus
  PROVE  LET e == [o EXCEPT !.status = s] IN
         /\ e \in ObjRow /\ e.status = s /\ e.stage = o.stage /\ e.file = o.file
         /\ (e.wanted <=> o.wanted)
    BY DEF ObjRow

\* A failed stage marks the message and its object, and touches nothing else.
Marks(m) == \E r, o :
  /\ MsgTo(m, r) /\ ObjTo(m, o)
  /\ SameMedia(msg[m], r) /\ (r = msg[m] \/ r.status \in {"queued", "failed", "skipped"})
  /\ o.stage = obj[m].stage /\ o.file = obj[m].file /\ (o.status = "absent" <=> obj[m].status = "absent")

LEMMA Marking ==
  ASSUME MediaTypes, NEW m \in Messages, NEW error, MarkFailed(m, error) \/ MarkRetry(m)
  PROVE  Marks(m)
<1>0. Rows /\ msg[m] \in MsgRow /\ obj[m] \in ObjRow
    BY DEF MediaTypes, Rows
<1>1. CASE UNCHANGED <<msg, obj>>
  <2>1. MsgTo(m, msg[m]) /\ ObjTo(m, obj[m])
      BY <1>0, <1>1, MsgIs, ObjIs
  <2> QED BY <2>1 DEF Marks, SameMedia
<1>2. ASSUME NEW s \in {"queued", "failed", "skipped"}, NEW r \in MsgRow, r.status = s,
             SameMedia(msg[m], r), NEW u \in ObjectStatus, u # "absent",
             msg' = [msg EXCEPT ![m] = r], Update(m, [obj[m] EXCEPT !.status = u])
      PROVE  Marks(m)
  <2> DEFINE o == [obj[m] EXCEPT !.status = u]
             n == IF obj[m] = NoObject THEN obj[m] ELSE o
  <2>1. o \in ObjRow /\ o.status = u /\ o.stage = obj[m].stage /\ o.file = obj[m].file
      BY <1>0, ObjectStatusSet
  <2> HIDE DEF o
  <2>2. ObjTo(m, n)
      BY <1>0, <1>2, <2>1, Updating DEF o
  <2>3. n.stage = obj[m].stage /\ n.file = obj[m].file /\ (n.status = "absent" <=> obj[m].status = "absent")
      BY <1>0, <1>2, <2>1, ConstantRows DEF Rows
  <2>4. MsgTo(m, r)
      BY <1>0, <1>2, MsgSet
  <2> HIDE DEF n
  <2> QED BY <1>2, <2>2, <2>3, <2>4 DEF Marks
<1>3. CASE selected /\ MarkFailed(m, error)
  <2> DEFINE s == IF error = "empty" THEN "skipped" ELSE "failed"
             u == IF error = "empty" THEN "no_speech" ELSE "failed"
             r == [msg[m] EXCEPT !.status = s]
  <2>1. s \in {"queued", "failed", "skipped"} /\ s \in MessageStatus /\ u \in ObjectStatus /\ u # "absent"
      BY DEF MessageStatus, ObjectStatus
  <2>2. msg' = [msg EXCEPT ![m].status = s] /\ Update(m, [obj[m] EXCEPT !.status = u])
      BY <1>3 DEF MarkFailed
  <2> HIDE DEF s, u
  <2>3. r \in MsgRow /\ r.status = s /\ SameMedia(msg[m], r)
      BY <1>0, <2>1, RowStatus
  <2>4. msg' = [msg EXCEPT ![m] = r]
      BY <1>0, <2>2 DEF Rows, MsgRow
  <2> HIDE DEF r
  <2> QED BY <1>2, <2>1, <2>2, <2>3, <2>4
<1>4. CASE selected /\ MarkRetry(m)
  <2> DEFINE r == [msg[m] EXCEPT !.status = "queued", !.started = "none"]
  <2>1. "queued" \in MessageStatus /\ "retry_wait" \in ObjectStatus
      BY DEF MessageStatus, ObjectStatus
  <2>2. msg' = [msg EXCEPT ![m].status = "queued", ![m].started = "none"]
        /\ Update(m, [obj[m] EXCEPT !.status = "retry_wait"])
      BY <1>4 DEF MarkRetry
  <2>3. r \in MsgRow /\ r.status = "queued" /\ SameMedia(msg[m], r)
      BY <1>0, <2>1 DEF MsgRow, SameMedia
  <2>4. msg' = [msg EXCEPT ![m] = r]
      BY <1>0, <2>2 DEF Rows, MsgRow
  <2> HIDE DEF r
  <2> QED BY <1>2, <2>1, <2>2, <2>3, <2>4
<1> QED BY <1>1, <1>3, <1>4 DEF MarkFailed, MarkRetry

\* The end of a stage that failed: the message waits, or it is sent again.
Resent(t) == \A q \in BagToSet(queue') :
  q \in BagToSet(queue) \/ (q \in Task /\ q.msg = t.msg /\ q.stage = t.stage /\ ~q.again)

LEMMA Retrying ==
  ASSUME MediaTypes, NEW w \in Workers, run[w] # Idle, NEW error, NEW published,
         RetryOrFinish(w, error, published)
  PROVE  Stops(w) /\ Marks(run[w].task.msg) /\ Resent(run[w].task)
<1> DEFINE t == run[w].task
           q == [t EXCEPT !.retries = t.retries + 1, !.again = FALSE]
<1>1. t \in Task /\ t.msg \in Messages /\ t.retries \in 0 .. MaxRetries /\ MaxRetries \in Nat
    BY WorkerTypes, MediaAssumption DEF MediaAssumption
<1>2. Stops(w)
    BY Stopping DEF RetryOrFinish
<1>3. MarkFailed(t.msg, error) \/ MarkRetry(t.msg)
    BY DEF RetryOrFinish
<1>4. Marks(t.msg)
    BY <1>1, <1>3, Marking
<1>5. queue' = queue \/ (t.retries # MaxRetries /\ queue' = queue (+) SetToBag({q}))
    BY DEF RetryOrFinish, Send
<1>6. t.retries # MaxRetries => q \in Task /\ q.msg = t.msg /\ q.stage = t.stage /\ ~q.again
  <2>1. t.retries # MaxRetries => t.retries + 1 \in 0 .. MaxRetries
      BY <1>1
  <2>2. \A n \in 0 .. MaxRetries, b \in BOOLEAN : LET e == [t EXCEPT !.retries = n, !.again = b] IN
          e \in Task /\ e.msg = t.msg /\ e.stage = t.stage /\ (e.again <=> b)
      BY <1>1 DEF Task
  <2> QED BY <2>1, <2>2
<1> HIDE DEF q
<1>7. Resent(t)
    BY <1>5, <1>6, SendBag DEF Resent
<1> QED BY <1>2, <1>4, <1>7

-----------------------------------------------------------------------------
(* What each action does.                                                      *)

LEMMA FirstTaskIs ==
  ASSUME NEW m \in Messages, NEW s \in Stages
  PROVE  /\ FirstTask(m, s) \in Task /\ FirstTask(m, s).msg = m /\ FirstTask(m, s).stage = s
         /\ ~FirstTask(m, s).again
<1>1. 0 \in 0 .. MaxRetries
    BY MediaAssumption DEF MediaAssumption
<1> QED BY <1>1 DEF FirstTask, Task

\* A worker takes a task from its queue.
Takes(w, t) ==
  /\ run[w] = Idle /\ t \in Task /\ t \in BagToSet(queue) /\ t.msg \in Messages /\ t.stage = Pool[w]
  /\ BagToSet(queue') \subseteq BagToSet(queue) /\ UNCHANGED <<selected, left>>

LEMMA Taking ==
  ASSUME MediaTypes, NEW w \in Workers, NEW t, Receive(w, t)
  PROVE  Takes(w, t)
    BY SendBag DEF Receive, Waits, BagIn, MediaTypes, Takes, Task

LEMMA TakeFetchEffect ==
  ASSUME MediaTypes, NEW w \in Workers, NEW t, TakeFetch(w, t)
  PROVE  /\ Takes(w, t) /\ Pool[w] = "fetch" /\ UNCHANGED <<msg, obj>>
         /\ run' = run \/ Begins(w, t, "need_file", Nothing, "none")
<1>1. Takes(w, t) /\ Pool[w] = "fetch" /\ UNCHANGED <<msg, obj>>
    BY Taking DEF TakeFetch, Takes
<1>2. "need_file" \in Steps /\ "none" \in Kinds \cup {"none"}
    BY DEF Steps
<1> QED BY <1>1, <1>2, Beginning, ConstantRows DEF TakeFetch, Takes

\* The claim for extraction.
Claims(w, t) == \E r, n :
  /\ selected /\ (msg[t.msg].status \in {"pending", "queued"} \/ t.again)
  /\ MsgTo(t.msg, r) /\ ObjTo(t.msg, n) /\ SameMedia(msg[t.msg], r)
  /\ r.status = "processing" /\ r.started = "recent"
  /\ n.file = obj[t.msg].file /\ (n.status = "absent" <=> obj[t.msg].status = "absent")
  /\ obj[t.msg].status # "absent" => n.status = "extracting" /\ n.stage = "extraction"
  /\ n.stage \in {obj[t.msg].stage, "extraction"}
  /\ \/ Begins(w, t, "extracted", msg[t.msg].content, "speech") /\ msg[t.msg].content.how = "speech"
     \/ \E how : Begins(w, t, "need_file", Nothing, how)
\* A task that is not needed any more: the broker delivered it twice, perhaps.
Drops(t) == \E r, n :
  /\ MsgTo(t.msg, r) /\ ObjTo(t.msg, n) /\ SameMedia(msg[t.msg], r)
  /\ r = msg[t.msg] \/ (t.again /\ r.status = "queued")
  /\ n = obj[t.msg] \/ (t.again /\ n.status = "cached" /\ obj[t.msg].status # "absent")
  /\ n.file = obj[t.msg].file /\ n.stage = obj[t.msg].stage

LEMMA TakeProcessEffect ==
  ASSUME MediaTypes, NEW w \in Workers, NEW t, TakeProcess(w, t)
  PROVE  /\ Takes(w, t) /\ Pool[w] = "process"
         /\ \/ /\ Begins(w, t, "hand_over", Nothing, "none") /\ UNCHANGED <<msg, obj>>
               /\ obj[t.msg].stage = "index" /\ msg[t.msg].content.of # 0
            \/ Claims(w, t)
            \/ run' = run /\ Drops(t)
<1> DEFINE m == t.msg
           broken == Interrupted(t, "extraction", "extracting")
           o == IF broken THEN [obj[m] EXCEPT !.status = "cached"] ELSE obj[m]
           row == IF broken /\ msg[m].status = "processing"
                  THEN [msg[m] EXCEPT !.status = "queued", !.started = "none"] ELSE msg[m]
           handed == selected /\ o.stage = "index" /\ row.content.of # 0
<1>1. Takes(w, t) /\ Pool[w] = "process" /\ m \in Messages /\ t \in Task
    BY Taking DEF TakeProcess, Takes
<1>2. Rows /\ msg[m] \in MsgRow /\ obj[m] \in ObjRow
    BY <1>1 DEF MediaTypes, Rows
<1>3. /\ o \in ObjRow /\ o.file = obj[m].file /\ o.stage = obj[m].stage
      /\ o = obj[m] \/ (t.again /\ o.status = "cached" /\ obj[m].status # "absent")
  <2>1. "cached" \in ObjectStatus
      BY DEF ObjectStatus
  <2>2. broken => t.again /\ obj[m].status # "absent"
      BY DEF Interrupted
  <2> QED BY <1>2, <2>1, <2>2, ObjectStatusSet
<1>4. /\ row \in MsgRow /\ SameMedia(msg[m], row)
      /\ row = msg[m] \/ (t.again /\ row.status = "queued")
  <2>1. LET e == [msg[m] EXCEPT !.status = "queued", !.started = "none"] IN
        e \in MsgRow /\ SameMedia(msg[m], e) /\ e.status = "queued"
      BY <1>2 DEF MsgRow, SameMedia, MessageStatus
  <2>2. broken => t.again
      BY DEF Interrupted
  <2> QED BY <1>2, <2>1, <2>2 DEF SameMedia
<1>5. /\ "hand_over" \in Steps /\ "need_file" \in Steps /\ "extracted" \in Steps
      /\ "none" \in Kinds \cup {"none"} /\ "speech" \in Kinds \cup {"none"}
    BY DEF Steps, Kinds
<1>6. IF handed THEN Begin(w, t, "hand_over", Nothing, "none") /\ UNCHANGED <<msg, obj>>
      ELSE IF Claimable(row)
      THEN /\ Claim(m, row, o)
           /\ IF Reusable(row) THEN Begin(w, t, "extracted", row.content, "speech")
              ELSE Begin(w, t, "need_file", Nothing, Treatment(row.type, o.wanted))
      ELSE msg' = [msg EXCEPT ![m] = row] /\ obj' = [obj EXCEPT ![m] = o] /\ run' = run
    BY DEF TakeProcess
<1> HIDE DEF o, row, broken
<1>7. CASE handed
  <2>1. Begins(w, t, "hand_over", Nothing, "none") /\ UNCHANGED <<msg, obj>>
      BY <1>1, <1>5, <1>6, <1>7, Beginning, ConstantRows
  <2>2. obj[m].stage = "index" /\ msg[m].content.of # 0
      BY <1>3, <1>4, <1>7 DEF SameMedia
  <2> QED BY <1>1, <2>1, <2>2
<1>8. CASE ~handed /\ Claimable(row)
  <2> DEFINE r == [row EXCEPT !.status = "processing", !.started = "recent"]
             e == [o EXCEPT !.status = "extracting", !.stage = "extraction"]
             n == IF obj[m] = NoObject THEN obj[m] ELSE e
  <2>1. r \in MsgRow /\ r.status = "processing" /\ r.started = "recent" /\ SameMedia(row, r)
      BY <1>4 DEF MsgRow, SameMedia, MessageStatus
  <2>2. e \in ObjRow /\ e.status = "extracting" /\ e.stage = "extraction" /\ e.file = o.file
      BY <1>3 DEF ObjRow, ObjectStatus, ObjectStage
  <2>3. msg' = [msg EXCEPT ![m] = r] /\ Update(m, e)
      BY <1>6, <1>8 DEF Claim
  <2> HIDE DEF r, e
  <2>4. MsgTo(m, r) /\ ObjTo(m, n)
      BY <1>1, <1>2, <2>1, <2>2, <2>3, MsgSet, Updating
  <2>5. /\ n.file = obj[m].file /\ (n.status = "absent" <=> obj[m].status = "absent")
        /\ obj[m].status # "absent" => n.status = "extracting" /\ n.stage = "extraction"
        /\ n.stage \in {obj[m].stage, "extraction"}
      BY <1>1, <1>2, <1>3, <2>2, ConstantRows DEF Rows
  <2>6. SameMedia(msg[m], r)
      BY <1>4, <2>1 DEF SameMedia
  <2>7. selected /\ (msg[m].status \in {"pending", "queued"} \/ t.again)
      BY <1>4, <1>8 DEF Claimable
  <2>8. \/ Begins(w, t, "extracted", msg[m].content, "speech") /\ msg[m].content.how = "speech"
        \/ \E how : Begins(w, t, "need_file", Nothing, how)
    <3>1. CASE Reusable(row)
      <4>1. row.content \in Content /\ row.content = msg[m].content
          BY <1>4 DEF MsgRow, SameMedia
      <4>2. Begins(w, t, "extracted", row.content, "speech")
          BY <1>1, <1>5, <1>6, <1>8, <3>1, <4>1, Beginning
      <4> QED BY <3>1, <4>1, <4>2 DEF Reusable
    <3>2. CASE ~Reusable(row)
      <4>1. Treatment(row.type, o.wanted) \in Kinds \cup {"none"}
          BY DEF Treatment, Kinds
      <4>2. Begins(w, t, "need_file", Nothing, Treatment(row.type, o.wanted))
          BY <1>1, <1>5, <1>6, <1>8, <3>2, <4>1, Beginning, ConstantRows
      <4> QED BY <4>2
    <3> QED BY <3>1, <3>2
  <2> HIDE DEF n
  <2>9. Claims(w, t)
      BY <2>1, <2>4, <2>5, <2>6, <2>7, <2>8 DEF Claims
  <2> QED BY <1>1, <2>9
<1>9. CASE ~handed /\ ~Claimable(row)
  <2>1. msg' = [msg EXCEPT ![m] = row] /\ obj' = [obj EXCEPT ![m] = o] /\ run' = run
      BY <1>6, <1>9
  <2>2. MsgTo(m, row)
      BY <1>1, <1>2, <1>4, <2>1, MsgSet
  <2>3. o.status = "absent" => o = NoObject
      BY <1>1, <1>2, <1>3 DEF Rows
  <2>4. ObjTo(m, o)
      BY <1>1, <1>2, <1>3, <2>1, <2>3, ObjSet
  <2>5. Drops(t)
      BY <1>3, <1>4, <2>2, <2>4 DEF Drops
  <2> QED BY <1>1, <2>1, <2>5
<1> QED BY <1>7, <1>8, <1>9

\* The claim for the index.
Indexing(w, t) == \E r, n :
  /\ selected /\ msg[t.msg].status # "ready" /\ obj[t.msg].stage = "index"
  /\ MsgTo(t.msg, r) /\ ObjTo(t.msg, n) /\ SameMedia(msg[t.msg], r)
  /\ r.status = "processing" /\ r.started = "recent"
  /\ obj[t.msg].status # "absent" /\ n.status = "indexing"
  /\ n.stage = "index" /\ n.file = obj[t.msg].file
  /\ obj[t.msg].status \in {"cached", "retry_wait", "failed"} \/ t.again
  /\ Begins(w, t, "indexing", msg[t.msg].content, "none")

LEMMA TakeIndexEffect ==
  ASSUME MediaTypes, NEW w \in Workers, NEW t, TakeIndex(w, t)
  PROVE  /\ Takes(w, t) /\ Pool[w] = "index"
         /\ Indexing(w, t) \/ (run' = run /\ Drops(t))
<1> DEFINE m == t.msg
           broken == Interrupted(t, "index", "indexing")
           o == IF broken THEN [obj[m] EXCEPT !.status = "cached"] ELSE obj[m]
           mine == /\ msg[m].status # "ready" /\ selected
                   /\ o.stage = "index" /\ o.status \in {"cached", "retry_wait", "failed"}
<1>1. Takes(w, t) /\ Pool[w] = "index" /\ m \in Messages /\ t \in Task
    BY Taking DEF TakeIndex, Takes
<1>2. Rows /\ msg[m] \in MsgRow /\ obj[m] \in ObjRow
    BY <1>1 DEF MediaTypes, Rows
<1>3. /\ o \in ObjRow /\ o.file = obj[m].file /\ o.stage = obj[m].stage
      /\ o = obj[m] \/ (t.again /\ o.status = "cached" /\ obj[m].status # "absent")
  <2>1. "cached" \in ObjectStatus
      BY DEF ObjectStatus
  <2>2. broken => t.again /\ obj[m].status # "absent"
      BY DEF Interrupted
  <2> QED BY <1>2, <2>1, <2>2, ObjectStatusSet
<1>4. IF mine
      THEN /\ msg' = [msg EXCEPT ![m].status = "processing", ![m].started = "recent"]
           /\ obj' = [obj EXCEPT ![m].status = "indexing"]
           /\ Begin(w, t, "indexing", msg[m].content, "none")
      ELSE obj' = [obj EXCEPT ![m] = o] /\ UNCHANGED <<msg, run>>
    BY DEF TakeIndex
<1> HIDE DEF o, broken
<1>5. CASE mine
  <2> DEFINE r == [msg[m] EXCEPT !.status = "processing", !.started = "recent"]
             n == [obj[m] EXCEPT !.status = "indexing"]
  <2>1. r \in MsgRow /\ r.status = "processing" /\ r.started = "recent" /\ SameMedia(msg[m], r)
      BY <1>2 DEF MsgRow, SameMedia, MessageStatus
  <2>2. n \in ObjRow /\ n.status = "indexing" /\ n.stage = obj[m].stage /\ n.file = obj[m].file
      BY <1>2 DEF ObjRow, ObjectStatus
  <2>3. msg' = [msg EXCEPT ![m] = r] /\ obj' = [obj EXCEPT ![m] = n]
      BY <1>2, <1>4, <1>5 DEF Rows, MsgRow
  <2>4. Begins(w, t, "indexing", msg[m].content, "none")
    <3>1. "indexing" \in Steps /\ "none" \in Kinds \cup {"none"} /\ msg[m].content \in Content
        BY <1>2 DEF Steps, MsgRow
    <3> QED BY <1>1, <1>4, <1>5, <3>1, Beginning
  <2> HIDE DEF r, n
  <2>5. MsgTo(m, r) /\ ObjTo(m, n)
      BY <1>1, <1>2, <2>1, <2>2, <2>3, MsgSet, ObjSet
  <2>6. obj[m].status \in {"cached", "retry_wait", "failed"} \/ t.again
      BY <1>3, <1>5
  <2>7. obj[m].status # "absent"
      BY <1>3, <1>5
  <2> QED BY <1>1, <1>3, <1>5, <2>1, <2>2, <2>4, <2>5, <2>6, <2>7 DEF Indexing
<1>6. CASE ~mine
  <2>1. obj' = [obj EXCEPT ![m] = o] /\ UNCHANGED <<msg, run>>
      BY <1>4, <1>6
  <2>2. MsgTo(m, msg[m])
      BY <1>1, <1>2, <2>1, MsgIs
  <2>3. o.status = "absent" => o = NoObject
      BY <1>1, <1>2, <1>3 DEF Rows
  <2>4. ObjTo(m, o)
      BY <1>1, <1>2, <1>3, <2>1, <2>3, ObjSet
  <2>5. Drops(t)
      BY <1>3, <2>2, <2>4 DEF Drops, SameMedia
  <2> QED BY <1>1, <2>1, <2>5
<1> QED BY <1>5, <1>6

\* A worker that has the file hands over or extracts it.
HasFile(w, file) ==
  \/ Pool[w] = "fetch" /\ GoesOn(w, "hand_over", Nothing)
  \/ Pool[w] = "process" /\ GoesOn(w, "extracting", [of |-> file, how |-> run[w].how])

LEMMA HavingFile ==
  ASSUME MediaTypes, NEW w \in Workers, In(w, "need_file") \/ In(w, "downloading"),
         NEW file \in Media, GoOn(w, file)
  PROVE  HasFile(w, file)
<1>1. /\ run[w] # Idle /\ run[w].at # "indexing" /\ run[w].how \in Kinds \cup {"none"}
      /\ "hand_over" \in Steps /\ "extracting" \in Steps
    BY InIsBusy, WorkerTypes DEF In, Steps
<1>2. Pool[w] \in {"fetch", "process"}
    BY <1>1, WorkerTypes DEF Stages
<1>3. [of |-> file, how |-> run[w].how] \in Content
    BY <1>1 DEF Content
<1> QED BY <1>1, <1>2, <1>3, Continuing, ConstantRows DEF GoOn, HasFile

LEMMA HitEffect ==
  ASSUME MediaTypes, NEW w \in Workers, Hit(w), NEW m, m = run[w].task.msg
  PROVE  /\ m \in Messages /\ run[w] # Idle /\ run[w].at = "need_file"
         /\ obj[m].file \in Media /\ HasFile(w, obj[m].file)
         /\ UNCHANGED <<msg, obj, selected, queue, left>>
<1>1. In(w, "need_file") /\ obj[m].file # 0 /\ GoOn(w, obj[m].file)
    BY DEF Hit
<1>2. run[w] # Idle /\ run[w].at = "need_file" /\ m \in Messages
    BY <1>1, InIsBusy, WorkerTypes DEF In, Steps
<1>3. obj[m].file \in Media
    BY <1>1, <1>2 DEF MediaTypes, Rows, ObjRow
<1> QED BY <1>1, <1>2, <1>3, HavingFile DEF Hit

LEMMA DownloadEffect ==
  ASSUME MediaTypes, NEW w \in Workers, Download(w), NEW m, m = run[w].task.msg
  PROVE  /\ m \in Messages /\ run[w] # Idle /\ run[w].at = "need_file"
         /\ obj[m].file = 0 /\ ~Downloads(m)
         /\ \E n : ObjTo(m, n) /\ n.status = "fetching" /\ n.stage = "fetch" /\ n.file = 0
         /\ GoesOn(w, "downloading", [of |-> msg[m].media, how |-> run[w].how])
         /\ UNCHANGED <<msg, selected, queue, left>>
<1>1. In(w, "need_file") /\ obj[m].file = 0 /\ ~Downloads(m)
    BY DEF Download
<1>2. run[w] # Idle /\ run[w].at = "need_file" /\ m \in Messages
    BY <1>1, InIsBusy, WorkerTypes DEF In, Steps
<1>3. Rows /\ msg[m] \in MsgRow /\ obj[m] \in ObjRow
    BY <1>2 DEF MediaTypes, Rows
<1> DEFINE n == [obj[m] EXCEPT !.status = "fetching", !.stage = "fetch"]
           got == [of |-> msg[m].media, how |-> run[w].how]
<1>4. n \in ObjRow /\ n.status = "fetching" /\ n.stage = "fetch" /\ n.file = 0
    BY <1>1, <1>3 DEF ObjRow, ObjectStatus, ObjectStage
<1>5. obj' = [obj EXCEPT ![m] = n]
    BY <1>3 DEF Download, Rows, ObjRow
<1> HIDE DEF n
<1>6. ObjTo(m, n)
    BY <1>2, <1>3, <1>4, <1>5, ObjSet
<1>7. got \in Content /\ "downloading" \in Steps
    BY <1>2, <1>3, WorkerTypes DEF Content, MsgRow, Steps
<1>8. GoesOn(w, "downloading", got)
    BY <1>2, <1>7, Continuing DEF Download
<1> QED BY <1>1, <1>2, <1>4, <1>6, <1>8 DEF Download

LEMMA DownloadedEffect ==
  ASSUME MediaTypes, NEW w \in Workers, Downloaded(w), NEW m, m = run[w].task.msg
  PROVE  /\ m \in Messages /\ run[w] # Idle /\ run[w].at = "downloading"
         /\ \E n : ObjTo(m, n) /\ n.status = "cached" /\ n.stage = "extraction" /\ n.file = msg[m].media
         /\ msg[m].media \in Media /\ HasFile(w, msg[m].media)
         /\ UNCHANGED <<msg, selected, queue, left>>
<1>1. In(w, "downloading") /\ run[w].got.of = msg[m].media /\ GoOn(w, msg[m].media)
    BY DEF Downloaded, Current
<1>2. run[w] # Idle /\ run[w].at = "downloading" /\ m \in Messages
    BY <1>1, InIsBusy, WorkerTypes DEF In, Steps
<1>3. Rows /\ obj[m] \in ObjRow /\ msg[m].media \in Media
    BY <1>2 DEF MediaTypes, Rows, MsgRow
<1> DEFINE k == msg[m].media
           n == [obj[m] EXCEPT !.status = "cached", !.stage = "extraction", !.file = k]
<1> HIDE DEF k
<1>4. n \in ObjRow /\ n.status = "cached" /\ n.stage = "extraction" /\ n.file = k
    BY <1>3 DEF ObjRow, ObjectStatus, ObjectStage, k
<1>5. obj' = [obj EXCEPT ![m] = n]
    BY <1>1, <1>3 DEF Downloaded, Rows, ObjRow, k
<1> HIDE DEF n
<1>6. ObjTo(m, n)
    BY <1>2, <1>3, <1>4, <1>5, ObjSet
<1>7. HasFile(w, msg[m].media)
    BY <1>1, <1>3, HavingFile
<1> QED BY <1>2, <1>3, <1>4, <1>6, <1>7 DEF Downloaded, k

LEMMA ExtractEffect ==
  ASSUME MediaTypes, NEW w \in Workers, Extract(w), NEW m, m = run[w].task.msg
  PROVE  /\ m \in Messages /\ run[w] # Idle /\ run[w].at = "extracting"
         /\ \E n : /\ ObjTo(m, n) /\ n.status = obj[m].status /\ n.file = obj[m].file
                   /\ n = obj[m] \/ (selected /\ obj[m].status # "absent" /\ n.stage = "summary")
         /\ GoesOn(w, "extracted", run[w].got)
         /\ UNCHANGED <<msg, selected, queue, left>>
<1>2. run[w] # Idle /\ run[w].at = "extracting" /\ m \in Messages
  <2>1. In(w, "extracting")
      BY DEF Extract
  <2> QED BY <2>1, InIsBusy, WorkerTypes DEF In, Steps
<1>3. Rows /\ obj[m] \in ObjRow
    BY <1>2 DEF MediaTypes, Rows
<1>4. GoesOn(w, "extracted", run[w].got)
  <2>1. "extracted" \in Steps /\ run[w].got \in Content
      BY <1>2, WorkerTypes DEF Steps
  <2> QED BY <1>2, <2>1, Continuing DEF Extract
<1>5. CASE obj' = obj
    BY <1>2, <1>3, <1>4, <1>5, ObjIs DEF Extract
<1>6. CASE MarkSummary(m)
  <2> DEFINE n == [obj[m] EXCEPT !.stage = "summary"]
  <2>1. n \in ObjRow /\ n.status = obj[m].status /\ n.stage = "summary" /\ n.file = obj[m].file
      BY <1>3 DEF ObjRow, ObjectStage
  <2>2. obj' = [obj EXCEPT ![m] = n] /\ selected /\ obj[m] # NoObject
      BY <1>6 DEF MarkSummary, Stored
  <2>3. obj[m].status # "absent"
      BY <1>2, <1>3, <2>2 DEF Rows
  <2> HIDE DEF n
  <2>4. ObjTo(m, n)
      BY <1>2, <1>3, <2>1, <2>2, <2>3, ObjSet
  <2> QED BY <1>2, <1>4, <2>1, <2>2, <2>3, <2>4 DEF Extract
<1>7. obj' = obj \/ MarkSummary(m)
    BY DEF Extract
<1> QED BY <1>5, <1>6, <1>7

LEMMA CheckpointEffect ==
  ASSUME MediaTypes, NEW w \in Workers, Checkpoint(w), NEW m, m = run[w].task.msg
  PROVE  /\ m \in Messages /\ run[w] # Idle /\ run[w].at = "extracted" /\ selected
         /\ \E r : /\ MsgTo(m, r) /\ r.media = msg[m].media /\ r.status = msg[m].status
                   /\ r.started = msg[m].started /\ r.content = run[w].got /\ r.chunks = msg[m].chunks
         /\ \E n : /\ ObjTo(m, n) /\ n.file = obj[m].file
                   /\ (n.status = "absent" <=> obj[m].status = "absent")
                   /\ obj[m].status # "absent" => n.status = "cached" /\ n.stage = "index"
                   /\ obj[m].status = "absent" => n = obj[m]
         /\ GoesOn(w, "hand_over", Nothing)
         /\ UNCHANGED <<selected, queue, left>>
<1>1. In(w, "extracted") /\ selected
    BY DEF Checkpoint
<1>2. run[w] # Idle /\ run[w].at = "extracted" /\ m \in Messages
    BY <1>1, InIsBusy, WorkerTypes DEF In, Steps
<1>3. Rows /\ obj[m] \in ObjRow /\ msg[m] \in MsgRow /\ run[w].got \in Content /\ run[w].type \in Types
    BY <1>2, WorkerTypes DEF MediaTypes, Rows
<1> DEFINE g == run[w].got
           k == run[w].type
           r == [msg[m] EXCEPT !.content = g, !.type = k]
           e == [obj[m] EXCEPT !.status = "cached", !.stage = "index"]
           n == IF obj[m] = NoObject THEN obj[m] ELSE e
<1>4. /\ r \in MsgRow /\ r.media = msg[m].media /\ r.status = msg[m].status
      /\ r.started = msg[m].started /\ r.content = run[w].got /\ r.chunks = msg[m].chunks
  <2> HIDE DEF g, k
  <2>1. g \in Content /\ k \in Types /\ g = run[w].got
      BY <1>3 DEF g, k
  <2> QED BY <1>3, <2>1 DEF MsgRow
<1>5. e \in ObjRow /\ e.status = "cached" /\ e.stage = "index" /\ e.file = obj[m].file
    BY <1>3 DEF ObjRow, ObjectStatus, ObjectStage
<1>6. msg' = [msg EXCEPT ![m] = r] /\ Update(m, e)
    BY <1>3 DEF Checkpoint, Rows, MsgRow
<1>7. GoesOn(w, "hand_over", Nothing)
  <2>1. "hand_over" \in Steps
      BY DEF Steps
  <2> QED BY <1>2, <2>1, Continuing, ConstantRows DEF Checkpoint
<1>8. UNCHANGED <<selected, queue, left>>
    BY DEF Checkpoint
<1> HIDE DEF r, e
<1>9. MsgTo(m, r) /\ ObjTo(m, n)
    BY <1>2, <1>3, <1>4, <1>5, <1>6, MsgSet, Updating
<1>10. /\ n.file = obj[m].file /\ (n.status = "absent" <=> obj[m].status = "absent")
       /\ obj[m].status # "absent" => n.status = "cached" /\ n.stage = "index"
       /\ obj[m].status = "absent" => n = obj[m]
    BY <1>2, <1>3, <1>5, ConstantRows DEF Rows
<1> HIDE DEF n
<1> QED BY <1>1, <1>2, <1>4, <1>7, <1>8, <1>9, <1>10

LEMMA NextTaskIs ==
  ASSUME MediaTypes, NEW w \in Workers, run[w] # Idle
  PROVE  /\ NextTask(w) \in Task /\ NextTask(w).msg = run[w].task.msg /\ ~NextTask(w).again
         /\ NextTask(w).stage = (IF Pool[w] = "fetch" THEN "process" ELSE "index")
<1>1. run[w].task.msg \in Messages
    BY WorkerTypes
<1> QED BY <1>1, FirstTaskIs DEF NextTask, Stages

LEMMA HandOverEffect ==
  ASSUME MediaTypes, NEW w \in Workers, HandOver(w)
  PROVE  /\ run[w] # Idle /\ run[w].at = "hand_over" /\ Stops(w)
         /\ BagToSet(queue') = BagToSet(queue) \cup {NextTask(w)}
         /\ UNCHANGED <<msg, obj, selected, left>>
<1>1. In(w, "hand_over") /\ "hand_over" \in Steps
    BY DEF HandOver, Steps
<1>2. run[w] # Idle /\ run[w].at = "hand_over"
    BY <1>1, InIsBusy DEF In
<1> QED BY <1>2, Stopping, SendBag DEF HandOver, Send

LEMMA FinalizeEffect ==
  ASSUME MediaTypes, NEW w \in Workers, Finalize(w), NEW m, m = run[w].task.msg
  PROVE  /\ m \in Messages /\ run[w] # Idle /\ run[w].at = "indexing" /\ selected
         /\ msg[m].status = "processing" /\ run[w].got.of # 0
         /\ \E r : /\ MsgTo(m, r) /\ r.media = msg[m].media /\ r.status = "ready"
                   /\ r.content = run[w].got /\ r.chunks = run[w].got.of
         /\ \E n : /\ ObjTo(m, n) /\ n.file = obj[m].file
                   /\ (n.status = "absent" <=> obj[m].status = "absent")
                   /\ obj[m].status # "absent" => n.stage = "complete"
         /\ Stops(w) /\ UNCHANGED <<selected, queue, left>>
<1>1. In(w, "indexing") /\ Claimed(w)
    BY DEF Finalize
<1>2. run[w] # Idle /\ run[w].at = "indexing" /\ m \in Messages
    BY <1>1, InIsBusy, WorkerTypes DEF In, Steps
<1>3. selected /\ msg[m].status = "processing" /\ run[w].got.of # 0
    BY <1>1 DEF Claimed
<1>4. Rows /\ obj[m] \in ObjRow /\ msg[m] \in MsgRow /\ run[w].got \in Content /\ run[w].type \in Types
    BY <1>2, WorkerTypes DEF MediaTypes, Rows
<1> DEFINE g == run[w].got
           k == run[w].type
           s == IF g.how = "file" THEN "ready_download_only" ELSE "ready"
           r == [msg[m] EXCEPT !.status = "ready", !.content = g, !.chunks = g.of, !.type = k]
           e == [obj[m] EXCEPT !.stage = "complete", !.status = s]
           n == IF obj[m] = NoObject THEN obj[m] ELSE e
<1>5. /\ r \in MsgRow /\ r.media = msg[m].media /\ r.status = "ready"
      /\ r.content = run[w].got /\ r.chunks = run[w].got.of
  <2> HIDE DEF g, k
  <2>1. g \in Content /\ k \in Types /\ g = run[w].got /\ g.of \in Media \cup {0}
      BY <1>4 DEF g, k, Content
  <2>2. "ready" \in MessageStatus
      BY DEF MessageStatus
  <2> QED BY <1>4, <2>1, <2>2 DEF MsgRow
<1>6. e \in ObjRow /\ e.status # "absent" /\ e.stage = "complete" /\ e.file = obj[m].file
  <2>1. s \in ObjectStatus /\ s # "absent" /\ "complete" \in ObjectStage
      BY DEF ObjectStatus, ObjectStage
  <2> HIDE DEF s
  <2> QED BY <1>4, <2>1 DEF ObjRow
<1>7. msg' = [msg EXCEPT ![m] = r]
    BY <1>4 DEF Finalize, Rows, MsgRow
<1>8. Update(m, e)
    BY DEF Finalize
<1>9. Stops(w) /\ UNCHANGED <<selected, queue, left>>
    BY Stopping DEF Finalize
<1> HIDE DEF r, e
<1>10. MsgTo(m, r) /\ ObjTo(m, n)
    BY <1>2, <1>4, <1>5, <1>6, <1>7, <1>8, MsgSet, Updating
<1>11. /\ n.file = obj[m].file /\ (n.status = "absent" <=> obj[m].status = "absent")
       /\ obj[m].status # "absent" => n.stage = "complete"
    BY <1>2, <1>4, <1>6, ConstantRows DEF Rows
<1> HIDE DEF n
<1> QED BY <1>2, <1>3, <1>5, <1>9, <1>10, <1>11

\* A stage ends with an error: an event, or what the code refuses.
Fails(w) == run[w] # Idle /\ Stops(w) /\ Marks(run[w].task.msg) /\ Resent(run[w].task) /\ selected' = selected

LEMMA RaiseEffect ==
  ASSUME MediaTypes, NEW w \in Workers, NEW error, Raise(w, error)
  PROVE  /\ Fails(w) /\ LeftFalls
         /\ Refused(w) \/ (left["error"] \in Nat /\ left'["error"] < left["error"])
<1>1. left \in [Events \cup {"all"} -> Nat] /\ "error" \in Events
    BY DEF MediaTypes, Events
<1>2. run[w] # Idle
  <2>1. Refused(w) => run[w].at \in Steps
      BY DEF Refused, In, Steps
  <2> QED BY <2>1, ConstantRows DEF Raise
<1>3. Fails(w)
    BY <1>2, Retrying DEF Raise, Fails
<1>4. CASE Refused(w) /\ left' = left
    BY <1>1, <1>3, <1>4, NothingSpent
<1>5. CASE Spend("error")
    BY <1>1, <1>3, <1>5, Spending
<1> QED BY <1>4, <1>5 DEF Raise

LEMMA BrokerEffect ==
  ASSUME MediaTypes, NEW w \in Workers, BrokerFails(w)
  PROVE  /\ Fails(w) /\ LeftFalls
         /\ left["broker"] \in Nat /\ left'["broker"] < left["broker"]
<1>1. left \in [Events \cup {"all"} -> Nat] /\ "broker" \in Events
    BY DEF MediaTypes, Events
<1>2. run[w].at \in Steps
    BY DEF BrokerFails, Refused, In, Steps
<1>3. run[w] # Idle
    BY <1>2, ConstantRows
<1>4. Fails(w)
    BY <1>3, Retrying DEF BrokerFails, Fails
<1>5. Spend("broker")
    BY DEF BrokerFails
<1> QED BY <1>1, <1>4, <1>5, Spending

LEMMA CrashEffect ==
  ASSUME MediaTypes, NEW w \in Workers, Crash(w)
  PROVE  /\ run[w] # Idle /\ Stops(w) /\ LeftFalls /\ BagToSet(queue') \subseteq Task
         /\ left["crash"] \in Nat /\ left'["crash"] < left["crash"]
         /\ UNCHANGED <<msg, obj, selected>>
<1>1. left \in [Events \cup {"all"} -> Nat] /\ "crash" \in Events
    BY DEF MediaTypes, Events
<1>2. run[w] # Idle /\ Spend("crash") /\ UNCHANGED <<msg, obj, selected>> /\ Stops(w)
    BY Stopping DEF Crash
<1> DEFINE q == [run[w].task EXCEPT !.again = TRUE]
<1>3. q \in Task
    BY <1>2, WorkerTypes DEF Task
<1>4. NextTask(w) \in Task
    BY <1>2, NextTaskIs
<1>5. \/ queue' = queue (+) SetToBag({q})
      \/ queue' = queue (+) SetToBag({q}) (+) SetToBag({NextTask(w)})
    BY DEF Crash
<1> HIDE DEF q
<1>6. BagToSet(queue') \subseteq Task
    BY <1>3, <1>4, <1>5, SendBag DEF MediaTypes
<1> QED BY <1>1, <1>2, <1>6, Spending

LEMMA ReturnEffect ==
  ASSUME MediaTypes, NEW t, Return(t)
  PROVE  /\ LeftFalls /\ BagToSet(queue') \subseteq Task
         /\ left["crash"] \in Nat /\ left'["crash"] < left["crash"]
         /\ UNCHANGED <<msg, obj, selected, run>>
<1>1. left \in [Events \cup {"all"} -> Nat] /\ "crash" \in Events
    BY DEF MediaTypes, Events
<1>2. t \in Task /\ Spend("crash") /\ UNCHANGED <<msg, obj, selected, run>>
    BY DEF Return, Waits, BagIn, MediaTypes
<1> DEFINE q == [t EXCEPT !.again = TRUE]
<1>3. q \in Task
    BY <1>2 DEF Task
<1>4. queue' = (queue (-) SetToBag({t})) (+) SetToBag({q})
    BY DEF Return
<1> HIDE DEF q
<1>5. BagToSet(queue') \subseteq Task
    BY <1>3, <1>4, SendBag DEF MediaTypes
<1> QED BY <1>1, <1>2, <1>5, Spending

LEMMA AgeEffect ==
  ASSUME MediaTypes, NEW m \in Messages, Age(m)
  PROVE  /\ \E r : /\ MsgTo(m, r) /\ SameMedia(msg[m], r) /\ r.status = msg[m].status
                   /\ r.started = "stale"
         /\ LeftFalls /\ (Active(m) => left["slow"] \in Nat /\ left'["slow"] < left["slow"])
         /\ UNCHANGED <<obj, selected, queue, run>>
<1>1. Rows /\ msg[m] \in MsgRow /\ left \in [Events \cup {"all"} -> Nat] /\ "slow" \in Events
    BY DEF MediaTypes, Rows, Events
<1> DEFINE r == [msg[m] EXCEPT !.started = "stale"]
<1>2. r \in MsgRow /\ SameMedia(msg[m], r) /\ r.status = msg[m].status /\ r.started = "stale"
    BY <1>1 DEF MsgRow, SameMedia
<1>3. msg' = [msg EXCEPT ![m] = r]
    BY <1>1 DEF Age, Rows, MsgRow
<1> HIDE DEF r
<1>4. MsgTo(m, r)
    BY <1>1, <1>2, <1>3, MsgSet
<1>5. LeftFalls /\ (Active(m) => left["slow"] \in Nat /\ left'["slow"] < left["slow"])
    BY <1>1, Spending, NothingSpent DEF Age
<1> QED BY <1>2, <1>4, <1>5 DEF Age

LEMMA EditEffect ==
  ASSUME MediaTypes, NEW m \in Messages, NEW type \in Types, Edit(m, type)
  PROVE  /\ selected /\ LeftFalls /\ left["edit"] \in Nat /\ left'["edit"] = left["edit"] - 1
         /\ EditsOverlap \/ \A w \in Workers : Works(w, m) => Pool[w] = "fetch"
         /\ \E r, n :
              /\ MsgTo(m, r) /\ ObjTo(m, n) /\ r.media = msg[m].media + 1
              /\ \/ /\ obj[m].status = "absent" /\ n = obj[m]
                    /\ r.content = msg[m].content /\ r.status \in {"pending", msg[m].status}
                 \/ /\ obj[m].status # "absent" /\ n.status = "pending" /\ n.file = 0
                    /\ r.content = Nothing /\ r.status = "pending"
         /\ UNCHANGED <<selected, queue, run>>
<1>1. Rows /\ msg[m] \in MsgRow /\ obj[m] \in ObjRow /\ left \in [Events \cup {"all"} -> Nat]
      /\ "edit" \in Events
    BY DEF MediaTypes, Rows, Events
<1>2. Spend("edit") /\ selected /\ UNCHANGED <<selected, queue, run>>
      /\ (EditsOverlap \/ \A w \in Workers : Works(w, m) => Pool[w] = "fetch")
    BY DEF Edit
<1>3. LeftFalls /\ left["edit"] \in Nat /\ left["edit"] > 0 /\ left'["edit"] = left["edit"] - 1
    BY <1>1, <1>2, Spending
<1> DEFINE k == msg[m].media + 1
<1>4. k \in Media
  <2>1. msg[m].media \in Nat \ {0} /\ Budget["edit"] \in Nat
        /\ msg[m].media + left["edit"] <= Budget["edit"] + 1
      BY <1>1, MediaAre, BudgetIsNat DEF MsgRow, MediaTypes, MediaBounded
  <2> QED BY <1>3, <2>1 DEF Media
<1>5. CASE obj[m] = NoObject
  <2> DEFINE s == IF msg[m].status = "none" THEN "pending" ELSE msg[m].status
             r == [msg[m] EXCEPT !.media = k, !.type = type, !.status = s]
  <2>1. msg' = [msg EXCEPT ![m] = r] /\ obj' = obj
      BY <1>1, <1>5 DEF Edit, Rows, MsgRow
  <2>2. s \in MessageStatus /\ s \in {"pending", msg[m].status}
      BY <1>1 DEF MsgRow, MessageStatus
  <2> HIDE DEF s, k
  <2>3. r \in MsgRow /\ r.media = k /\ r.content = msg[m].content /\ r.status = s
      BY <1>1, <1>4, <2>2 DEF MsgRow
  <2> HIDE DEF r
  <2>4. MsgTo(m, r) /\ ObjTo(m, obj[m]) /\ obj[m].status = "absent"
      BY <1>1, <1>5, <2>1, <2>3, MsgSet, ObjIs, ConstantRows
  <2> QED BY <1>2, <1>3, <2>2, <2>3, <2>4 DEF k
<1>6. CASE obj[m] # NoObject
  <2> DEFINE r == [msg[m] EXCEPT !.media = k, !.type = type, !.status = "pending",
                                 !.content = Nothing, !.chunks = 0]
             n == [obj[m] EXCEPT !.status = "pending", !.stage = "fetch", !.file = 0]
  <2>1. msg' = [msg EXCEPT ![m] = r] /\ obj' = [obj EXCEPT ![m] = n]
      BY <1>1, <1>6 DEF Edit, Rows, MsgRow, ObjRow
  <2> HIDE DEF k
  <2>2. r \in MsgRow /\ r.media = k /\ r.content = Nothing /\ r.status = "pending"
      BY <1>1, <1>4, ConstantRows DEF MsgRow, MessageStatus
  <2>3. n \in ObjRow /\ n.status = "pending" /\ n.file = 0
      BY <1>1 DEF ObjRow, ObjectStatus, ObjectStage
  <2> HIDE DEF r, n
  <2>4. MsgTo(m, r) /\ ObjTo(m, n) /\ obj[m].status # "absent"
      BY <1>1, <1>6, <2>1, <2>2, <2>3, MsgSet, ObjSet DEF Rows
  <2> QED BY <1>2, <1>3, <2>2, <2>3, <2>4 DEF k
<1> QED BY <1>5, <1>6

LEMMA PrepareEffect ==
  ASSUME MediaTypes, NEW m \in Messages, Prepare(m)
  PROVE  /\ LeftFalls
         /\ \E r, n :
              /\ MsgTo(m, r) /\ ObjTo(m, n) /\ SameMedia(msg[m], r)
              /\ n.file = obj[m].file /\ n.stage = obj[m].stage /\ n.status # "absent"
              /\ \/ /\ msg[m].status \notin {"pending", "queued", "processing"} /\ r.status = "pending"
                    /\ BagToSet(queue') = BagToSet(queue) \cup {FirstTask(m, "fetch")}
                 \/ /\ r = msg[m] /\ queue' = queue
                    /\ n.status = obj[m].status
                         \/ obj[m].status \in {"absent", "ready_download_only", "retry_wait"}
         /\ UNCHANGED <<selected, run>>
<1>1. Rows /\ msg[m] \in MsgRow /\ obj[m] \in ObjRow /\ left \in [Events \cup {"all"} -> Nat]
      /\ "prepare" \in Events
    BY DEF MediaTypes, Rows, Events
<1> DEFINE asks == msg[m].type = "video"
           row == IF obj[m] = NoObject THEN [NoObject EXCEPT !.status = "pending"] ELSE obj[m]
           reopens == /\ asks /\ msg[m].content.how # "speech"
                      /\ row.status \in {"ready_download_only", "retry_wait"}
           wants == row.wanted \/ asks
           s == IF reopens THEN "pending" ELSE row.status
           o == [row EXCEPT !.wanted = wants, !.status = s]
           needed == /\ o.status \notin {"ready", "ready_download_only", "fetching",
                                         "extracting", "indexing", "retry_wait"}
                     /\ msg[m].status \notin {"pending", "queued", "processing"}
<1>2. /\ Spend("prepare") /\ UNCHANGED <<selected, run>>
      /\ IF needed
         THEN /\ msg' = [msg EXCEPT ![m].status = "pending"]
              /\ obj' = [obj EXCEPT ![m] = [o EXCEPT !.status = "pending"]]
              /\ Send(FirstTask(m, "fetch"))
         ELSE obj' = [obj EXCEPT ![m] = o] /\ UNCHANGED <<msg, queue>>
    BY DEF Prepare
<1>3. LeftFalls
    BY <1>1, <1>2, Spending
<1>4. /\ row \in ObjRow /\ row.status # "absent" /\ row.file = obj[m].file /\ row.stage = obj[m].stage
      /\ row.status = obj[m].status \/ obj[m].status = "absent"
  <2>1. LET e == [NoObject EXCEPT !.status = "pending"] IN
        e \in ObjRow /\ e.status = "pending" /\ e.file = NoObject.file /\ e.stage = NoObject.stage
      BY ConstantRows DEF ObjRow, ObjectStatus
  <2>2. obj[m] # NoObject => obj[m].status # "absent"
      BY <1>1 DEF Rows
  <2> QED BY <1>1, <2>1, <2>2, ConstantRows
<1>5. s \in ObjectStatus /\ s # "absent" /\ wants \in BOOLEAN
      /\ (s = obj[m].status \/ obj[m].status \in {"absent", "ready_download_only", "retry_wait"})
  <2>1. row.status \in ObjectStatus /\ "pending" \in ObjectStatus
      BY <1>4 DEF ObjRow, ObjectStatus
  <2>2. wants \in BOOLEAN
      OBVIOUS
  <2> QED BY <1>4, <2>1, <2>2
<1> HIDE DEF s, wants, row, asks, reopens
<1>6. o \in ObjRow /\ o.status = s /\ o.file = row.file /\ o.stage = row.stage
    BY <1>4, <1>5 DEF ObjRow
<1> HIDE DEF o
<1>7. CASE needed
  <2> DEFINE r == [msg[m] EXCEPT !.status = "pending"]
             n == [o EXCEPT !.status = "pending"]
  <2>1. r \in MsgRow /\ r.status = "pending" /\ SameMedia(msg[m], r)
      BY <1>1 DEF MsgRow, SameMedia, MessageStatus
  <2>2. n \in ObjRow /\ n.status = "pending" /\ n.file = o.file /\ n.stage = o.stage
      BY <1>6 DEF ObjRow, ObjectStatus
  <2>3. msg' = [msg EXCEPT ![m] = r] /\ obj' = [obj EXCEPT ![m] = n] /\ Send(FirstTask(m, "fetch"))
      BY <1>1, <1>2, <1>7 DEF Rows, MsgRow
  <2> HIDE DEF r, n
  <2>4. MsgTo(m, r) /\ ObjTo(m, n)
      BY <1>1, <2>1, <2>2, <2>3, MsgSet, ObjSet
  <2>5. BagToSet(queue') = BagToSet(queue) \cup {FirstTask(m, "fetch")}
      BY <2>3, SendBag DEF Send
  <2>6. n.status # "absent" /\ n.file = obj[m].file /\ n.stage = obj[m].stage
      BY <1>4, <1>6, <2>2
  <2> QED BY <1>2, <1>3, <1>7, <2>1, <2>4, <2>5, <2>6
<1>8. CASE ~needed
  <2>1. obj' = [obj EXCEPT ![m] = o] /\ UNCHANGED <<msg, queue>>
      BY <1>2, <1>8
  <2>2. MsgTo(m, msg[m]) /\ ObjTo(m, o) /\ SameMedia(msg[m], msg[m])
      BY <1>1, <1>5, <1>6, <2>1, MsgIs, ObjSet DEF SameMedia
  <2>3. o.status # "absent" /\ o.file = obj[m].file /\ o.stage = obj[m].stage
      BY <1>4, <1>5, <1>6
  <2> QED BY <1>2, <1>3, <1>5, <1>6, <2>1, <2>2, <2>3
<1> QED BY <1>7, <1>8

LEMMA PruneEffect ==
  ASSUME MediaTypes, NEW m \in Messages, Prune(m)
  PROVE  /\ LeftFalls /\ left["prune"] \in Nat /\ left'["prune"] < left["prune"]
         /\ ObjTo(m, NoObject) /\ UNCHANGED <<msg, selected, queue, run>>
<1>1. left \in [Events \cup {"all"} -> Nat] /\ "prune" \in Events /\ Rows
    BY DEF MediaTypes, Events
<1>2. Spend("prune") /\ obj' = [obj EXCEPT ![m] = NoObject] /\ UNCHANGED <<msg, selected, queue, run>>
    BY DEF Prune
<1>3. ObjTo(m, NoObject)
    BY <1>1, <1>2, ObjSet, ConstantRows
<1>4. LeftFalls /\ left["prune"] \in Nat /\ left'["prune"] < left["prune"]
    BY <1>1, <1>2, Spending
<1> QED BY <1>2, <1>3, <1>4

LEMMA SelectEffect ==
  ASSUME MediaTypes, Select
  PROVE  /\ LeftFalls /\ left["select"] \in Nat /\ left'["select"] < left["select"]
         /\ selected' \in BOOLEAN /\ UNCHANGED <<msg, obj, queue, run>>
<1>1. left \in [Events \cup {"all"} -> Nat] /\ "select" \in Events
    BY DEF MediaTypes, Events
<1> QED BY <1>1, Spending DEF Select

\* The beat: what is stale is given back, what is pending is sent.
Dispatches(m) ==
  /\ msg'[m] \in MsgRow /\ SameMedia(msg[m], msg'[m])
  /\ \/ msg'[m].status = msg[m].status /\ msg'[m].started = msg[m].started
     \/ msg'[m].status \in {"pending", "queued"} /\ (Stale(m) \/ msg[m].status = "pending")
  /\ obj'[m] \in ObjRow /\ obj'[m].file = obj[m].file /\ obj'[m].stage = obj[m].stage
  /\ \/ obj'[m] = obj[m]
     \/ Stale(m) /\ obj[m].status # "absent" /\ obj'[m].status = "cached"

LEMMA DispatchEffect ==
  ASSUME MediaTypes, NEW picked \in SUBSET Messages, NEW sent \in SUBSET picked,
         NEW lost \in SUBSET picked, Dispatch(picked, sent, lost)
  PROVE  /\ Rows' /\ LeftFalls /\ \A m \in Messages : Dispatches(m)
         /\ BagToSet(queue') = BagToSet(queue) \cup {FirstTask(m, "fetch") : m \in sent}
         /\ UNCHANGED <<selected, run>>
<1>1. Rows /\ left \in [Events \cup {"all"} -> Nat] /\ "broker" \in Events /\ "crash" \in Events
    BY DEF MediaTypes, Events
<1>2. LeftFalls
    BY <1>1, Spending, NothingSpent DEF Dispatch
<1>3. BagToSet(queue') = BagToSet(queue) \cup {FirstTask(m, "fetch") : m \in sent}
    BY SendBag DEF Dispatch
<1>4. UNCHANGED <<selected, run>> /\ sent \cup lost \subseteq Dispatchable
    BY DEF Dispatch
<1> DEFINE row(m) == IF m \in sent \cup lost
                     THEN [Reaped[m] EXCEPT !.status = "queued", !.started = "recent"] ELSE Reaped[m]
<1>5. msg' = [m \in Messages |-> row(m)] /\ obj' = ReapedObjects
    BY DEF Dispatch
<1>6. ASSUME NEW m \in Messages
      PROVE  /\ row(m) \in MsgRow /\ SameMedia(msg[m], row(m))
             /\ \/ row(m).status = msg[m].status /\ row(m).started = msg[m].started
                \/ row(m).status \in {"pending", "queued"} /\ (Stale(m) \/ msg[m].status = "pending")
  <2>1. msg[m] \in MsgRow
      BY <1>1 DEF Rows
  <2>2. /\ Reaped[m] \in MsgRow /\ SameMedia(msg[m], Reaped[m])
        /\ \/ Reaped[m] = msg[m]
           \/ Reaped[m].status = "pending" /\ Stale(m)
    <3>1. LET e == [msg[m] EXCEPT !.status = "pending", !.started = "none"] IN
          e \in MsgRow /\ SameMedia(msg[m], e) /\ e.status = "pending"
        BY <2>1 DEF MsgRow, SameMedia, MessageStatus
    <3> QED BY <2>1, <3>1 DEF Reaped, SameMedia
  <2>3. m \in sent \cup lost => Reaped[m].status = "pending"
      BY <1>4 DEF Dispatchable
  <2>4. LET e == [Reaped[m] EXCEPT !.status = "queued", !.started = "recent"] IN
        e \in MsgRow /\ SameMedia(msg[m], e) /\ e.status = "queued"
      BY <2>2 DEF MsgRow, SameMedia, MessageStatus
  <2> QED BY <2>1, <2>2, <2>3, <2>4
<1>7. ASSUME NEW m \in Messages
      PROVE  /\ obj'[m] \in ObjRow /\ obj'[m].file = obj[m].file /\ obj'[m].stage = obj[m].stage
             /\ \/ obj'[m] = obj[m]
                \/ Stale(m) /\ obj[m].status # "absent" /\ obj'[m].status = "cached"
  <2>1. obj[m] \in ObjRow /\ "cached" \in ObjectStatus
      BY <1>1 DEF Rows, ObjectStatus
  <2> QED BY <1>5, <2>1, ObjectStatusSet DEF ReapedObjects
<1> HIDE DEF row
<1>8. \A m \in Messages : Dispatches(m)
    BY <1>5, <1>6, <1>7 DEF Dispatches
<1>9. Rows'
  <2>1. msg' \in [Messages -> MsgRow] /\ obj' \in [Messages -> ObjRow]
      BY <1>5, <1>6, <1>7 DEF ReapedObjects
  <2>2. \A m \in Messages : obj'[m].status = "absent" => obj'[m] = NoObject
      BY <1>1, <1>7 DEF Rows
  <2> QED BY <2>1, <2>2 DEF Rows
<1> QED BY <1>2, <1>3, <1>4, <1>8, <1>9

-----------------------------------------------------------------------------
(* The types.                                                                  *)

LEMMA RunsBegin ==
  ASSUME MediaTypes, NEW w \in Workers, NEW t, NEW step, NEW got, NEW how,
         Begins(w, t, step, got, how), t.stage = Pool[w],
         step \in {"extracting", "extracted"} => Pool[w] = "process",
         step = "indexing" <=> Pool[w] = "index"
  PROVE  Runs'
    BY DEF MediaTypes, Runs, Begins, OthersRun

LEMMA RunsGoOn ==
  ASSUME MediaTypes, NEW w \in Workers, run[w] # Idle, NEW step, NEW got, GoesOn(w, step, got),
         step \in {"extracting", "extracted"} => Pool[w] = "process",
         step # "indexing", Pool[w] # "index"
  PROVE  Runs'
    BY DEF MediaTypes, Runs, GoesOn, OthersRun

LEMMA RunsStop == ASSUME MediaTypes, NEW w \in Workers, Stops(w) PROVE Runs'
    BY DEF MediaTypes, Runs, Stops, OthersRun

LEMMA RowsAre ==
  ASSUME NEW m, NEW r, NEW o, MsgTo(m, r), ObjTo(m, o) PROVE Rows'
    BY DEF MsgTo, ObjTo, Rows

LEMMA RowsOf ==
  ASSUME Rows, NEW m
  PROVE  /\ msg' = msg /\ obj' = obj => Rows'
         /\ \A r : MsgTo(m, r) /\ obj' = obj => Rows'
         /\ \A o : ObjTo(m, o) /\ msg' = msg => Rows'
    BY DEF MsgTo, ObjTo, Rows

MediaStays == \A m \in Messages : msg'[m].media = msg[m].media

LEMMA MediaOf ==
  ASSUME NEW m \in Messages, NEW r, MsgTo(m, r), r.media = msg[m].media PROVE MediaStays
    BY DEF MsgTo, MediaStays

LEMMA BoundKept ==
  ASSUME MediaTypes, Rows', LeftFalls, MediaStays PROVE MediaBounded'
<1> SUFFICES ASSUME NEW m \in Messages PROVE msg'[m].media + left'["edit"] <= Budget["edit"] + 1
    BY DEF MediaBounded
<1>1. msg[m].media \in Nat /\ msg'[m].media = msg[m].media
      /\ msg[m].media + left["edit"] <= Budget["edit"] + 1
    BY MediaAre DEF MediaTypes, Rows, MsgRow, MediaStays, MediaBounded
<1>2. left["edit"] \in Nat /\ left'["edit"] \in Nat /\ left'["edit"] <= left["edit"] /\ Budget["edit"] \in Nat
    BY BudgetIsNat DEF LeftFalls, MediaTypes, Events
<1> QED BY <1>1, <1>2

LEMMA LeftStaysBounded ==
  ASSUME MediaTypes, LeftFalls
  PROVE  left' \in [Events \cup {"all"} -> Nat] /\ \A e \in Events : left'[e] <= Budget[e]
<1> SUFFICES ASSUME NEW e \in Events PROVE left'[e] <= Budget[e]
    BY DEF LeftFalls
<1>1. left'[e] \in Nat /\ left[e] \in Nat /\ Budget[e] \in Nat /\ left'[e] <= left[e] /\ left[e] <= Budget[e]
    BY BudgetIsNat DEF LeftFalls, MediaTypes
<1> QED BY <1>1

LEMMA TypesFrom ==
  ASSUME MediaTypes, Rows', Runs', LeftFalls, MediaStays \/ MediaBounded', selected' \in BOOLEAN,
         BagToSet(queue') \subseteq Task
  PROVE  MediaTypes'
    BY BoundKept, LeftStaysBounded DEF MediaTypes

LEMMA TypesInit == ASSUME Init PROVE MediaTypes
<1>1. left = Budget /\ left \in [Events \cup {"all"} -> Nat]
    BY MediaAssumption DEF Init, MediaAssumption
<1>2. \A e \in Events : left[e] \in Nat /\ left[e] <= Budget[e]
    BY <1>1, BudgetIsNat
<1>3. Rows
    BY ConstantRows, MediaAre DEF Init, Rows, MsgRow, MessageStatus
<1>4. Runs
    BY DEF Init, Runs
<1>5. MediaBounded
  <2>1. \A m \in Messages : msg[m].media = 1
      BY DEF Init
  <2>2. left["edit"] = Budget["edit"] /\ Budget["edit"] \in Nat
      BY <1>1, BudgetIsNat DEF Events
  <2> QED BY <2>1, <2>2 DEF MediaBounded
<1>6. BagToSet(queue) \subseteq Task /\ selected \in BOOLEAN
    BY DEF Init, EmptyBag, SetToBag, BagToSet
<1> QED BY <1>1, <1>2, <1>3, <1>4, <1>5, <1>6 DEF MediaTypes

LEMMA SpentNothing == ASSUME MediaTypes, left' = left PROVE LeftFalls
    BY NothingSpent DEF MediaTypes

LEMMA TypesTake ==
  ASSUME MediaTypes, NEW w \in Workers, NEW t,
         TakeFetch(w, t) \/ TakeProcess(w, t) \/ TakeIndex(w, t)
  PROVE  MediaTypes'
<1>1. CASE TakeFetch(w, t)
  <2>1. /\ Takes(w, t) /\ Pool[w] = "fetch" /\ UNCHANGED <<msg, obj>>
        /\ run' = run \/ Begins(w, t, "need_file", Nothing, "none")
      BY <1>1, TakeFetchEffect
  <2>2. Runs'
      BY <2>1, RunsBegin DEF Takes, MediaTypes, Runs
  <2> QED BY <2>1, <2>2, RowsOf, SpentNothing, TypesFrom DEF Takes, MediaTypes, MediaStays
<1>2. CASE TakeProcess(w, t)
  <2>1. /\ Takes(w, t) /\ Pool[w] = "process"
        /\ \/ Begins(w, t, "hand_over", Nothing, "none") /\ UNCHANGED <<msg, obj>>
           \/ Claims(w, t) \/ (run' = run /\ Drops(t))
      BY <1>2, TakeProcessEffect
  <2>2. Rows' /\ MediaStays
    <3>1. (\E r, n : MsgTo(t.msg, r) /\ ObjTo(t.msg, n) /\ SameMedia(msg[t.msg], r)) \/ UNCHANGED <<msg, obj>>
        BY <2>1 DEF Claims, Drops
    <3> QED BY <2>1, <3>1, RowsAre, RowsOf, MediaOf DEF SameMedia, MediaStays, MediaTypes, Takes
  <2>3. Runs'
      BY <2>1, RunsBegin DEF Takes, Claims, MediaTypes, Runs
  <2> QED BY <2>1, <2>2, <2>3, SpentNothing, TypesFrom DEF Takes, MediaTypes
<1>3. CASE TakeIndex(w, t)
  <2>1. /\ Takes(w, t) /\ Pool[w] = "index"
        /\ Indexing(w, t) \/ (run' = run /\ Drops(t))
      BY <1>3, TakeIndexEffect
  <2>2. Rows' /\ MediaStays
    <3>1. \E r, n : MsgTo(t.msg, r) /\ ObjTo(t.msg, n) /\ SameMedia(msg[t.msg], r)
        BY <2>1 DEF Indexing, Drops
    <3> QED BY <2>1, <3>1, RowsAre, MediaOf DEF SameMedia, Takes
  <2>3. Runs'
      BY <2>1, RunsBegin DEF Takes, Indexing, MediaTypes, Runs
  <2> QED BY <2>1, <2>2, <2>3, SpentNothing, TypesFrom DEF Takes, MediaTypes
<1> QED BY <1>1, <1>2, <1>3

LEMMA RunsHaving ==
  ASSUME MediaTypes, NEW w \in Workers, run[w] # Idle, NEW file, HasFile(w, file)
  PROVE  Runs'
    BY RunsGoOn DEF HasFile

LEMMA TypesFile ==
  ASSUME MediaTypes, NEW w \in Workers, Hit(w) \/ Download(w) \/ Downloaded(w) \/ Extract(w)
  PROVE  MediaTypes'
<1>1. PICK m : m = run[w].task.msg
    OBVIOUS
<1>2. CASE Hit(w)
  <2>1. /\ m \in Messages /\ run[w] # Idle /\ HasFile(w, obj[m].file)
        /\ UNCHANGED <<msg, obj, selected, queue, left>>
      BY <1>1, <1>2, HitEffect
  <2>2. Runs'
      BY <2>1, RunsHaving
  <2> QED BY <2>1, <2>2, RowsOf, SpentNothing, TypesFrom DEF MediaTypes, MediaStays
<1>3. CASE Download(w)
  <2>1. /\ m \in Messages /\ run[w] # Idle /\ run[w].at = "need_file" /\ \E n : ObjTo(m, n)
        /\ GoesOn(w, "downloading", [of |-> msg[m].media, how |-> run[w].how])
        /\ UNCHANGED <<msg, selected, queue, left>>
      BY <1>1, <1>3, DownloadEffect
  <2>2. Pool[w] # "index"
      BY <2>1, WorkerTypes
  <2>3. Runs'
      BY <2>1, <2>2, RunsGoOn
  <2> QED BY <2>1, <2>3, RowsOf, SpentNothing, TypesFrom DEF MediaTypes, MediaStays
<1>4. CASE Downloaded(w)
  <2>1. /\ m \in Messages /\ run[w] # Idle /\ (\E n : ObjTo(m, n)) /\ HasFile(w, msg[m].media)
        /\ UNCHANGED <<msg, selected, queue, left>>
      BY <1>1, <1>4, DownloadedEffect
  <2>2. Runs'
      BY <2>1, RunsHaving
  <2> QED BY <2>1, <2>2, RowsOf, SpentNothing, TypesFrom DEF MediaTypes, MediaStays
<1>5. CASE Extract(w)
  <2>1. /\ m \in Messages /\ run[w] # Idle /\ run[w].at = "extracting" /\ \E n : ObjTo(m, n)
        /\ GoesOn(w, "extracted", run[w].got)
        /\ UNCHANGED <<msg, selected, queue, left>>
      BY <1>1, <1>5, ExtractEffect
  <2>2. Pool[w] = "process"
      BY <2>1, WorkerTypes
  <2>3. Runs'
      BY <2>1, <2>2, RunsGoOn
  <2> QED BY <2>1, <2>3, RowsOf, SpentNothing, TypesFrom DEF MediaTypes, MediaStays
<1> QED BY <1>2, <1>3, <1>4, <1>5

LEMMA TypesEnd ==
  ASSUME MediaTypes, NEW w \in Workers, Checkpoint(w) \/ HandOver(w) \/ Finalize(w)
  PROVE  MediaTypes'
<1>1. PICK m : m = run[w].task.msg
    OBVIOUS
<1>2. CASE Checkpoint(w)
  <2>1. /\ m \in Messages /\ run[w] # Idle /\ run[w].at = "extracted"
        /\ (\E r : MsgTo(m, r) /\ r.media = msg[m].media) /\ (\E n : ObjTo(m, n))
        /\ GoesOn(w, "hand_over", Nothing) /\ UNCHANGED <<selected, queue, left>>
      BY <1>1, <1>2, CheckpointEffect
  <2>2. Pool[w] = "process"
      BY <2>1, WorkerTypes
  <2>3. Runs' /\ Rows' /\ MediaStays
      BY <2>1, <2>2, RunsGoOn, RowsAre, MediaOf
  <2> QED BY <2>1, <2>3, SpentNothing, TypesFrom DEF MediaTypes
<1>3. CASE HandOver(w)
  <2>1. /\ run[w] # Idle /\ Stops(w) /\ BagToSet(queue') = BagToSet(queue) \cup {NextTask(w)}
        /\ UNCHANGED <<msg, obj, selected, left>> /\ NextTask(w) \in Task
      BY <1>3, HandOverEffect, NextTaskIs
  <2> QED BY <2>1, RunsStop, RowsOf, SpentNothing, TypesFrom DEF MediaTypes, MediaStays
<1>4. CASE Finalize(w)
  <2>1. /\ m \in Messages /\ Stops(w)
        /\ (\E r : MsgTo(m, r) /\ r.media = msg[m].media) /\ (\E n : ObjTo(m, n))
        /\ UNCHANGED <<selected, queue, left>>
      BY <1>1, <1>4, FinalizeEffect
  <2>2. Runs' /\ Rows' /\ MediaStays
      BY <2>1, RunsStop, RowsAre, MediaOf
  <2> QED BY <2>1, <2>2, SpentNothing, TypesFrom DEF MediaTypes
<1> QED BY <1>2, <1>3, <1>4

LEMMA TypesFails ==
  ASSUME MediaTypes, NEW w \in Workers, Fails(w), LeftFalls PROVE MediaTypes'
<1>1. run[w].task.msg \in Messages
    BY WorkerTypes DEF Fails
<1>2. Rows' /\ MediaStays
  <2>1. \E r, o : MsgTo(run[w].task.msg, r) /\ ObjTo(run[w].task.msg, o) /\ SameMedia(msg[run[w].task.msg], r)
      BY DEF Fails, Marks
  <2> QED BY <1>1, <2>1, RowsAre, MediaOf DEF SameMedia
<1>3. Runs'
    BY RunsStop DEF Fails
<1>4. BagToSet(queue') \subseteq Task
    BY DEF Fails, Resent, MediaTypes
<1> QED BY <1>2, <1>3, <1>4, TypesFrom DEF Fails, MediaTypes

LEMMA TypesCrash ==
  ASSUME MediaTypes, (\E w \in Workers : Crash(w)) \/ \E t : Return(t)
  PROVE  MediaTypes'
<1>1. ASSUME NEW w \in Workers, Crash(w) PROVE MediaTypes'
    BY <1>1, CrashEffect, RunsStop, RowsOf, TypesFrom DEF MediaTypes, MediaStays
<1>2. ASSUME NEW t, Return(t) PROVE MediaTypes'
  <2>1. /\ LeftFalls /\ BagToSet(queue') \subseteq Task /\ UNCHANGED <<msg, obj, selected, run>>
      BY <1>2, ReturnEffect
  <2>2. Runs'
      BY <2>1 DEF MediaTypes, Runs
  <2> QED BY <2>1, <2>2, RowsOf, TypesFrom DEF MediaTypes, MediaStays
<1> QED BY <1>1, <1>2

LEMMA TypesMessage ==
  ASSUME MediaTypes, NEW m \in Messages,
         Age(m) \/ Prepare(m) \/ Prune(m) \/ \E type \in Types : Edit(m, type)
  PROVE  MediaTypes'
<1>1. CASE Age(m)
  <2>1. /\ \E r : MsgTo(m, r) /\ SameMedia(msg[m], r)
        /\ LeftFalls /\ UNCHANGED <<obj, selected, queue, run>>
      BY <1>1, AgeEffect
  <2>2. Runs' /\ Rows' /\ MediaStays
      BY <2>1, RowsOf, MediaOf DEF SameMedia, MediaTypes, Runs
  <2> QED BY <2>1, <2>2, TypesFrom DEF MediaTypes
<1>2. CASE Prepare(m)
  <2>1. /\ \E r, n : MsgTo(m, r) /\ ObjTo(m, n) /\ SameMedia(msg[m], r)
        /\ LeftFalls /\ UNCHANGED <<selected, run>>
        /\ queue' = queue \/ BagToSet(queue') = BagToSet(queue) \cup {FirstTask(m, "fetch")}
      BY <1>2, PrepareEffect
  <2>2. Runs' /\ Rows' /\ MediaStays
      BY <2>1, RowsAre, MediaOf DEF SameMedia, MediaTypes, Runs
  <2>3. FirstTask(m, "fetch") \in Task
      BY FirstTaskIs DEF Stages
  <2> QED BY <2>1, <2>2, <2>3, TypesFrom DEF MediaTypes
<1>3. CASE Prune(m)
  <2>1. LeftFalls /\ ObjTo(m, NoObject) /\ UNCHANGED <<msg, selected, queue, run>>
      BY <1>3, PruneEffect
  <2>2. Runs' /\ Rows' /\ MediaStays
      BY <2>1, RowsOf DEF MediaStays, MediaTypes, Runs
  <2> QED BY <2>1, <2>2, TypesFrom DEF MediaTypes
<1>4. ASSUME NEW type \in Types, Edit(m, type) PROVE MediaTypes'
  <2>1. /\ LeftFalls /\ left["edit"] \in Nat /\ left'["edit"] = left["edit"] - 1
        /\ \E r, n : MsgTo(m, r) /\ ObjTo(m, n) /\ r.media = msg[m].media + 1
        /\ UNCHANGED <<selected, queue, run>>
      BY <1>4, EditEffect
  <2>2. Runs' /\ Rows'
      BY <2>1, RowsAre DEF MediaTypes, Runs
  <2>3. MediaBounded'
    <3> SUFFICES ASSUME NEW d \in Messages
                 PROVE  msg'[d].media + left'["edit"] <= Budget["edit"] + 1
        BY DEF MediaBounded
    <3>1. msg'[d].media = msg[d].media \/ msg'[d].media = msg[d].media + 1
        BY <2>1 DEF MsgTo
    <3>2. msg[d].media \in Nat /\ msg[d].media + left["edit"] <= Budget["edit"] + 1 /\ Budget["edit"] \in Nat
        BY MediaAre, BudgetIsNat DEF MediaTypes, Rows, MsgRow, MediaBounded, Events
    <3> QED BY <2>1, <3>1, <3>2
  <2> QED BY <2>1, <2>2, <2>3, TypesFrom DEF MediaTypes
<1> QED BY <1>1, <1>2, <1>3, <1>4

LEMMA TypesBeat == ASSUME MediaTypes, Beat PROVE MediaTypes'
<1>1. PICK picked \in SUBSET Messages : \E sent, lost \in SUBSET picked : Dispatch(picked, sent, lost)
    BY DEF Beat
<1>2. PICK sent \in SUBSET picked, lost \in SUBSET picked : Dispatch(picked, sent, lost)
    BY <1>1
<1>3. /\ Rows' /\ LeftFalls /\ \A m \in Messages : Dispatches(m)
      /\ BagToSet(queue') = BagToSet(queue) \cup {FirstTask(m, "fetch") : m \in sent}
      /\ UNCHANGED <<selected, run>>
    BY <1>2, DispatchEffect
<1>4. BagToSet(queue') \subseteq Task
  <2>1. \A m \in sent : FirstTask(m, "fetch") \in Task
      BY FirstTaskIs DEF Stages
  <2> QED BY <1>3, <2>1 DEF MediaTypes
<1>5. Runs' /\ MediaStays
    BY <1>3 DEF MediaTypes, Runs, Dispatches, SameMedia, MediaStays
<1> QED BY <1>3, <1>4, <1>5, TypesFrom DEF MediaTypes

LEMMA TypesNext == ASSUME MediaTypes, [Next]_vars PROVE MediaTypes'
<1>1. CASE Beat
    BY <1>1, TypesBeat
<1>2. ASSUME NEW w \in Workers, Work(w) PROVE MediaTypes'
  <2>1. ASSUME NEW error, Raise(w, error) PROVE MediaTypes'
      BY <2>1, RaiseEffect, TypesFails
  <2> QED BY <1>2, <2>1, TypesTake, TypesFile, TypesEnd DEF Work
<1>3. CASE Environment
  <2>1. ASSUME NEW w \in Workers, BrokerFails(w) PROVE MediaTypes'
      BY <2>1, BrokerEffect, TypesFails
  <2>2. CASE Select
    <3>1. LeftFalls /\ selected' \in BOOLEAN /\ UNCHANGED <<msg, obj, queue, run>>
        BY <2>2, SelectEffect
    <3>2. Runs' /\ Rows' /\ MediaStays
        BY <3>1, RowsOf DEF MediaTypes, Runs, MediaStays
    <3> QED BY <3>1, <3>2, TypesFrom DEF MediaTypes
  <2> QED BY <1>3, <2>1, <2>2, TypesCrash, TypesMessage DEF Environment
<1>4. CASE UNCHANGED vars
    BY <1>4 DEF vars, MediaTypes, Rows, Runs, MediaBounded
<1> QED BY <1>1, <1>2, <1>3, <1>4 DEF Next

LEMMA TypesAlways == Spec => []MediaTypes
    BY TypesInit, TypesNext, PTL DEF Spec

LEMMA TypesGiveTypeOK == ASSUME MediaTypes PROVE TypeOK
    BY DEF MediaTypes, TypeOK, Rows, Runs, MsgRow, ObjRow, Job

\* The columns, tasks and workers of the pipeline hold what the code can write, for any
\* messages and workers: no queue sends a fourth retry, and a worker has a task of its queue.
THEOREM MediaTypesAlways == Spec => []TypeOK
    BY TypesAlways, TypesGiveTypeOK, PTL

-----------------------------------------------------------------------------
(* What is stored for a deselected chat.                                       *)

StoredSame(m) == msg'[m].content = msg[m].content /\ msg'[m].chunks = msg[m].chunks

LEMMA StoredSameTo ==
  ASSUME NEW m \in Messages, NEW r, MsgTo(m, r), SameMedia(msg[m], r) PROVE \A d \in Messages : StoredSame(d)
    BY DEF MsgTo, SameMedia, StoredSame

LEMMA StoresWhenSelected ==
  ASSUME MediaTypes, [Next]_vars, ~selected PROVE \A d \in Messages : StoredSame(d)
<1>1. CASE Beat
  <2>1. PICK picked \in SUBSET Messages : \E sent, lost \in SUBSET picked : Dispatch(picked, sent, lost)
      BY <1>1 DEF Beat
  <2>2. PICK sent \in SUBSET picked, lost \in SUBSET picked : Dispatch(picked, sent, lost)
      BY <2>1
  <2>3. \A m \in Messages : Dispatches(m)
      BY <2>2, DispatchEffect
  <2> QED BY <2>3 DEF Dispatches, SameMedia, StoredSame
<1>2. ASSUME NEW w \in Workers, Work(w) PROVE \A d \in Messages : StoredSame(d)
  <2>1. ASSUME NEW t, TakeFetch(w, t) PROVE \A d \in Messages : StoredSame(d)
      BY <2>1 DEF TakeFetch, StoredSame
  <2>2. ASSUME NEW t, TakeProcess(w, t) PROVE \A d \in Messages : StoredSame(d)
    <3>1. /\ t.msg \in Messages
          /\ msg' = msg \/ \E r : MsgTo(t.msg, r) /\ SameMedia(msg[t.msg], r)
        BY <2>2, TakeProcessEffect DEF Takes, Claims, Drops
    <3> QED BY <3>1, StoredSameTo DEF StoredSame
  <2>3. ASSUME NEW t, TakeIndex(w, t) PROVE \A d \in Messages : StoredSame(d)
    <3>1. t.msg \in Messages /\ \E r : MsgTo(t.msg, r) /\ SameMedia(msg[t.msg], r)
        BY <2>3, TakeIndexEffect DEF Takes, Indexing, Drops
    <3> QED BY <3>1, StoredSameTo
  <2>4. CASE Hit(w) \/ Download(w) \/ Downloaded(w) \/ Extract(w) \/ HandOver(w)
      BY <2>4 DEF Hit, Download, Downloaded, Extract, HandOver, StoredSame
  <2>5. CASE Checkpoint(w) \/ Finalize(w)
      BY <2>5 DEF Checkpoint, Finalize, Claimed
  <2>6. ASSUME NEW error, Raise(w, error) PROVE \A d \in Messages : StoredSame(d)
    <3>1. Fails(w) /\ run[w].task.msg \in Messages
        BY <2>6, RaiseEffect, WorkerTypes DEF Fails
    <3> QED BY <3>1, StoredSameTo DEF Fails, Marks
  <2> QED BY <1>2, <2>1, <2>2, <2>3, <2>4, <2>5, <2>6 DEF Work
<1>3. CASE Environment
  <2>1. ASSUME NEW w \in Workers, BrokerFails(w) PROVE \A d \in Messages : StoredSame(d)
    <3>1. Fails(w) /\ run[w].task.msg \in Messages
        BY <2>1, BrokerEffect, WorkerTypes DEF Fails
    <3> QED BY <3>1, StoredSameTo DEF Fails, Marks
  <2>2. ASSUME NEW m \in Messages, Age(m) \/ Prepare(m) PROVE \A d \in Messages : StoredSame(d)
    <3>1. \E r : MsgTo(m, r) /\ SameMedia(msg[m], r)
        BY <2>2, AgeEffect, PrepareEffect
    <3> QED BY <3>1, StoredSameTo
  <2>3. ASSUME NEW w \in Workers, Crash(w) PROVE msg' = msg
      BY <2>3 DEF Crash
  <2>4. ASSUME NEW m \in Messages, NEW type \in Types, Edit(m, type) PROVE FALSE
      BY <2>4 DEF Edit
  <2>5. ASSUME NEW t, Return(t) PROVE msg' = msg
      BY <2>5 DEF Return
  <2>6. ASSUME NEW m, Prune(m) PROVE msg' = msg
      BY <2>6 DEF Prune
  <2>7. CASE Select
      BY <2>7 DEF Select, StoredSame
  <2> QED BY <1>3, <2>1, <2>2, <2>3, <2>4, <2>5, <2>6, <2>7 DEF Environment, StoredSame
<1>4. CASE UNCHANGED vars
    BY <1>4 DEF vars, StoredSame
<1> QED BY <1>1, <1>2, <1>3, <1>4 DEF Next

\* Work that began before its chat was deselected stores nothing afterwards, whatever else
\* happens: every write of a text or of its index looks at the chat again.
THEOREM DeselectedStoresNothing == Spec => DeselectedIsUntouched
<1>1. MediaTypes /\ [Next]_vars =>
        [\A m \in Messages : ~selected =>
           msg'[m].content = msg[m].content /\ msg'[m].chunks = msg[m].chunks]_vars
    BY StoresWhenSelected DEF StoredSame
<1> QED BY <1>1, TypesAlways, PTL DEF Spec, DeselectedIsUntouched

-----------------------------------------------------------------------------
(* What a READY message is found by.  Without edits while a stage works on the *)
(* message, and without a prune, whatever is stored or carried comes from the  *)
(* media of now: a media_objects row is there from the first download on, so   *)
(* that the next edit clears file, text and index.                             *)

FreshRow(m) ==
  /\ obj[m].status = "absent" => msg[m].content = Nothing /\ msg[m].status # "ready"
  /\ obj[m].file \in {0, msg[m].media}
  /\ msg[m].content = Nothing \/ msg[m].content.of = msg[m].media
  /\ msg[m].status = "ready" => msg[m].content.of = msg[m].media /\ msg[m].chunks = msg[m].media

FreshWorker(w) == run[w] # Idle =>
  LET m == run[w].task.msg IN
  /\ run[w].at # "need_file" => obj[m].status # "absent"
  /\ run[w].at \in {"extracting", "extracted"} => run[w].got.of = msg[m].media
  /\ run[w].at = "indexing" => run[w].got.of \in {0, msg[m].media}

FreshParts == (\A m \in Messages : FreshRow(m)) /\ \A w \in Workers : FreshWorker(w)
FreshInv == Unused({"prune"}) => FreshParts

\* A step about the message m.
About(m) == \A w \in Workers : \/ run'[w] = run[w] \/ run'[w] = Idle
                               \/ run'[w] # Idle /\ run'[w].task.msg = m
\* What the workers that go on with m rely on.
RowKept(m) ==
  /\ obj'[m].status = "absent" => obj[m].status = "absent"
  /\ msg'[m].media = msg[m].media

LEMMA FreshAbout ==
  ASSUME FreshParts, NEW m \in Messages, NEW r, NEW o, MsgTo(m, r), ObjTo(m, o), About(m),
         FreshRow(m)', \A w \in Workers : run'[w] # Idle /\ run'[w].task.msg = m => FreshWorker(w)',
         \A w \in Workers : run[w] # Idle => run[w].task.msg \in Messages
  PROVE  FreshParts'
<1>1. ASSUME NEW d \in Messages PROVE FreshRow(d)'
    BY <1>1 DEF FreshParts, FreshRow, MsgTo, ObjTo
<1>2. ASSUME NEW w \in Workers PROVE FreshWorker(w)'
  <2>1. CASE run'[w] = Idle \/ (run'[w] # Idle /\ run'[w].task.msg = m)
      BY <2>1 DEF FreshWorker
  <2>2. CASE run'[w] = run[w] /\ run[w] # Idle /\ run[w].task.msg # m
    <3>1. run[w].task.msg \in Messages /\ FreshWorker(w)
        BY <2>2 DEF FreshParts
    <3>2. msg'[run[w].task.msg] = msg[run[w].task.msg] /\ obj'[run[w].task.msg] = obj[run[w].task.msg]
        BY <2>2, <3>1 DEF MsgTo, ObjTo
    <3> QED BY <2>2, <3>1, <3>2 DEF FreshWorker
  <2> QED BY <2>1, <2>2 DEF About
<1> QED BY <1>1, <1>2 DEF FreshParts

LEMMA WorkersOf ==
  ASSUME MediaTypes PROVE \A w \in Workers : run[w] # Idle => run[w].task.msg \in Messages
    BY WorkerTypes

LEMMA FreshKept ==
  ASSUME FreshParts, NEW m, RowKept(m), NEW w \in Workers, run'[w] = run[w], run[w] # Idle,
         run[w].task.msg = m
  PROVE  FreshWorker(w)'
    BY DEF FreshParts, FreshWorker, RowKept

\* One worker moves on with m, the others go on as before.
LEMMA FreshMove ==
  ASSUME MediaTypes, FreshParts, NEW m \in Messages, NEW r, NEW o, MsgTo(m, r), ObjTo(m, o), RowKept(m),
         FreshRow(m)', NEW w \in Workers, OthersRun(w),
         run'[w] = Idle \/ (run'[w] # Idle /\ run'[w].task.msg = m /\ FreshWorker(w)') \/ run'[w] = run[w]
  PROVE  FreshParts'
<1>1. About(m)
    BY DEF About, OthersRun
<1>2. ASSUME NEW v \in Workers, run'[v] # Idle, run'[v].task.msg = m PROVE FreshWorker(v)'
  <2>1. CASE run'[v] = run[v]
      BY <1>2, <2>1, FreshKept
  <2>2. CASE run'[v] # run[v]
      BY <1>2, <2>2 DEF OthersRun
  <2> QED BY <2>1, <2>2
<1> QED BY <1>1, <1>2, FreshAbout, WorkersOf

LEMMA FreshTake ==
  ASSUME MediaTypes, FreshParts, NEW w \in Workers, NEW t,
         TakeFetch(w, t) \/ TakeProcess(w, t) \/ TakeIndex(w, t)
  PROVE  FreshParts'
<1>0. NoObject.stage = "fetch" /\ NoObject.status = "absent" /\ Nothing.how = "none" /\ Nothing.of = 0
    BY DEF NoObject, Nothing
<1>1. CASE TakeFetch(w, t)
  <2>1. /\ Takes(w, t) /\ UNCHANGED <<msg, obj>>
        /\ run' = run \/ Begins(w, t, "need_file", Nothing, "none")
      BY <1>1, TakeFetchEffect
  <2>2. t.msg \in Messages /\ MsgTo(t.msg, msg[t.msg]) /\ ObjTo(t.msg, obj[t.msg])
      BY <2>1, MsgIs, ObjIs DEF Takes, MediaTypes
  <2>3. RowKept(t.msg) /\ FreshRow(t.msg)'
      BY <2>1, <2>2 DEF RowKept, FreshParts, FreshRow
  <2>4. CASE run' = run
      BY <2>2, <2>3, <2>4, FreshMove DEF OthersRun
  <2>5. CASE Begins(w, t, "need_file", Nothing, "none")
    <3>1. OthersRun(w) /\ run'[w] # Idle /\ run'[w].task.msg = t.msg /\ FreshWorker(w)'
        BY <2>5 DEF Begins, FreshWorker
    <3> QED BY <2>2, <2>3, <3>1, FreshMove
  <2> QED BY <2>1, <2>4, <2>5
<1>2. CASE TakeProcess(w, t)
  <2>1. /\ Takes(w, t) /\ Pool[w] = "process" /\ t.msg \in Messages
        /\ \/ /\ Begins(w, t, "hand_over", Nothing, "none") /\ UNCHANGED <<msg, obj>>
              /\ obj[t.msg].stage = "index"
           \/ Claims(w, t) \/ (run' = run /\ Drops(t))
      BY <1>2, TakeProcessEffect DEF Takes
  <2>2. FreshRow(t.msg) /\ (obj[t.msg].status = "absent" => obj[t.msg] = NoObject)
      BY <2>1 DEF FreshParts, MediaTypes, Rows
  <2>3. CASE Begins(w, t, "hand_over", Nothing, "none") /\ UNCHANGED <<msg, obj>> /\ obj[t.msg].stage = "index"
    <3>1. MsgTo(t.msg, msg[t.msg]) /\ ObjTo(t.msg, obj[t.msg]) /\ RowKept(t.msg) /\ FreshRow(t.msg)'
        BY <2>1, <2>2, <2>3, MsgIs, ObjIs DEF MediaTypes, RowKept, FreshRow
    <3>2. OthersRun(w) /\ run'[w] # Idle /\ run'[w].task.msg = t.msg /\ FreshWorker(w)'
        BY <1>0, <2>2, <2>3 DEF Begins, FreshWorker
    <3> QED BY <2>1, <3>1, <3>2, FreshMove
  <2>4. CASE Claims(w, t)
    <3>1. PICK r, n :
            /\ MsgTo(t.msg, r) /\ ObjTo(t.msg, n) /\ SameMedia(msg[t.msg], r) /\ r.status = "processing"
            /\ n.file = obj[t.msg].file /\ (n.status = "absent" <=> obj[t.msg].status = "absent")
            /\ \/ Begins(w, t, "extracted", msg[t.msg].content, "speech") /\ msg[t.msg].content.how = "speech"
               \/ \E how : Begins(w, t, "need_file", Nothing, how)
        BY <2>4 DEF Claims
    <3>2. msg'[t.msg] = r /\ obj'[t.msg] = n
        BY <3>1 DEF MsgTo, ObjTo
    <3>3. RowKept(t.msg) /\ FreshRow(t.msg)'
        BY <2>2, <3>1, <3>2 DEF RowKept, FreshRow, SameMedia
    <3>4. CASE Begins(w, t, "extracted", msg[t.msg].content, "speech") /\ msg[t.msg].content.how = "speech"
      <4>1. msg[t.msg].content.of = msg[t.msg].media /\ obj[t.msg].status # "absent"
          BY <1>0, <2>2, <3>4 DEF FreshRow
      <4>2. OthersRun(w) /\ run'[w] # Idle /\ run'[w].task.msg = t.msg /\ FreshWorker(w)'
          BY <3>1, <3>2, <3>4, <4>1 DEF Begins, FreshWorker, SameMedia
      <4> QED BY <2>1, <3>1, <3>3, <4>2, FreshMove
    <3>5. ASSUME NEW how, Begins(w, t, "need_file", Nothing, how) PROVE FreshParts'
      <4>1. OthersRun(w) /\ run'[w] # Idle /\ run'[w].task.msg = t.msg /\ FreshWorker(w)'
          BY <3>5 DEF Begins, FreshWorker
      <4> QED BY <2>1, <3>1, <3>3, <4>1, FreshMove
    <3> QED BY <3>1, <3>4, <3>5
  <2>5. CASE run' = run /\ Drops(t)
    <3>1. PICK r, n :
            /\ MsgTo(t.msg, r) /\ ObjTo(t.msg, n) /\ SameMedia(msg[t.msg], r)
            /\ r = msg[t.msg] \/ r.status = "queued"
            /\ n = obj[t.msg] \/ (n.status = "cached" /\ obj[t.msg].status # "absent")
            /\ n.file = obj[t.msg].file
        BY <2>5 DEF Drops
    <3>2. msg'[t.msg] = r /\ obj'[t.msg] = n
        BY <3>1 DEF MsgTo, ObjTo
    <3>3. RowKept(t.msg) /\ FreshRow(t.msg)' /\ OthersRun(w)
        BY <2>2, <2>5, <3>1, <3>2 DEF RowKept, FreshRow, SameMedia, OthersRun
    <3> QED BY <2>1, <2>5, <3>1, <3>3, FreshMove
  <2> QED BY <2>1, <2>3, <2>4, <2>5
<1>3. CASE TakeIndex(w, t)
  <2>1. Takes(w, t) /\ t.msg \in Messages /\ (Indexing(w, t) \/ (run' = run /\ Drops(t)))
      BY <1>3, TakeIndexEffect DEF Takes
  <2>2. FreshRow(t.msg)
      BY <2>1 DEF FreshParts
  <2>3. CASE Indexing(w, t)
    <3>1. PICK r, n :
            /\ MsgTo(t.msg, r) /\ ObjTo(t.msg, n) /\ SameMedia(msg[t.msg], r) /\ r.status = "processing"
            /\ obj[t.msg].status # "absent" /\ n.status = "indexing" /\ n.file = obj[t.msg].file
            /\ Begins(w, t, "indexing", msg[t.msg].content, "none")
        BY <2>3 DEF Indexing
    <3>2. msg'[t.msg] = r /\ obj'[t.msg] = n
        BY <3>1 DEF MsgTo, ObjTo
    <3>3. RowKept(t.msg) /\ FreshRow(t.msg)'
        BY <2>2, <3>1, <3>2 DEF RowKept, FreshRow, SameMedia
    <3>4. OthersRun(w) /\ run'[w] # Idle /\ run'[w].task.msg = t.msg /\ FreshWorker(w)'
        BY <1>0, <2>2, <3>1, <3>2 DEF Begins, FreshWorker, FreshRow, SameMedia
    <3> QED BY <2>1, <3>1, <3>3, <3>4, FreshMove
  <2>4. CASE run' = run /\ Drops(t)
    <3>1. PICK r, n :
            /\ MsgTo(t.msg, r) /\ ObjTo(t.msg, n) /\ SameMedia(msg[t.msg], r)
            /\ r = msg[t.msg] \/ r.status = "queued"
            /\ n = obj[t.msg] \/ (n.status = "cached" /\ obj[t.msg].status # "absent")
            /\ n.file = obj[t.msg].file
        BY <2>4 DEF Drops
    <3>2. msg'[t.msg] = r /\ obj'[t.msg] = n
        BY <3>1 DEF MsgTo, ObjTo
    <3>3. RowKept(t.msg) /\ FreshRow(t.msg)' /\ OthersRun(w)
        BY <2>2, <2>4, <3>1, <3>2 DEF RowKept, FreshRow, SameMedia, OthersRun
    <3> QED BY <2>1, <2>4, <3>1, <3>3, FreshMove
  <2> QED BY <2>1, <2>3, <2>4
<1> QED BY <1>1, <1>2, <1>3

LEMMA FreshHasFile ==
  ASSUME NEW w \in Workers, run[w] # Idle, NEW file, HasFile(w, file), NEW m \in Messages, m = run[w].task.msg,
         obj'[m].status # "absent", file = msg'[m].media
  PROVE  OthersRun(w) /\ run'[w] # Idle /\ run'[w].task.msg = m /\ FreshWorker(w)'
    BY DEF HasFile, GoesOn, FreshWorker

LEMMA FreshFile ==
  ASSUME MediaTypes, FreshParts, NEW w \in Workers, Hit(w) \/ Download(w) \/ Downloaded(w) \/ Extract(w)
  PROVE  FreshParts'
<1>1. PICK m : m = run[w].task.msg
    OBVIOUS
<1>2. CASE Hit(w)
  <2>1. /\ m \in Messages /\ run[w] # Idle /\ obj[m].file \in Media /\ HasFile(w, obj[m].file)
        /\ UNCHANGED <<msg, obj>>
      BY <1>1, <1>2, HitEffect
  <2>2. MsgTo(m, msg[m]) /\ ObjTo(m, obj[m]) /\ RowKept(m) /\ FreshRow(m)' /\ FreshRow(m)
      BY <2>1, MsgIs, ObjIs DEF MediaTypes, RowKept, FreshParts, FreshRow
  <2>3. obj[m].file = msg[m].media /\ obj[m].status # "absent"
      BY <2>1, <2>2, MediaAre, ConstantRows DEF FreshRow, MediaTypes, Rows
  <2>4. OthersRun(w) /\ run'[w] # Idle /\ run'[w].task.msg = m /\ FreshWorker(w)'
      BY <1>1, <2>1, <2>3, FreshHasFile
  <2> QED BY <2>1, <2>2, <2>4, FreshMove
<1>3. CASE Download(w)
  <2>1. /\ m \in Messages /\ run[w] # Idle
        /\ GoesOn(w, "downloading", [of |-> msg[m].media, how |-> run[w].how]) /\ msg' = msg
      BY <1>1, <1>3, DownloadEffect
  <2>2. PICK n : ObjTo(m, n) /\ n.status = "fetching" /\ n.file = 0
      BY <1>1, <1>3, DownloadEffect
  <2>3. obj'[m] = n
      BY <2>2 DEF ObjTo
  <2>4. MsgTo(m, msg[m]) /\ RowKept(m) /\ FreshRow(m)'
      BY <2>1, <2>2, <2>3, MsgIs DEF MediaTypes, RowKept, FreshParts, FreshRow
  <2>5. OthersRun(w) /\ run'[w] # Idle /\ run'[w].task.msg = m /\ FreshWorker(w)'
      BY <1>1, <2>1, <2>2, <2>3 DEF GoesOn, FreshWorker
  <2> QED BY <2>1, <2>2, <2>4, <2>5, FreshMove
<1>4. CASE Downloaded(w)
  <2>1. m \in Messages /\ run[w] # Idle /\ HasFile(w, msg[m].media) /\ msg' = msg
      BY <1>1, <1>4, DownloadedEffect
  <2>2. PICK n : ObjTo(m, n) /\ n.status = "cached" /\ n.file = msg[m].media
      BY <1>1, <1>4, DownloadedEffect
  <2>3. obj'[m] = n
      BY <2>2 DEF ObjTo
  <2>4. MsgTo(m, msg[m]) /\ RowKept(m) /\ FreshRow(m)'
      BY <2>1, <2>2, <2>3, MsgIs DEF MediaTypes, RowKept, FreshParts, FreshRow
  <2>5. OthersRun(w) /\ run'[w] # Idle /\ run'[w].task.msg = m /\ FreshWorker(w)'
      BY <1>1, <2>1, <2>2, <2>3, FreshHasFile
  <2> QED BY <2>1, <2>2, <2>4, <2>5, FreshMove
<1>5. CASE Extract(w)
  <2>1. /\ m \in Messages /\ run[w] # Idle /\ run[w].at = "extracting"
        /\ GoesOn(w, "extracted", run[w].got) /\ msg' = msg
      BY <1>1, <1>5, ExtractEffect
  <2>2. PICK n : ObjTo(m, n) /\ n.status = obj[m].status /\ n.file = obj[m].file
      BY <1>1, <1>5, ExtractEffect
  <2>3. obj'[m] = n
      BY <2>2 DEF ObjTo
  <2>4. MsgTo(m, msg[m]) /\ RowKept(m) /\ FreshRow(m)'
      BY <2>1, <2>2, <2>3, MsgIs DEF MediaTypes, RowKept, FreshParts, FreshRow
  <2>5. OthersRun(w) /\ run'[w] # Idle /\ run'[w].task.msg = m /\ FreshWorker(w)'
      BY <1>1, <2>1, <2>2, <2>3 DEF GoesOn, FreshWorker, FreshParts
  <2> QED BY <2>1, <2>2, <2>4, <2>5, FreshMove
<1> QED BY <1>2, <1>3, <1>4, <1>5

LEMMA FreshEnd ==
  ASSUME MediaTypes, FreshParts, NEW w \in Workers, Checkpoint(w) \/ HandOver(w) \/ Finalize(w) \/ Fails(w)
  PROVE  FreshParts'
<1>1. PICK m : m = run[w].task.msg
    OBVIOUS
<1>2. CASE Checkpoint(w)
  <2>1. m \in Messages /\ run[w] # Idle /\ run[w].at = "extracted" /\ GoesOn(w, "hand_over", Nothing)
      BY <1>1, <1>2, CheckpointEffect
  <2>2. PICK r : MsgTo(m, r) /\ r.media = msg[m].media /\ r.status = msg[m].status
                 /\ r.content = run[w].got /\ r.chunks = msg[m].chunks
      BY <1>1, <1>2, CheckpointEffect
  <2>3. PICK n : ObjTo(m, n) /\ n.file = obj[m].file /\ (n.status = "absent" <=> obj[m].status = "absent")
      BY <1>1, <1>2, CheckpointEffect
  <2>4. msg'[m] = r /\ obj'[m] = n
      BY <2>2, <2>3 DEF MsgTo, ObjTo
  <2>5. obj[m].status # "absent" /\ run[w].got.of = msg[m].media /\ FreshRow(m)
      BY <1>1, <2>1 DEF FreshParts, FreshWorker
  <2>6. RowKept(m) /\ FreshRow(m)'
      BY <2>2, <2>3, <2>4, <2>5 DEF RowKept, FreshRow
  <2>7. OthersRun(w) /\ run'[w] # Idle /\ run'[w].task.msg = m /\ FreshWorker(w)'
      BY <1>1, <2>1, <2>3, <2>4, <2>5 DEF GoesOn, FreshWorker
  <2> QED BY <2>1, <2>2, <2>3, <2>6, <2>7, FreshMove
<1>3. CASE HandOver(w)
  <2>1. m \in Messages /\ run[w] # Idle /\ Stops(w) /\ UNCHANGED <<msg, obj>>
      BY <1>1, <1>3, HandOverEffect, WorkerTypes
  <2>2. MsgTo(m, msg[m]) /\ ObjTo(m, obj[m]) /\ RowKept(m) /\ FreshRow(m)'
      BY <2>1, MsgIs, ObjIs DEF MediaTypes, RowKept, FreshParts, FreshRow
  <2> QED BY <2>1, <2>2, FreshMove DEF Stops
<1>4. CASE Finalize(w)
  <2>1. m \in Messages /\ run[w] # Idle /\ run[w].at = "indexing" /\ run[w].got.of # 0 /\ Stops(w)
      BY <1>1, <1>4, FinalizeEffect
  <2>2. PICK r : MsgTo(m, r) /\ r.media = msg[m].media /\ r.content = run[w].got /\ r.chunks = run[w].got.of
      BY <1>1, <1>4, FinalizeEffect
  <2>3. PICK n : ObjTo(m, n) /\ n.file = obj[m].file /\ (n.status = "absent" <=> obj[m].status = "absent")
      BY <1>1, <1>4, FinalizeEffect
  <2>4. msg'[m] = r /\ obj'[m] = n
      BY <2>2, <2>3 DEF MsgTo, ObjTo
  <2>5. obj[m].status # "absent" /\ run[w].got.of = msg[m].media /\ FreshRow(m)
      BY <1>1, <2>1 DEF FreshParts, FreshWorker
  <2>6. RowKept(m) /\ FreshRow(m)'
      BY <2>2, <2>3, <2>4, <2>5 DEF RowKept, FreshRow
  <2> QED BY <2>1, <2>2, <2>3, <2>6, FreshMove DEF Stops
<1>5. CASE Fails(w)
  <2>1. m \in Messages /\ Stops(w)
      BY <1>1, <1>5, WorkerTypes DEF Fails
  <2>2. PICK r, n : /\ MsgTo(m, r) /\ ObjTo(m, n) /\ SameMedia(msg[m], r)
                    /\ r = msg[m] \/ r.status \in {"queued", "failed", "skipped"}
                    /\ n.file = obj[m].file /\ (n.status = "absent" <=> obj[m].status = "absent")
      BY <1>1, <1>5 DEF Fails, Marks
  <2>3. msg'[m] = r /\ obj'[m] = n /\ FreshRow(m)
      BY <2>1, <2>2 DEF MsgTo, ObjTo, FreshParts
  <2>4. RowKept(m) /\ FreshRow(m)'
      BY <2>2, <2>3 DEF RowKept, FreshRow, SameMedia
  <2> QED BY <2>1, <2>2, <2>4, FreshMove DEF Stops
<1> QED BY <1>2, <1>3, <1>4, <1>5

\* The steps that leave the workers alone.
LEMMA FreshRows ==
  ASSUME MediaTypes, FreshParts, NEW m \in Messages, NEW r, NEW o, MsgTo(m, r), ObjTo(m, o), RowKept(m),
         FreshRow(m)', run' = run
  PROVE  FreshParts'
<1>1. About(m)
    BY DEF About
<1>2. ASSUME NEW v \in Workers, run'[v] # Idle, run'[v].task.msg = m PROVE FreshWorker(v)'
    BY <1>2, FreshKept
<1> QED BY <1>1, <1>2, FreshAbout, WorkersOf

LEMMA FreshMessage ==
  ASSUME MediaTypes, FreshParts, ~EditsOverlap, NEW m \in Messages,
         Age(m) \/ Prepare(m) \/ \E type \in Types : Edit(m, type)
  PROVE  FreshParts'
<1>0. FreshRow(m) /\ Rows /\ (obj[m].status = "absent" => obj[m] = NoObject)
    BY DEF FreshParts, MediaTypes, Rows
<1>1. CASE Age(m)
  <2>1. UNCHANGED <<obj, run>>
      BY <1>1, AgeEffect
  <2>2. PICK r : MsgTo(m, r) /\ SameMedia(msg[m], r) /\ r.status = msg[m].status
      BY <1>1, AgeEffect
  <2>3. ObjTo(m, obj[m]) /\ msg'[m] = r
      BY <1>0, <2>1, <2>2, ObjIs DEF MsgTo
  <2>4. RowKept(m) /\ FreshRow(m)'
      BY <1>0, <2>1, <2>2, <2>3 DEF RowKept, FreshRow, SameMedia
  <2> QED BY <2>1, <2>2, <2>3, <2>4, FreshRows
<1>2. CASE Prepare(m)
  <2>1. run' = run
      BY <1>2, PrepareEffect
  <2>2. PICK r, n : /\ MsgTo(m, r) /\ ObjTo(m, n) /\ SameMedia(msg[m], r)
                    /\ n.file = obj[m].file /\ n.status # "absent" /\ (r = msg[m] \/ r.status = "pending")
      BY <1>2, PrepareEffect
  <2>3. msg'[m] = r /\ obj'[m] = n
      BY <2>2 DEF MsgTo, ObjTo
  <2>4. RowKept(m) /\ FreshRow(m)'
      BY <1>0, <2>2, <2>3 DEF RowKept, FreshRow, SameMedia
  <2> QED BY <2>1, <2>2, <2>4, FreshRows
<1>3. ASSUME NEW type \in Types, Edit(m, type) PROVE FreshParts'
  <2>1. run' = run /\ \A w \in Workers : Works(w, m) => Pool[w] = "fetch"
      BY <1>3, EditEffect
  <2>2. PICK r, n :
          /\ MsgTo(m, r) /\ ObjTo(m, n) /\ r.media = msg[m].media + 1
          /\ \/ /\ obj[m].status = "absent" /\ n = obj[m]
                /\ r.content = msg[m].content /\ r.status \in {"pending", msg[m].status}
             \/ /\ obj[m].status # "absent" /\ n.status = "pending" /\ n.file = 0
                /\ r.content = Nothing /\ r.status = "pending"
      BY <1>3, EditEffect
  <2>3. msg'[m] = r /\ obj'[m] = n
      BY <2>2 DEF MsgTo, ObjTo
  <2>4. FreshRow(m)'
      BY <1>0, <2>2, <2>3, ConstantRows DEF FreshRow
  <2>5. About(m)
      BY <2>1 DEF About
  <2>6. ASSUME NEW v \in Workers, run'[v] # Idle, run'[v].task.msg = m PROVE FreshWorker(v)'
    <3>1. FreshWorker(v) /\ Pool[v] = "fetch" /\ run[v] # Idle /\ run[v].task.msg = m
        BY <2>1, <2>6 DEF FreshParts, Works
    <3>2. run[v].at \notin {"extracting", "extracted", "indexing"}
        BY <3>1, WorkerTypes
    <3> QED BY <2>1, <2>2, <2>3, <3>1, <3>2 DEF FreshWorker
  <2> QED BY <2>2, <2>4, <2>5, <2>6, FreshAbout, WorkersOf
<1> QED BY <1>1, <1>2, <1>3

LEMMA FreshBeat == ASSUME MediaTypes, FreshParts, Beat PROVE FreshParts'
<1>1. PICK picked \in SUBSET Messages : \E sent, lost \in SUBSET picked : Dispatch(picked, sent, lost)
    BY DEF Beat
<1>2. PICK sent \in SUBSET picked, lost \in SUBSET picked : Dispatch(picked, sent, lost)
    BY <1>1
<1>3. run' = run /\ \A m \in Messages : Dispatches(m)
    BY <1>2, DispatchEffect
<1>4. ASSUME NEW m \in Messages PROVE RowKept(m) /\ FreshRow(m)'
  <2>1. Dispatches(m) /\ FreshRow(m)
      BY <1>3 DEF FreshParts
  <2> QED BY <2>1 DEF Dispatches, SameMedia, RowKept, FreshRow
<1>5. ASSUME NEW w \in Workers PROVE FreshWorker(w)'
  <2>1. CASE run[w] = Idle
      BY <1>3, <2>1 DEF FreshWorker
  <2>2. CASE run[w] # Idle
      BY <1>3, <1>4, <2>2, WorkersOf, FreshKept
  <2> QED BY <2>1, <2>2
<1> QED BY <1>4, <1>5 DEF FreshParts

LEMMA FreshIdle ==
  ASSUME FreshParts, UNCHANGED <<msg, obj>>, \A w \in Workers : run'[w] \in {run[w], Idle}
  PROVE  FreshParts'
    BY DEF FreshParts, FreshRow, FreshWorker

\* Every step of the pipeline but a prune keeps the parts.
LEMMA FreshStep ==
  ASSUME MediaTypes, FreshParts, ~EditsOverlap, [Next]_vars, \A m \in Messages : ~Prune(m)
  PROVE  FreshParts'
<1>1. CASE Beat
    BY <1>1, FreshBeat
<1>2. ASSUME NEW w \in Workers, Work(w) PROVE FreshParts'
  <2>1. ASSUME NEW error, Raise(w, error) PROVE FreshParts'
      BY <2>1, RaiseEffect, FreshEnd
  <2> QED BY <1>2, <2>1, FreshTake, FreshFile, FreshEnd DEF Work
<1>3. CASE Environment
  <2>1. ASSUME NEW w \in Workers, BrokerFails(w) PROVE FreshParts'
      BY <2>1, BrokerEffect, FreshEnd
  <2>2. ASSUME NEW w \in Workers, Crash(w) PROVE FreshParts'
      BY <2>2, CrashEffect, FreshIdle DEF Stops, OthersRun
  <2>3. ASSUME NEW t, Return(t) PROVE FreshParts'
      BY <2>3, ReturnEffect, FreshIdle
  <2>4. CASE Select
      BY <2>4, SelectEffect, FreshIdle
  <2> QED BY <1>3, <2>1, <2>2, <2>3, <2>4, FreshMessage DEF Environment
<1>4. CASE UNCHANGED vars
    BY <1>4, FreshIdle DEF vars
<1> QED BY <1>1, <1>2, <1>3, <1>4 DEF Next

LEMMA LeftNeverRises == ASSUME MediaTypes, [Next]_vars PROVE LeftFalls
<1>1. CASE Beat
  <2>1. PICK picked \in SUBSET Messages : \E sent, lost \in SUBSET picked : Dispatch(picked, sent, lost)
      BY <1>1 DEF Beat
  <2> QED BY <2>1, DispatchEffect
<1>2. ASSUME NEW w \in Workers, Work(w) PROVE LeftFalls
  <2>1. ASSUME NEW error, Raise(w, error) PROVE LeftFalls
      BY <2>1, RaiseEffect
  <2>2. CASE ~\E error \in Errors : Raise(w, error)
      BY <1>2, <2>2, SpentNothing
         DEF Work, TakeFetch, TakeProcess, TakeIndex, Receive, Hit, Download, Downloaded, Extract,
             Checkpoint, HandOver, Finalize
  <2> QED BY <2>1, <2>2
<1>3. CASE Environment
    BY <1>3, CrashEffect, BrokerEffect, ReturnEffect, AgeEffect, PrepareEffect, PruneEffect, EditEffect,
       SelectEffect DEF Environment
<1>4. CASE UNCHANGED vars
    BY <1>4, SpentNothing DEF vars
<1> QED BY <1>1, <1>2, <1>3, <1>4 DEF Next

LEMMA FreshNext ==
  ASSUME MediaTypes, FreshInv, ~EditsOverlap, [Next]_vars PROVE FreshInv'
<1> SUFFICES ASSUME Unused({"prune"})' PROVE FreshParts'
    BY DEF FreshInv
<1>1. Unused({"prune"}) /\ left'["prune"] = left["prune"] /\ left["prune"] \in Nat
    BY LeftNeverRises, UnusedBefore DEF Events
<1>2. ASSUME NEW m \in Messages, Prune(m) PROVE FALSE
    BY <1>1, <1>2, PruneEffect
<1> QED BY <1>1, <1>2, FreshStep DEF FreshInv

LEMMA FreshInit == ASSUME Init PROVE FreshInv
    BY DEF Init, FreshInv, FreshParts, FreshRow, FreshWorker, NoObject, Nothing

\* Where no edit arrives while a stage works on its message, a READY message is found by the
\* media it has now, until a cached original is pruned with its media_objects row: downloads
\* and hand-overs begun before an edit never bring the old media back.
THEOREM ReadyIsFresh == ASSUME ~EditsOverlap PROVE Spec => []FreshUnlessPruned
<1>1. Init => FreshInv
    BY FreshInit
<1>2. MediaTypes /\ FreshInv /\ [Next]_vars => FreshInv'
    BY FreshNext
<1>3. FreshInv => FreshUnlessPruned
    BY DEF FreshInv, FreshParts, FreshRow, FreshUnlessPruned, FreshWhenReady
<1> QED BY <1>1, <1>2, <1>3, TypesAlways, PTL DEF Spec

-----------------------------------------------------------------------------
(* One extraction at a time.  While the only events are requests for files,    *)
(* one worker at most holds a message: the one that downloads its file, that   *)
(* extracts it or that indexes it.  Without a file every task of the message   *)
(* is for the fetch queue; with one, what the worker holds is written in the   *)
(* two rows, so that no second worker can claim it, the beat and a request     *)
(* included.                                                                   *)

Extracts(w, m) == Works(w, m) /\ Pool[w] = "process" /\ run[w].at # "hand_over"
Indexes(w, m) == Works(w, m) /\ Pool[w] = "index"
Loads(w, m) == Works(w, m) /\ run[w].at = "downloading"
Holds(w, m) == Extracts(w, m) \/ Indexes(w, m) \/ Loads(w, m)

CalmWorker(w, m) ==
  /\ obj[m].file = 0 => Pool[w] = "fetch" /\ run[w].at # "hand_over"
  /\ run[w].at = "downloading" => obj[m].file = 0 /\ run[w].got.of = msg[m].media
  /\ run[w].at \in {"extracting", "extracted"} => run[w].got.of # 0
  /\ Pool[w] = "process" /\ run[w].at # "hand_over" =>
       /\ msg[m].status = "processing" /\ msg[m].started = "recent"
       /\ obj[m].status = "extracting" /\ obj[m].stage \in {"extraction", "summary"}
  /\ Pool[w] = "index" =>
       /\ msg[m].status = "processing" /\ msg[m].started = "recent"
       /\ obj[m].status = "indexing" /\ obj[m].stage = "index" /\ run[w].got.of # 0
CalmRow(m) ==
  /\ obj[m].stage = "index" => msg[m].content.of # 0
  /\ msg[m].content = Nothing \/ msg[m].content.of # 0
CalmQueue(m) == \A t \in BagToSet(queue) : t.msg = m => ~t.again /\ (obj[m].file = 0 => t.stage = "fetch")
CalmWorkers(m) ==
  /\ \A w \in Workers : Works(w, m) => ~run[w].task.again /\ CalmWorker(w, m)
  /\ \A v, w \in Workers : Holds(v, m) /\ Holds(w, m) => v = w
Calm(m) == CalmRow(m) /\ CalmQueue(m) /\ CalmWorkers(m)
CalmParts == selected /\ \A m \in Messages : Calm(m)
CalmInv == Unused(Events \ {"prepare"}) => CalmParts

\* A step about the message m leaves the others calm.
LEMMA CalmOther ==
  ASSUME NEW m \in Messages, NEW d \in Messages, d # m, Calm(d), NEW r, NEW o, MsgTo(m, r), ObjTo(m, o),
         \A w \in Workers : run'[w] = run[w] \/
                            ((run[w] = Idle \/ run[w].task.msg = m) /\ (run'[w] = Idle \/ run'[w].task.msg = m)),
         \A t \in BagToSet(queue') : t \in BagToSet(queue) \/ t.msg = m
  PROVE  Calm(d)'
<1>1. msg'[d] = msg[d] /\ obj'[d] = obj[d]
    BY DEF MsgTo, ObjTo
<1>2. CalmRow(d)'
    BY <1>1 DEF Calm, CalmRow
<1>3. CalmQueue(d)'
    BY <1>1 DEF Calm, CalmQueue
<1>4. \A w \in Workers : Works(w, d)' => Works(w, d) /\ run'[w] = run[w]
    BY DEF Works
<1>5. ASSUME NEW w \in Workers, Works(w, d)' PROVE (~run[w].task.again /\ CalmWorker(w, d))'
  <2>1. ~run[w].task.again /\ CalmWorker(w, d) /\ run'[w] = run[w]
      BY <1>4, <1>5 DEF Calm, CalmWorkers
  <2> QED BY <1>1, <2>1 DEF CalmWorker
<1>6. \A w \in Workers : Holds(w, d)' => Holds(w, d)
    BY <1>4 DEF Holds, Extracts, Indexes, Loads, Works
<1>7. CalmWorkers(d)'
    BY <1>5, <1>6 DEF Calm, CalmWorkers
<1> QED BY <1>2, <1>3, <1>7 DEF Calm

\* What is left to show for m after a step of the worker w.
LEMMA CalmStep ==
  ASSUME MediaTypes, CalmParts, NEW w \in Workers, NEW m \in Messages, NEW r, NEW o, MsgTo(m, r), ObjTo(m, o),
         OthersRun(w), run[w] = Idle \/ run[w].task.msg = m, run'[w] = Idle \/ run'[w].task.msg = m,
         \A t \in BagToSet(queue') : t \in BagToSet(queue) \/ t.msg = m,
         selected' = selected, CalmRow(m)', CalmQueue(m)',
         \A v \in Workers : v # w /\ Works(v, m) => CalmWorker(v, m)',
         run'[w] # Idle => ~run'[w].task.again /\ CalmWorker(w, m)',
         Holds(w, m)' => Holds(w, m) \/ \A v \in Workers : v # w => ~Holds(v, m)
  PROVE  CalmParts'
<1>1. ASSUME NEW d \in Messages, d # m PROVE Calm(d)'
    BY <1>1, CalmOther DEF CalmParts, OthersRun
<1>2. Calm(m)
    BY DEF CalmParts
<1>3. ASSUME NEW v \in Workers, Works(v, m)' PROVE (~run[v].task.again /\ CalmWorker(v, m))'
  <2>1. CASE v = w
      BY <1>3, <2>1 DEF Works
  <2>2. CASE v # w
    <3>1. run'[v] = run[v] /\ Works(v, m)
        BY <1>3, <2>2 DEF OthersRun, Works
    <3>2. ~run[v].task.again
        BY <1>2, <3>1 DEF Calm, CalmWorkers
    <3> QED BY <2>2, <3>1, <3>2
  <2> QED BY <2>1, <2>2
<1>4. ASSUME NEW v \in Workers, v # w, Holds(v, m)' PROVE Holds(v, m)
    BY <1>4 DEF Holds, Extracts, Indexes, Loads, Works, OthersRun
<1>5. ASSUME NEW u \in Workers, NEW v \in Workers, Holds(u, m)', Holds(v, m)' PROVE u = v
  <2>1. \A a, b \in Workers : Holds(a, m) /\ Holds(b, m) => a = b
      BY <1>2 DEF Calm, CalmWorkers
  <2> QED BY <1>4, <1>5, <2>1
<1>6. CalmWorkers(m)'
    BY <1>3, <1>5 DEF CalmWorkers
<1>7. selected'
    BY DEF CalmParts
<1> QED BY <1>1, <1>6, <1>7 DEF CalmParts, Calm

\* A worker that had nothing and gets nothing: it drops the task it took.
LEMMA CalmDrop ==
  ASSUME CalmParts, UNCHANGED <<msg, obj, selected, run>>,
         BagToSet(queue') \subseteq BagToSet(queue)
  PROVE  CalmParts'
    BY DEF CalmParts, Calm, CalmRow, CalmQueue, CalmWorkers, CalmWorker, Holds, Extracts, Indexes, Loads, Works

LEMMA CalmTaken ==
  ASSUME MediaTypes, CalmParts, NEW w \in Workers, NEW t, Takes(w, t), NEW m, m = t.msg
  PROVE  /\ m \in Messages /\ Calm(m) /\ ~t.again /\ t.stage = Pool[w] /\ run[w] = Idle
         /\ obj[m].file = 0 => t.stage = "fetch"
         /\ (\A q \in BagToSet(queue') : q \in BagToSet(queue) \/ q.msg = m)
         /\ selected /\ selected' = selected /\ (obj[m].status = "absent" => obj[m].file = 0)
         /\ MsgTo(m, msg[m]) \/ msg' # msg
         /\ ObjTo(m, obj[m]) \/ obj' # obj
<1>1. m \in Messages /\ t \in BagToSet(queue) /\ BagToSet(queue') \subseteq BagToSet(queue)
      /\ t.stage = Pool[w] /\ run[w] = Idle /\ selected' = selected
    BY DEF Takes
<1>2. Calm(m) /\ selected
    BY <1>1 DEF CalmParts
<1>3. ~t.again /\ (obj[m].file = 0 => t.stage = "fetch")
    BY <1>1, <1>2 DEF Calm, CalmQueue
<1>4. obj[m].status = "absent" => obj[m].file = 0
    BY <1>1, ConstantRows DEF MediaTypes, Rows
<1>5. (MsgTo(m, msg[m]) \/ msg' # msg) /\ (ObjTo(m, obj[m]) \/ obj' # obj)
    BY <1>1, MsgIs, ObjIs DEF MediaTypes
<1> QED BY <1>1, <1>2, <1>3, <1>4, <1>5

LEMMA CalmTakeFetch ==
  ASSUME MediaTypes, CalmParts, NEW w \in Workers, NEW t, TakeFetch(w, t) PROVE CalmParts'
<1> DEFINE m == t.msg
<1>1. /\ Takes(w, t) /\ Pool[w] = "fetch" /\ UNCHANGED <<msg, obj>>
      /\ run' = run \/ Begins(w, t, "need_file", Nothing, "none")
    BY TakeFetchEffect
<1>2. /\ m \in Messages /\ Calm(m) /\ ~t.again /\ run[w] = Idle
      /\ (\A q \in BagToSet(queue') : q \in BagToSet(queue) \/ q.msg = m)
      /\ selected' = selected /\ MsgTo(m, msg[m]) /\ ObjTo(m, obj[m])
    BY <1>1, CalmTaken
<1>3. CASE run' = run
    BY <1>1, <1>2, <1>3, CalmDrop DEF Takes
<1>4. CASE Begins(w, t, "need_file", Nothing, "none")
  <2>1. OthersRun(w) /\ run'[w].task = t /\ run'[w].at = "need_file"
      BY <1>4 DEF Begins
  <2>2. CalmRow(m)' /\ CalmQueue(m)'
      BY <1>1, <1>2 DEF Calm, CalmRow, CalmQueue, Takes
  <2>3. \A v \in Workers : v # w /\ Works(v, m) => CalmWorker(v, m)'
      BY <1>1, <1>2, <2>1 DEF Calm, CalmWorkers, CalmWorker, OthersRun
  <2>4. CalmWorker(w, m)'
      BY <1>1, <2>1 DEF CalmWorker
  <2>5. ~Holds(w, m)'
      BY <1>1, <2>1 DEF Holds, Extracts, Indexes, Loads
  <2> HIDE DEF m
  <2> QED BY <1>2, <2>1, <2>2, <2>3, <2>4, <2>5, CalmStep DEF m
<1> QED BY <1>1, <1>3, <1>4

LEMMA CalmTakeProcess ==
  ASSUME MediaTypes, CalmParts, NEW w \in Workers, NEW t, TakeProcess(w, t) PROVE CalmParts'
<1> DEFINE m == t.msg
<1>1. /\ Takes(w, t) /\ Pool[w] = "process"
      /\ \/ Begins(w, t, "hand_over", Nothing, "none") /\ UNCHANGED <<msg, obj>>
         \/ Claims(w, t)
         \/ run' = run /\ Drops(t)
    BY TakeProcessEffect
<1>2. /\ m \in Messages /\ Calm(m) /\ ~t.again /\ run[w] = Idle /\ obj[m].file # 0
      /\ (\A q \in BagToSet(queue') : q \in BagToSet(queue) \/ q.msg = m)
      /\ selected' = selected /\ (MsgTo(m, msg[m]) \/ msg' # msg) /\ (ObjTo(m, obj[m]) \/ obj' # obj)
      /\ obj[m].status # "absent" /\ BagToSet(queue') \subseteq BagToSet(queue)
    BY <1>1, CalmTaken DEF Takes
<1>3. CASE Begins(w, t, "hand_over", Nothing, "none") /\ UNCHANGED <<msg, obj>>
  <2>1. OthersRun(w) /\ run'[w].task = t /\ run'[w].at = "hand_over"
      BY <1>3 DEF Begins
  <2>2. CalmRow(m)' /\ CalmQueue(m)'
      BY <1>2, <1>3 DEF Calm, CalmRow, CalmQueue
  <2>3. \A v \in Workers : v # w /\ Works(v, m) => CalmWorker(v, m)'
      BY <1>2, <1>3, <2>1 DEF Calm, CalmWorkers, CalmWorker, OthersRun
  <2>4. CalmWorker(w, m)' /\ ~Holds(w, m)'
      BY <1>1, <1>2, <1>3, <2>1 DEF CalmWorker, Holds, Extracts, Indexes, Loads
  <2> HIDE DEF m
  <2> QED BY <1>2, <1>3, <2>1, <2>2, <2>3, <2>4, CalmStep DEF m
<1>4. CASE Claims(w, t)
  <2>1. PICK r, n :
          /\ msg[m].status \in {"pending", "queued"}
          /\ MsgTo(m, r) /\ ObjTo(m, n) /\ SameMedia(msg[m], r)
          /\ r.status = "processing" /\ r.started = "recent"
          /\ n.file = obj[m].file /\ n.status = "extracting" /\ n.stage = "extraction"
          /\ \/ Begins(w, t, "extracted", msg[m].content, "speech") /\ msg[m].content.how = "speech"
             \/ \E how : Begins(w, t, "need_file", Nothing, how)
      BY <1>2, <1>4 DEF Claims
  <2>2. msg'[m] = r /\ obj'[m] = n
      BY <2>1 DEF MsgTo, ObjTo
  <2>3. OthersRun(w) /\ run'[w].task = t /\ run'[w].at \in {"need_file", "extracted"}
        /\ (run'[w].at = "extracted" => run'[w].got.of # 0)
    <3>1. msg[m].content.how = "speech" => msg[m].content.of # 0
        BY <1>2 DEF Calm, CalmRow, Nothing
    <3> QED BY <2>1, <3>1 DEF Begins
  <2>4. \A v \in Workers : Works(v, m) => Pool[v] = "fetch" \/ (Pool[v] = "process" /\ run[v].at = "hand_over")
    <3>1. ASSUME NEW v \in Workers, Works(v, m)
          PROVE Pool[v] = "fetch" \/ (Pool[v] = "process" /\ run[v].at = "hand_over")
      <4>1. CalmWorker(v, m) /\ Pool[v] \in Stages
          BY <1>2, <3>1, MediaAssumption DEF Calm, CalmWorkers, MediaAssumption
      <4> QED BY <2>1, <4>1 DEF CalmWorker, Stages
    <3> QED BY <3>1
  <2>5. \A v \in Workers : Works(v, m) => run[v].at # "downloading"
      BY <1>2 DEF Calm, CalmWorkers, CalmWorker
  <2>6. \A v \in Workers : ~Holds(v, m)
      BY <2>4, <2>5 DEF Holds, Extracts, Indexes, Loads
  <2>7. CalmRow(m)' /\ CalmQueue(m)'
      BY <1>2, <2>1, <2>2 DEF Calm, CalmRow, CalmQueue, SameMedia
  <2>8. \A v \in Workers : v # w /\ Works(v, m) => CalmWorker(v, m)'
    <3>1. ASSUME NEW v \in Workers, v # w, Works(v, m) PROVE CalmWorker(v, m)'
      <4>1. CalmWorker(v, m) /\ run'[v] = run[v] /\ run[v].at # "downloading"
            /\ (Pool[v] = "fetch" \/ (Pool[v] = "process" /\ run[v].at = "hand_over"))
          BY <1>2, <2>3, <2>4, <2>5, <3>1 DEF Calm, CalmWorkers, OthersRun
      <4> QED BY <1>2, <2>1, <2>2, <4>1 DEF CalmWorker
    <3> QED BY <3>1
  <2>9. CalmWorker(w, m)'
      BY <1>1, <1>2, <2>1, <2>2, <2>3 DEF CalmWorker
  <2> HIDE DEF m
  <2> QED BY <1>2, <2>1, <2>3, <2>6, <2>7, <2>8, <2>9, CalmStep DEF m
<1>5. CASE run' = run /\ Drops(t)
  <2>1. MsgTo(m, msg[m]) /\ ObjTo(m, obj[m])
      BY <1>2, <1>5 DEF Drops
  <2>2. msg' = msg /\ obj' = obj
      BY <2>1 DEF MsgTo, ObjTo, MediaTypes, Rows
  <2> QED BY <1>2, <1>5, <2>2, CalmDrop
<1> QED BY <1>1, <1>3, <1>4, <1>5

LEMMA CalmTakeIndex ==
  ASSUME MediaTypes, CalmParts, NEW w \in Workers, NEW t, TakeIndex(w, t) PROVE CalmParts'
<1> DEFINE m == t.msg
<1>1. /\ Takes(w, t) /\ Pool[w] = "index"
      /\ Indexing(w, t) \/ (run' = run /\ Drops(t))
    BY TakeIndexEffect
<1>2. /\ m \in Messages /\ Calm(m) /\ ~t.again /\ run[w] = Idle /\ obj[m].file # 0
      /\ (\A q \in BagToSet(queue') : q \in BagToSet(queue) \/ q.msg = m)
      /\ selected' = selected /\ BagToSet(queue') \subseteq BagToSet(queue)
    BY <1>1, CalmTaken DEF Takes
<1>3. CASE Indexing(w, t)
  <2>1. PICK r, n :
          /\ MsgTo(m, r) /\ ObjTo(m, n) /\ SameMedia(msg[m], r)
          /\ r.status = "processing" /\ r.started = "recent"
          /\ obj[m].stage = "index" /\ n.status = "indexing" /\ n.stage = "index" /\ n.file = obj[m].file
          /\ obj[m].status \in {"cached", "retry_wait", "failed"}
          /\ Begins(w, t, "indexing", msg[m].content, "none")
      BY <1>2, <1>3 DEF Indexing
  <2>2. msg'[m] = r /\ obj'[m] = n
      BY <2>1 DEF MsgTo, ObjTo
  <2>3. OthersRun(w) /\ run'[w].task = t /\ run'[w].at = "indexing" /\ run'[w].got.of # 0
      BY <1>2, <2>1 DEF Begins, Calm, CalmRow
  <2>4. ASSUME NEW v \in Workers, Works(v, m)
        PROVE  /\ CalmWorker(v, m) /\ run[v].at # "downloading"
               /\ Pool[v] = "fetch" \/ (Pool[v] = "process" /\ run[v].at = "hand_over")
    <3>1. CalmWorker(v, m) /\ Pool[v] \in Stages
        BY <1>2, <2>4, MediaAssumption DEF Calm, CalmWorkers, MediaAssumption
    <3> QED BY <1>2, <2>1, <3>1 DEF CalmWorker, Stages
  <2>5. \A v \in Workers : ~Holds(v, m)
      BY <2>4 DEF Holds, Extracts, Indexes, Loads
  <2>6. CalmRow(m)' /\ CalmQueue(m)'
      BY <1>2, <2>1, <2>2 DEF Calm, CalmRow, CalmQueue, SameMedia
  <2>7. ASSUME NEW v \in Workers, v # w, Works(v, m) PROVE CalmWorker(v, m)'
    <3>1. run'[v] = run[v]
        BY <2>3, <2>7 DEF OthersRun
    <3> QED BY <1>2, <2>1, <2>2, <2>4, <2>7, <3>1 DEF CalmWorker
  <2>8. CalmWorker(w, m)'
      BY <1>1, <1>2, <2>1, <2>2, <2>3 DEF CalmWorker
  <2> HIDE DEF m
  <2> QED BY <1>2, <2>1, <2>3, <2>5, <2>6, <2>7, <2>8, CalmStep DEF m
<1>4. CASE run' = run /\ Drops(t)
  <2>1. MsgTo(m, msg[m]) /\ ObjTo(m, obj[m])
      BY <1>2, <1>4 DEF Drops
  <2>2. msg' = msg /\ obj' = obj
      BY <2>1 DEF MsgTo, ObjTo, MediaTypes, Rows
  <2> QED BY <1>2, <1>4, <2>2, CalmDrop
<1> QED BY <1>1, <1>3, <1>4

\* The worker w is at work on m: what a step of its own starts from.
LEMMA CalmAtWork ==
  ASSUME MediaTypes, CalmParts, NEW w \in Workers, run[w] # Idle, NEW m, m = run[w].task.msg
  PROVE  /\ m \in Messages /\ Calm(m) /\ CalmRow(m) /\ CalmQueue(m) /\ CalmWorker(w, m) /\ ~run[w].task.again
         /\ selected /\ Works(w, m) /\ Pool[w] \in Stages
         /\ (obj[m].status = "absent" => obj[m].file = 0)
         /\ \A v \in Workers : Holds(w, m) /\ Holds(v, m) => v = w
<1>1. m \in Messages /\ Works(w, m) /\ Pool[w] \in Stages
    BY WorkerTypes DEF Works
<1>2. Calm(m) /\ selected
    BY <1>1 DEF CalmParts
<1>3. obj[m].status = "absent" => obj[m].file = 0
    BY <1>1, ConstantRows DEF MediaTypes, Rows
<1> QED BY <1>1, <1>2, <1>3 DEF Calm, CalmWorkers

LEMMA CalmHit ==
  ASSUME MediaTypes, CalmParts, NEW w \in Workers, Hit(w) PROVE CalmParts'
<1>1. PICK m : m = run[w].task.msg
    OBVIOUS
<1>2. /\ run[w] # Idle /\ run[w].at = "need_file" /\ obj[m].file \in Media /\ HasFile(w, obj[m].file)
      /\ UNCHANGED <<msg, obj, selected, queue>>
    BY <1>1, HitEffect
<1>3. m \in Messages /\ Calm(m) /\ CalmWorker(w, m) /\ ~run[w].task.again /\ obj[m].file # 0 /\ Works(w, m)
    BY <1>1, <1>2, CalmAtWork, MediaAre
<1>4. MsgTo(m, msg[m]) /\ ObjTo(m, obj[m])
    BY <1>2, <1>3, MsgIs, ObjIs DEF MediaTypes
<1>5. OthersRun(w) /\ run'[w] # Idle /\ run'[w].task = run[w].task
      /\ \/ Pool[w] = "fetch" /\ run'[w].at = "hand_over"
         \/ Pool[w] = "process" /\ run'[w].at = "extracting" /\ run'[w].got.of = obj[m].file
    BY <1>2 DEF HasFile, GoesOn
<1>6. CalmRow(m)' /\ CalmQueue(m)'
    BY <1>2, <1>3 DEF Calm, CalmRow, CalmQueue
<1>7. \A v \in Workers : v # w /\ Works(v, m) => CalmWorker(v, m)'
    BY <1>2, <1>3, <1>5 DEF Calm, CalmWorkers, CalmWorker, OthersRun
<1>8. CalmWorker(w, m)'
    BY <1>2, <1>3, <1>5 DEF CalmWorker
<1>9. Holds(w, m)' => Holds(w, m)
    BY <1>2, <1>3, <1>5 DEF Holds, Extracts, Indexes, Loads
<1> QED BY <1>1, <1>2, <1>3, <1>4, <1>5, <1>6, <1>7, <1>8, <1>9, CalmStep

LEMMA CalmDownload ==
  ASSUME MediaTypes, CalmParts, NEW w \in Workers, Download(w) PROVE CalmParts'
<1>1. PICK m : m = run[w].task.msg
    OBVIOUS
<1>2. /\ run[w] # Idle /\ run[w].at = "need_file" /\ obj[m].file = 0 /\ ~Downloads(m)
      /\ GoesOn(w, "downloading", [of |-> msg[m].media, how |-> run[w].how])
      /\ UNCHANGED <<msg, selected, queue>>
    BY <1>1, DownloadEffect
<1>3. PICK n : ObjTo(m, n) /\ n.stage = "fetch" /\ n.file = 0
    BY <1>1, DownloadEffect
<1>4. m \in Messages /\ Calm(m) /\ CalmWorker(w, m) /\ ~run[w].task.again /\ Works(w, m)
    BY <1>1, <1>2, CalmAtWork
<1>5. MsgTo(m, msg[m]) /\ obj'[m] = n
    BY <1>2, <1>3, <1>4, MsgIs DEF MediaTypes, ObjTo
<1>6. OthersRun(w) /\ run'[w] # Idle /\ run'[w].task = run[w].task
      /\ run'[w].at = "downloading" /\ run'[w].got.of = msg[m].media
    BY <1>2 DEF GoesOn
<1>7. CalmRow(m)' /\ CalmQueue(m)'
    BY <1>2, <1>3, <1>4, <1>5 DEF Calm, CalmRow, CalmQueue
<1>8. ASSUME NEW v \in Workers, Works(v, m)
      PROVE CalmWorker(v, m) /\ Pool[v] = "fetch" /\ run[v].at # "hand_over" /\ ~Holds(v, m)
  <2>1. CalmWorker(v, m) /\ ~In(v, "downloading")
      BY <1>2, <1>4, <1>8 DEF Calm, CalmWorkers, Downloads
  <2>2. Pool[v] = "fetch" /\ run[v].at # "hand_over"
      BY <1>2, <2>1 DEF CalmWorker
  <2> QED BY <2>1, <2>2 DEF Holds, Extracts, Indexes, Loads, In
<1>9. \A v \in Workers : v # w /\ Works(v, m) => CalmWorker(v, m)'
    BY <1>2, <1>3, <1>5, <1>6, <1>8 DEF CalmWorker, OthersRun
<1>10. CalmWorker(w, m)'
    BY <1>2, <1>3, <1>4, <1>5, <1>6, <1>8 DEF CalmWorker
<1>11. \A v \in Workers : ~Holds(v, m)
    BY <1>8 DEF Holds, Extracts, Indexes, Loads
<1> QED BY <1>1, <1>2, <1>3, <1>4, <1>5, <1>6, <1>7, <1>9, <1>10, <1>11, CalmStep

LEMMA CalmDownloaded ==
  ASSUME MediaTypes, CalmParts, NEW w \in Workers, Downloaded(w) PROVE CalmParts'
<1>1. PICK m : m = run[w].task.msg
    OBVIOUS
<1>2. /\ run[w] # Idle /\ run[w].at = "downloading" /\ HasFile(w, msg[m].media) /\ msg[m].media \in Media
      /\ UNCHANGED <<msg, selected, queue>>
    BY <1>1, DownloadedEffect
<1>3. PICK n : ObjTo(m, n) /\ n.stage = "extraction" /\ n.file = msg[m].media
    BY <1>1, DownloadedEffect
<1>4. m \in Messages /\ Calm(m) /\ CalmWorker(w, m) /\ ~run[w].task.again /\ Works(w, m) /\ n.file # 0
      /\ \A v \in Workers : Holds(w, m) /\ Holds(v, m) => v = w
    BY <1>1, <1>2, <1>3, CalmAtWork, MediaAre
<1>5. MsgTo(m, msg[m]) /\ obj'[m] = n
    BY <1>2, <1>3, <1>4, MsgIs DEF MediaTypes, ObjTo
<1>6. Pool[w] = "fetch" /\ obj[m].file = 0
    BY <1>2, <1>4 DEF CalmWorker
<1>7. OthersRun(w) /\ run'[w] # Idle /\ run'[w].task = run[w].task /\ run'[w].at = "hand_over"
    BY <1>2, <1>6 DEF HasFile, GoesOn
<1>8. CalmRow(m)' /\ CalmQueue(m)'
    BY <1>2, <1>3, <1>4, <1>5 DEF Calm, CalmRow, CalmQueue
<1>9. ASSUME NEW v \in Workers, v # w, Works(v, m) PROVE CalmWorker(v, m)'
  <2>1. CalmWorker(v, m) /\ ~Holds(v, m)
      BY <1>2, <1>4, <1>9 DEF Calm, CalmWorkers, Holds, Loads
  <2>2. Pool[v] = "fetch" /\ run[v].at # "downloading" /\ run[v].at \notin {"extracting", "extracted"}
    <3>1. Pool[v] = "fetch" /\ run[v] # Idle
        BY <1>6, <1>9, <2>1 DEF CalmWorker, Works
    <3> QED BY <1>9, <2>1, <3>1, WorkerTypes DEF Holds, Loads
  <2>3. run'[v] = run[v]
      BY <1>7, <1>9 DEF OthersRun
  <2> QED BY <1>4, <1>5, <2>2, <2>3 DEF CalmWorker
<1>10. CalmWorker(w, m)' /\ ~Holds(w, m)'
    BY <1>4, <1>5, <1>6, <1>7 DEF CalmWorker, Holds, Extracts, Indexes, Loads
<1> QED BY <1>1, <1>2, <1>3, <1>4, <1>5, <1>7, <1>8, <1>9, <1>10, CalmStep

\* A worker that extracts or indexes is alone.
LEMMA CalmAlone ==
  ASSUME MediaTypes, CalmParts, NEW w \in Workers, NEW m, m = run[w].task.msg, run[w] # Idle,
         Holds(w, m), NEW v \in Workers, v # w, Works(v, m), obj[m].file # 0
  PROVE  /\ CalmWorker(v, m) /\ Pool[v] \in {"fetch", "process"} /\ run[v].at # "downloading"
         /\ Pool[v] = "process" => run[v].at = "hand_over"
         /\ run[v].at \notin {"extracting", "extracted"}
<1>1. CalmWorker(v, m) /\ ~Holds(v, m) /\ run[v] # Idle
    BY CalmAtWork DEF Calm, CalmWorkers, Works
<1>2. Pool[v] \in Stages
    BY MediaAssumption DEF MediaAssumption
<1>3. /\ Pool[v] \in {"fetch", "process"} /\ run[v].at # "downloading"
      /\ Pool[v] = "process" => run[v].at = "hand_over"
    BY <1>1, <1>2 DEF Holds, Extracts, Indexes, Loads, Stages
<1> QED BY <1>1, <1>3, WorkerTypes

LEMMA CalmExtract ==
  ASSUME MediaTypes, CalmParts, NEW w \in Workers, Extract(w) PROVE CalmParts'
<1>1. PICK m : m = run[w].task.msg
    OBVIOUS
<1>2. /\ run[w] # Idle /\ run[w].at = "extracting" /\ GoesOn(w, "extracted", run[w].got)
      /\ UNCHANGED <<msg, selected, queue>> /\ Pool[w] = "process"
    BY <1>1, ExtractEffect, WorkerTypes
<1>3. PICK n : /\ ObjTo(m, n) /\ n.status = obj[m].status /\ n.file = obj[m].file
               /\ n = obj[m] \/ n.stage = "summary"
    BY <1>1, ExtractEffect
<1>4. m \in Messages /\ Calm(m) /\ CalmWorker(w, m) /\ ~run[w].task.again /\ Works(w, m) /\ Holds(w, m)
    BY <1>1, <1>2, CalmAtWork DEF Holds, Extracts
<1>5. MsgTo(m, msg[m]) /\ obj'[m] = n
    BY <1>2, <1>3, <1>4, MsgIs DEF MediaTypes, ObjTo
<1>6. OthersRun(w) /\ run'[w] # Idle /\ run'[w].task = run[w].task /\ run'[w].at = "extracted"
      /\ run'[w].got = run[w].got
    BY <1>2 DEF GoesOn
<1>7. CalmRow(m)' /\ CalmQueue(m)'
    BY <1>2, <1>3, <1>4, <1>5 DEF Calm, CalmRow, CalmQueue
<1>8. obj[m].file # 0
    BY <1>2, <1>4 DEF CalmWorker
<1>9. ASSUME NEW v \in Workers, v # w, Works(v, m) PROVE CalmWorker(v, m)'
  <2>1. /\ CalmWorker(v, m) /\ Pool[v] \in {"fetch", "process"} /\ run[v].at # "downloading"
        /\ Pool[v] = "process" => run[v].at = "hand_over"
        /\ run[v].at \notin {"extracting", "extracted"} /\ run'[v] = run[v]
      BY <1>1, <1>2, <1>4, <1>6, <1>8, <1>9, CalmAlone DEF OthersRun
  <2> QED BY <1>3, <1>5, <1>8, <2>1 DEF CalmWorker
<1>10. CalmWorker(w, m)'
    BY <1>2, <1>3, <1>4, <1>5, <1>6, <1>8 DEF CalmWorker
<1> QED BY <1>1, <1>2, <1>3, <1>4, <1>5, <1>6, <1>7, <1>9, <1>10, CalmStep

LEMMA CalmCheckpoint ==
  ASSUME MediaTypes, CalmParts, NEW w \in Workers, Checkpoint(w) PROVE CalmParts'
<1>1. PICK m : m = run[w].task.msg
    OBVIOUS
<1>2. /\ run[w] # Idle /\ run[w].at = "extracted" /\ GoesOn(w, "hand_over", Nothing)
      /\ UNCHANGED <<selected, queue>> /\ Pool[w] = "process"
    BY <1>1, CheckpointEffect, WorkerTypes
<1>3. PICK r : MsgTo(m, r) /\ r.content = run[w].got
    BY <1>1, CheckpointEffect
<1>4. PICK n : ObjTo(m, n) /\ n.file = obj[m].file
    BY <1>1, CheckpointEffect
<1>5. m \in Messages /\ Calm(m) /\ CalmWorker(w, m) /\ ~run[w].task.again /\ Works(w, m) /\ Holds(w, m)
    BY <1>1, <1>2, CalmAtWork DEF Holds, Extracts
<1>6. msg'[m] = r /\ obj'[m] = n
    BY <1>3, <1>4 DEF MsgTo, ObjTo
<1>7. OthersRun(w) /\ run'[w] # Idle /\ run'[w].task = run[w].task /\ run'[w].at = "hand_over"
    BY <1>2 DEF GoesOn
<1>8. obj[m].file # 0 /\ run[w].got.of # 0
    BY <1>2, <1>5 DEF CalmWorker
<1>9. CalmRow(m)' /\ CalmQueue(m)'
    BY <1>2, <1>3, <1>4, <1>5, <1>6, <1>8 DEF Calm, CalmRow, CalmQueue
<1>10. ASSUME NEW v \in Workers, v # w, Works(v, m) PROVE CalmWorker(v, m)'
  <2>1. /\ Pool[v] \in {"fetch", "process"} /\ run[v].at # "downloading"
        /\ Pool[v] = "process" => run[v].at = "hand_over"
        /\ run[v].at \notin {"extracting", "extracted"} /\ run'[v] = run[v]
      BY <1>1, <1>2, <1>5, <1>7, <1>8, <1>10, CalmAlone DEF OthersRun
  <2> QED BY <1>4, <1>6, <1>8, <2>1 DEF CalmWorker
<1>11. CalmWorker(w, m)' /\ ~Holds(w, m)'
    BY <1>2, <1>4, <1>6, <1>7, <1>8 DEF CalmWorker, Holds, Extracts, Indexes, Loads
<1> QED BY <1>1, <1>2, <1>3, <1>4, <1>5, <1>7, <1>9, <1>10, <1>11, CalmStep

LEMMA CalmHandOver ==
  ASSUME MediaTypes, CalmParts, NEW w \in Workers, HandOver(w) PROVE CalmParts'
<1>1. PICK m : m = run[w].task.msg
    OBVIOUS
<1>2. /\ run[w] # Idle /\ run[w].at = "hand_over" /\ Stops(w) /\ UNCHANGED <<msg, obj, selected>>
      /\ BagToSet(queue') = BagToSet(queue) \cup {NextTask(w)}
    BY HandOverEffect
<1>3. m \in Messages /\ Calm(m) /\ CalmWorker(w, m) /\ NextTask(w).msg = m /\ ~NextTask(w).again
    BY <1>1, <1>2, CalmAtWork, NextTaskIs
<1>4. MsgTo(m, msg[m]) /\ ObjTo(m, obj[m]) /\ obj[m].file # 0
    BY <1>2, <1>3, MsgIs, ObjIs DEF MediaTypes, CalmWorker
<1>5. CalmRow(m)' /\ CalmQueue(m)'
    BY <1>2, <1>3, <1>4 DEF Calm, CalmRow, CalmQueue
<1>6. \A v \in Workers : v # w /\ Works(v, m) => CalmWorker(v, m)'
    BY <1>2, <1>3 DEF Calm, CalmWorkers, CalmWorker, Stops, OthersRun
<1>7. run'[w] = Idle /\ OthersRun(w) /\ ~Holds(w, m)'
    BY <1>2 DEF Stops, Holds, Extracts, Indexes, Loads, Works
<1> QED BY <1>1, <1>2, <1>3, <1>4, <1>5, <1>6, <1>7, CalmStep

LEMMA CalmFinalize ==
  ASSUME MediaTypes, CalmParts, NEW w \in Workers, Finalize(w) PROVE CalmParts'
<1>1. PICK m : m = run[w].task.msg
    OBVIOUS
<1>2. /\ run[w] # Idle /\ run[w].at = "indexing" /\ run[w].got.of # 0 /\ Stops(w)
      /\ UNCHANGED <<selected, queue>> /\ Pool[w] = "index"
    BY <1>1, FinalizeEffect, WorkerTypes
<1>3. PICK r : MsgTo(m, r) /\ r.content = run[w].got
    BY <1>1, FinalizeEffect
<1>4. PICK n : ObjTo(m, n) /\ n.file = obj[m].file
    BY <1>1, FinalizeEffect
<1>5. m \in Messages /\ Calm(m) /\ CalmWorker(w, m) /\ Works(w, m) /\ Holds(w, m)
    BY <1>1, <1>2, CalmAtWork DEF Holds, Indexes
<1>6. msg'[m] = r /\ obj'[m] = n
    BY <1>3, <1>4 DEF MsgTo, ObjTo
<1>7. obj[m].file # 0
    BY <1>2, <1>5 DEF CalmWorker
<1>8. CalmRow(m)' /\ CalmQueue(m)'
    BY <1>2, <1>3, <1>4, <1>5, <1>6, <1>7 DEF Calm, CalmRow, CalmQueue
<1>9. ASSUME NEW v \in Workers, v # w, Works(v, m) PROVE CalmWorker(v, m)'
  <2>1. /\ Pool[v] \in {"fetch", "process"} /\ run[v].at # "downloading"
        /\ Pool[v] = "process" => run[v].at = "hand_over"
        /\ run[v].at \notin {"extracting", "extracted"} /\ run'[v] = run[v]
      BY <1>1, <1>2, <1>5, <1>7, <1>9, CalmAlone DEF OthersRun, Stops
  <2> QED BY <1>4, <1>6, <1>7, <2>1 DEF CalmWorker
<1>10. run'[w] = Idle /\ OthersRun(w) /\ ~Holds(w, m)'
    BY <1>2 DEF Stops, Holds, Extracts, Indexes, Loads, Works
<1> QED BY <1>1, <1>2, <1>3, <1>4, <1>5, <1>8, <1>9, <1>10, CalmStep

\* What the code refuses when only requests come: a second download of one file.
LEMMA CalmRefused ==
  ASSUME MediaTypes, CalmParts, NEW w \in Workers, run[w] # Idle, Refused(w), NEW m, m = run[w].task.msg
  PROVE  run[w].at = "need_file" /\ obj[m].file = 0 /\ Pool[w] = "fetch"
<1>1. CalmWorker(w, m) /\ selected /\ (obj[m].status # "absent" => obj[m] # NoObject)
    BY CalmAtWork, ConstantRows
<1>2. ~(run[w].at = "extracting" /\ ~Stored(m)) /\ ~(run[w].at = "downloading" /\ ~Current(w))
    BY <1>1, WorkerTypes DEF CalmWorker, Stored, Current
<1>3. ~(run[w].at = "indexing" /\ ~Claimed(w))
    BY <1>1, WorkerTypes DEF CalmWorker, Claimed
<1>4. run[w].at = "need_file" /\ obj[m].file = 0
    BY <1>1, <1>2, <1>3 DEF Refused, In
<1> QED BY <1>1, <1>4 DEF CalmWorker

LEMMA CalmFails ==
  ASSUME MediaTypes, CalmParts, NEW w \in Workers, Fails(w), Refused(w) PROVE CalmParts'
<1>1. PICK m : m = run[w].task.msg
    OBVIOUS
<1>2. run[w] # Idle /\ Stops(w) /\ Resent(run[w].task) /\ selected' = selected
    BY DEF Fails
<1>3. PICK r, n : /\ MsgTo(m, r) /\ ObjTo(m, n) /\ SameMedia(msg[m], r)
                  /\ n.stage = obj[m].stage /\ n.file = obj[m].file
    BY <1>1 DEF Fails, Marks
<1>4. msg'[m] = r /\ obj'[m] = n
    BY <1>1, <1>2, <1>3, CalmAtWork DEF MsgTo, ObjTo
<1>5. m \in Messages /\ Calm(m) /\ obj[m].file = 0 /\ run[w].task.stage = "fetch"
    BY <1>1, <1>2, CalmAtWork, CalmRefused, WorkerTypes
<1>6. \A q \in BagToSet(queue') : q \in BagToSet(queue) \/ (q.msg = m /\ q.stage = "fetch" /\ ~q.again)
    BY <1>1, <1>2, <1>5 DEF Resent
<1>7. CalmRow(m)' /\ CalmQueue(m)'
    BY <1>3, <1>4, <1>5, <1>6 DEF Calm, CalmRow, CalmQueue, SameMedia
<1>8. ASSUME NEW v \in Workers, v # w, Works(v, m) PROVE CalmWorker(v, m)'
  <2>1. CalmWorker(v, m) /\ run'[v] = run[v] /\ Pool[v] = "fetch"
      BY <1>2, <1>5, <1>8 DEF Calm, CalmWorkers, CalmWorker, Stops, OthersRun
  <2> QED BY <1>3, <1>4, <1>5, <2>1 DEF CalmWorker, SameMedia
<1>9. run'[w] = Idle /\ OthersRun(w) /\ ~Holds(w, m)'
    BY <1>2 DEF Stops, Holds, Extracts, Indexes, Loads, Works
<1> QED BY <1>1, <1>2, <1>3, <1>5, <1>6, <1>7, <1>8, <1>9, CalmStep

\* A step of the environment about m, which leaves the workers alone.
LEMMA CalmOutside ==
  ASSUME MediaTypes, CalmParts, NEW m \in Messages, NEW r, NEW o, MsgTo(m, r), ObjTo(m, o), run' = run,
         \A t \in BagToSet(queue') : t \in BagToSet(queue) \/ t.msg = m,
         selected' = selected, CalmRow(m)', CalmQueue(m)',
         \A v \in Workers : Works(v, m) => CalmWorker(v, m)'
  PROVE  CalmParts'
<1>1. ASSUME NEW d \in Messages, d # m PROVE Calm(d)'
    BY <1>1, CalmOther DEF CalmParts
<1>2. Calm(m) /\ selected
    BY DEF CalmParts
<1>3. \A v \in Workers : (Works(v, m)' <=> Works(v, m)) /\ (Holds(v, m)' <=> Holds(v, m))
    BY DEF Works, Holds, Extracts, Indexes, Loads
<1>4. CalmWorkers(m)'
    BY <1>2, <1>3 DEF Calm, CalmWorkers
<1> QED BY <1>1, <1>2, <1>4 DEF CalmParts, Calm

LEMMA CalmAge ==
  ASSUME MediaTypes, CalmParts, NEW m \in Messages, Age(m), ~Active(m) PROVE CalmParts'
<1>1. UNCHANGED <<obj, selected, queue, run>>
    BY AgeEffect
<1>2. PICK r : MsgTo(m, r) /\ SameMedia(msg[m], r)
    BY AgeEffect
<1>3. ObjTo(m, obj[m]) /\ msg'[m] = r /\ Calm(m)
    BY <1>1, <1>2, ObjIs DEF MediaTypes, MsgTo, CalmParts
<1>4. CalmRow(m)' /\ CalmQueue(m)'
    BY <1>1, <1>2, <1>3 DEF Calm, CalmRow, CalmQueue, SameMedia
<1>5. \A v \in Workers : ~Works(v, m)
    BY DEF Active
<1> QED BY <1>1, <1>2, <1>3, <1>4, <1>5, CalmOutside

LEMMA CalmPrepare ==
  ASSUME MediaTypes, CalmParts, NEW m \in Messages, Prepare(m) PROVE CalmParts'
<1>1. UNCHANGED <<selected, run>>
    BY PrepareEffect
<1>2. PICK r, n :
        /\ MsgTo(m, r) /\ ObjTo(m, n) /\ SameMedia(msg[m], r)
        /\ n.file = obj[m].file /\ n.stage = obj[m].stage /\ n.status # "absent"
        /\ \/ /\ msg[m].status \notin {"pending", "queued", "processing"} /\ r.status = "pending"
              /\ BagToSet(queue') = BagToSet(queue) \cup {FirstTask(m, "fetch")}
           \/ /\ r = msg[m] /\ queue' = queue
              /\ n.status = obj[m].status
                   \/ obj[m].status \in {"absent", "ready_download_only", "retry_wait"}
    BY PrepareEffect
<1>3. msg'[m] = r /\ obj'[m] = n /\ Calm(m)
    BY <1>2 DEF MsgTo, ObjTo, CalmParts
<1>4. \A t \in BagToSet(queue') : t \in BagToSet(queue) \/ (t.msg = m /\ t.stage = "fetch" /\ ~t.again)
    BY <1>2, FirstTaskIs DEF Stages
<1>5. CalmRow(m)' /\ CalmQueue(m)'
    BY <1>2, <1>3, <1>4 DEF Calm, CalmRow, CalmQueue, SameMedia
<1>6. ASSUME NEW v \in Workers, Works(v, m) PROVE CalmWorker(v, m)'
  <2>1. CalmWorker(v, m) /\ run'[v] = run[v]
      BY <1>1, <1>3, <1>6 DEF Calm, CalmWorkers
  <2>2. CASE msg[m].status # "processing"
      BY <1>2, <1>3, <2>1, <2>2 DEF CalmWorker, SameMedia
  <2>3. CASE msg[m].status = "processing"
      BY <1>2, <1>3, <2>1, <2>3 DEF CalmWorker, SameMedia
  <2> QED BY <2>2, <2>3
<1> QED BY <1>1, <1>2, <1>4, <1>5, <1>6, CalmOutside

LEMMA CalmBeat == ASSUME MediaTypes, CalmParts, Beat PROVE CalmParts'
<1>1. PICK picked \in SUBSET Messages : \E sent, lost \in SUBSET picked : Dispatch(picked, sent, lost)
    BY DEF Beat
<1>2. PICK sent \in SUBSET picked, lost \in SUBSET picked : Dispatch(picked, sent, lost)
    BY <1>1
<1>3. /\ UNCHANGED <<selected, run>> /\ \A m \in Messages : Dispatches(m)
      /\ BagToSet(queue') = BagToSet(queue) \cup {FirstTask(m, "fetch") : m \in sent}
    BY <1>2, DispatchEffect
<1>4. \A t \in BagToSet(queue') : t \in BagToSet(queue) \/ (t.stage = "fetch" /\ ~t.again)
    BY <1>3, FirstTaskIs DEF Stages
<1>5. ASSUME NEW m \in Messages PROVE Calm(m)'
  <2>1. Dispatches(m) /\ Calm(m)
      BY <1>3, <1>5 DEF CalmParts
  <2>2. CalmRow(m)' /\ CalmQueue(m)'
      BY <1>4, <2>1 DEF Dispatches, SameMedia, Calm, CalmRow, CalmQueue
  <2>3. ASSUME NEW v \in Workers, Works(v, m) PROVE (~run[v].task.again /\ CalmWorker(v, m))'
    <3>1. CalmWorker(v, m) /\ run'[v] = run[v] /\ ~run[v].task.again
        BY <1>3, <2>1, <2>3 DEF Calm, CalmWorkers
    <3>2. ASSUME msg[m].status = "processing", msg[m].started = "recent"
          PROVE  msg'[m].status = msg[m].status /\ msg'[m].started = msg[m].started /\ obj'[m] = obj[m]
        BY <2>1, <3>2 DEF Dispatches, Stale
    <3> QED BY <2>1, <3>1, <3>2 DEF CalmWorker, Dispatches, SameMedia
  <2>4. \A v \in Workers : (Works(v, m)' <=> Works(v, m)) /\ (Holds(v, m)' <=> Holds(v, m))
      BY <1>3 DEF Works, Holds, Extracts, Indexes, Loads
  <2>5. CalmWorkers(m)'
      BY <2>1, <2>3, <2>4 DEF Calm, CalmWorkers
  <2> QED BY <2>2, <2>5 DEF Calm
<1>6. selected'
    BY <1>3 DEF CalmParts
<1> QED BY <1>5, <1>6 DEF CalmParts

LEMMA CalmNext ==
  ASSUME MediaTypes, CalmInv, [Next]_vars PROVE CalmInv'
<1> DEFINE S == Events \ {"prepare"}
<1> SUFFICES ASSUME Unused(S)' PROVE CalmParts'
    BY DEF CalmInv
<1>1. Unused(S) /\ \A e \in S : left'[e] = left[e] /\ left[e] \in Nat
    BY LeftNeverRises, UnusedBefore
<1>2. CalmParts
    BY <1>1 DEF CalmInv
<1>3. \A e \in {"edit", "crash", "select", "broker", "error", "slow", "prune"} : e \in S
    BY DEF Events
<1> HIDE DEF S
<1>4. \A e \in {"edit", "crash", "select", "broker", "error", "slow", "prune"} :
        left'[e] = left[e] /\ left[e] \in Nat
    BY <1>1, <1>3
<1>5. CASE Beat
    BY <1>2, <1>5, CalmBeat
<1>6. ASSUME NEW w \in Workers, Work(w) PROVE CalmParts'
  <2>1. ASSUME NEW error, Raise(w, error) PROVE CalmParts'
    <3>1. Fails(w) /\ Refused(w)
        BY <1>4, <2>1, RaiseEffect
    <3> QED BY <1>2, <3>1, CalmFails
  <2> QED BY <1>2, <1>6, <2>1, CalmTakeFetch, CalmTakeProcess, CalmTakeIndex, CalmHit, CalmDownload,
             CalmDownloaded, CalmExtract, CalmCheckpoint, CalmHandOver, CalmFinalize DEF Work
<1>7. CASE Environment
  <2>1. ASSUME NEW w \in Workers, Crash(w) \/ BrokerFails(w) PROVE FALSE
      BY <1>4, <2>1, CrashEffect, BrokerEffect
  <2>2. ASSUME NEW t, Return(t) PROVE FALSE
      BY <1>4, <2>2, ReturnEffect
  <2>3. ASSUME NEW m \in Messages, Prune(m) PROVE FALSE
      BY <1>4, <2>3, PruneEffect
  <2>4. ASSUME NEW m \in Messages, NEW type \in Types, Edit(m, type) PROVE FALSE
      BY <1>4, <2>4, EditEffect
  <2>5. CASE Select
      BY <1>4, <2>5, SelectEffect
  <2>6. ASSUME NEW m \in Messages, Age(m) PROVE CalmParts'
    <3>1. ~Active(m)
        BY <1>4, <2>6, AgeEffect
    <3> QED BY <1>2, <2>6, <3>1, CalmAge
  <2> QED BY <1>2, <1>7, <2>1, <2>2, <2>3, <2>4, <2>5, <2>6, CalmPrepare DEF Environment
<1>8. CASE UNCHANGED vars
    BY <1>2, <1>8, CalmDrop DEF vars
<1> QED BY <1>5, <1>6, <1>7, <1>8 DEF Next

LEMMA CalmInit == ASSUME Init PROVE CalmInv
<1>1. ASSUME NEW m \in Messages PROVE Calm(m)
  <2>1. obj[m] = NoObject /\ msg[m].content = Nothing /\ BagToSet(queue) = {} /\ \A w \in Workers : run[w] = Idle
      BY DEF Init, EmptyBag, SetToBag, BagToSet
  <2>2. \A w \in Workers : ~Works(w, m) /\ ~Holds(w, m)
      BY <2>1 DEF Works, Holds, Extracts, Indexes, Loads
  <2> QED BY <2>1, <2>2 DEF Calm, CalmRow, CalmQueue, CalmWorkers, NoObject
<1> QED BY <1>1 DEF Init, CalmInv, CalmParts

\* Whatever duplicate tasks requests and the beat make of a message, two workers never
\* extract it at once, as long as nothing but requests happens besides.
THEOREM DuplicatesAreClaimedOnce == Spec => []DuplicatesSpendOnce
<1>1. MediaTypes /\ CalmInv => DuplicatesSpendOnce
  <2> SUFFICES ASSUME MediaTypes, CalmParts PROVE OneExtraction
      BY DEF CalmInv, DuplicatesSpendOnce
  <2> SUFFICES ASSUME NEW v \in Workers, NEW w \in Workers, NEW m \in Messages, Works(v, m), Works(w, m),
                      run[v].at \in {"extracting", "extracted"}, run[w].at \in {"extracting", "extracted"}
               PROVE  v = w
      BY DEF OneExtraction
  <2>1. Holds(v, m) /\ Holds(w, m)
      BY WorkerTypes DEF Holds, Extracts, Works
  <2> QED BY <2>1 DEF CalmParts, Calm, CalmWorkers
<1>2. Init => CalmInv
    BY CalmInit
<1>3. MediaTypes /\ CalmInv /\ [Next]_vars => CalmInv'
    BY CalmNext
<1> QED BY <1>1, <1>2, <1>3, TypesAlways, PTL DEF Spec
=============================================================================
