--------------------------- MODULE SyncJobs_proofs ---------------------------
(* Proofs about the history jobs, for any chats, jobs, worker slots and bounds. *)
EXTENDS SyncJobs, TLAPS

-----------------------------------------------------------------------------
(* Rows and messages. *)

Row == [status : Statuses \cup {"absent"}, chat : Chats \cup {Bulk, NoOne},
        old : BOOLEAN, beat : BOOLEAN]
SlotState == [pc : {"idle", "entry", "locked", "started", "between", "syncing", "synced",
                    "release"},
              msg : Messages \cup {NoOne}, sub : Jobs \cup {NoOne},
              left : SUBSET Chats, failed : BOOLEAN]

LEMMA SetTyped ==
  ASSUME NEW jobs \in [Jobs -> Row], NEW j, NEW s \in Statuses
  PROVE  Set(jobs, j, s) \in [Jobs -> Row]
  BY DEF Set, Row

LEMMA MarkTyped ==
  ASSUME NEW jobs \in [Jobs -> Row], NEW j \in Jobs, NEW s \in Statuses
  PROVE  Mark(jobs, j, s) \in [Jobs -> Row]
  BY SetTyped DEF Mark

LEMMA NewTyped ==
  ASSUME NEW jobs \in [Jobs -> Row], NEW j \in Jobs, NEW c \in Chats \cup {Bulk},
         NEW s \in Statuses
  PROVE  New(jobs, j, c, s) \in [Jobs -> Row]
  BY DEF New, Row

LEMMA MarkBeat ==
  ASSUME NEW jobs \in [Jobs -> Row], NEW j, NEW b \in BOOLEAN
  PROVE  [jobs EXCEPT ![j].beat = b] \in [Jobs -> Row]
  BY DEF Row

LEMMA MarkOld ==
  ASSUME NEW jobs \in [Jobs -> Row], NEW j, NEW kept \in BOOLEAN
  PROVE  [jobs EXCEPT ![j].old = @ /\ kept] \in [Jobs -> Row]
  BY DEF Row

LEMMA PutOld ==
  ASSUME NEW jobs \in [Jobs -> Row], NEW j, NEW b \in BOOLEAN
  PROVE  [jobs EXCEPT ![j].old = b] \in [Jobs -> Row]
  BY DEF Row

LEMMA ExpireTyped ==
  ASSUME job \in [Jobs -> Row], NEW c
  PROVE  ExpireStale(c) \in [Jobs -> Row]
<1>1. \A j \in Jobs : Set(job, j, "FAILED")[j] \in Row
  BY SetTyped DEF Statuses, Terminal
<1> QED BY <1>1 DEF ExpireStale

LEMMA AddToBag ==
  ASSUME NEW q, IsABag(q), NEW m
  PROVE  IsABag(BagAdd(q, m)) /\ BagToSet(BagAdd(q, m)) = BagToSet(q) \cup {m}
<1>1. CASE m \in DOMAIN q
  BY <1>1 DEF IsABag, BagAdd, BagToSet
<1>2. CASE m \notin DOMAIN q
  BY <1>2 DEF IsABag, BagAdd, BagToSet
<1> QED BY <1>1, <1>2

LEMMA RemoveFromBag ==
  ASSUME NEW q, IsABag(q), NEW m
  PROVE  IsABag(BagRemove(q, m)) /\ BagToSet(BagRemove(q, m)) \subseteq BagToSet(q)
<1>1. CASE m \notin DOMAIN q
  BY <1>1 DEF BagRemove, BagToSet
<1>2. CASE m \in DOMAIN q /\ q[m] = 1
  BY <1>2 DEF IsABag, BagRemove, BagToSet
<1>3. CASE m \in DOMAIN q /\ q[m] # 1
  BY <1>3 DEF IsABag, BagRemove, BagToSet
<1> QED BY <1>1, <1>2, <1>3

LEMMA EmptyIsABag == IsABag(EmptyBag) /\ BagToSet(EmptyBag) = {}
  BY DEF IsABag, EmptyBag, SetToBag, BagToSet

-----------------------------------------------------------------------------
(* Types.  A slot that works has a message. *)

Handed == \A w \in Workers : Busy(w) => run[w].msg \in Messages

SyncTypes == TypeOK /\ Handed

LEMMA TypesOf ==
  ASSUME SyncTypes
  PROVE  /\ job \in [Jobs -> Row] /\ order \in Seq(Jobs)
         /\ lock \in [job : Jobs \cup {NoOne}, by : Workers \cup {NoOne}]
         /\ IsABag(queue) /\ BagToSet(queue) \subseteq Messages
         /\ run \in [Workers -> SlotState]
         /\ \A w \in Workers : run[w].pc # "idle" =>
              /\ run[w].msg \in Messages /\ Busy(w)
              /\ MyJob(w) \in Jobs /\ run[w].msg.tries \in Nat
         /\ reap \in [todo : SUBSET Jobs, doomed : SUBSET Jobs]
         /\ selected \in SUBSET Chats /\ synced \in SUBSET Chats
         /\ account \in {"active", "closing", "closed"} /\ session \in BOOLEAN
         /\ faults \in 0 .. MaxFaults /\ requests \in 0 .. MaxRequests
  BY ConstantsAssumption DEF SyncTypes, TypeOK, Handed, Row, SlotState, MyJob, Messages,
     ConstantsAssumption, Busy

LEMMA TypesInit == ASSUME Init PROVE SyncTypes
  BY ConstantsAssumption, EmptyIsABag
  DEF Init, SyncTypes, TypeOK, Handed, Absent, Free, Idle, Calm, Busy, ConstantsAssumption

\* The parts of TypeOK that a step may write.
LEMMA TypesFrom ==
  ASSUME job' \in [Jobs -> Row], order' \in Seq(Jobs),
         lock' \in [job : Jobs \cup {NoOne}, by : Workers \cup {NoOne}],
         IsABag(queue'), BagToSet(queue') \subseteq Messages,
         run' \in [Workers -> SlotState],
         \A w \in Workers : run'[w].pc # "idle" => run'[w].msg \in Messages,
         reap' \in [todo : SUBSET Jobs, doomed : SUBSET Jobs],
         selected' \in SUBSET Chats, synced' \in SUBSET Chats,
         account' \in {"active", "closing", "closed"}, session' \in BOOLEAN,
         faults' \in 0 .. MaxFaults, requests' \in 0 .. MaxRequests
  PROVE  SyncTypes'
  BY DEF SyncTypes, TypeOK, Handed, Busy, Row, SlotState

LEMMA FaultTyped ==
  ASSUME SyncTypes, NEW kind, Fault(kind) PROVE faults' \in 0 .. MaxFaults /\ faults' # faults
  BY ConstantsAssumption DEF SyncTypes, TypeOK, Fault, ConstantsAssumption

LEMMA RequestTyped ==
  ASSUME SyncTypes, Request PROVE requests' \in 0 .. MaxRequests
  BY ConstantsAssumption DEF SyncTypes, TypeOK, Request, ConstantsAssumption

LEMMA DelayTyped ==
  ASSUME SyncTypes, NEW j \in Jobs, NEW mode \in Modes, Delay(Message(j, mode))
  PROVE  /\ IsABag(queue') /\ BagToSet(queue') \subseteq Messages
         /\ faults' \in 0 .. MaxFaults
<1>1. Message(j, mode) \in Messages
  BY ConstantsAssumption DEF Message, Messages, ConstantsAssumption
<1> QED BY <1>1, FaultTyped, AddToBag DEF Delay, SyncTypes, TypeOK

LEMMA AgainTyped ==
  ASSUME SyncTypes, NEW w \in Workers, Busy(w), Again(w)
  PROVE  IsABag(queue') /\ BagToSet(queue') \subseteq Messages
<1>1. run[w].msg \in Messages
  BY DEF SyncTypes, Handed
<1>2. run[w].msg.tries < MaxRetries => [run[w].msg EXCEPT !.tries = @ + 1] \in Messages
  BY <1>1, ConstantsAssumption DEF Messages, ConstantsAssumption
<1> QED BY <1>2, AddToBag DEF Again, SyncTypes, TypeOK

\* A slot that goes on keeps its message; one that ends is idle.
LEMMA SlotTyped ==
  ASSUME run \in [Workers -> SlotState], Handed, NEW w \in Workers, Busy(w),
         NEW s \in SlotState, s.msg = run[w].msg, run' = [run EXCEPT ![w] = s]
  PROVE  /\ run' \in [Workers -> SlotState]
         /\ \A v \in Workers : run'[v].pc # "idle" => run'[v].msg \in Messages
  BY DEF Handed, Busy

LEMMA GotoTyped ==
  ASSUME run \in [Workers -> SlotState], Handed, NEW w \in Workers, Busy(w),
         NEW pc \in {"entry", "locked", "started", "between", "syncing", "synced", "release"},
         Goto(w, pc)
  PROVE  /\ run' \in [Workers -> SlotState]
         /\ \A v \in Workers : run'[v].pc # "idle" => run'[v].msg \in Messages
<1>1. [run[w] EXCEPT !.pc = pc] \in SlotState
  BY DEF SlotState
<1>2. [run[w] EXCEPT !.pc = pc].msg = run[w].msg
  BY DEF SlotState
<1>3. run' = [run EXCEPT ![w] = [run[w] EXCEPT !.pc = pc]]
  BY DEF Goto
<1> QED BY <1>1, <1>2, <1>3, SlotTyped

LEMMA EndTyped ==
  ASSUME run \in [Workers -> SlotState], Handed, NEW w \in Workers, End(w)
  PROVE  /\ run' \in [Workers -> SlotState]
         /\ \A v \in Workers : run'[v].pc # "idle" => run'[v].msg \in Messages
  BY DEF SlotState, Handed, Busy, End, Idle

LEMMA RequestsKeepTypes ==
  ASSUME SyncTypes, UserStep PROVE SyncTypes'
<1>1. ASSUME NEW c \in Chats \cup {Bulk}, NEW j \in Jobs, NEW mode \in UserModes,
             StartSync(c, j, mode)
      PROVE  SyncTypes'
  <2>1. mode \in Modes
    BY ConstantsAssumption DEF ConstantsAssumption, Modes
  <2>2. job' \in [Jobs -> Row]
    BY <1>1, TypesOf, ExpireTyped, NewTyped DEF StartSync, Statuses
  <2>3. order' \in Seq(Jobs)
    BY <1>1, TypesOf DEF StartSync
  <2> QED BY <1>1, <2>1, <2>2, <2>3, TypesOf, TypesFrom, RequestTyped, DelayTyped DEF StartSync
<1>2. ASSUME NEW S \in SUBSET Chats, SelectChats(S) PROVE SyncTypes'
  <2>1. selected' \in SUBSET Chats /\ synced' \in SUBSET Chats
    BY <1>2, TypesOf DEF SelectChats
  <2>2. /\ job' \in [Jobs -> Row] /\ order' \in Seq(Jobs)
        /\ IsABag(queue') /\ BagToSet(queue') \subseteq Messages /\ faults' \in 0 .. MaxFaults
    <3>1. CASE UNCHANGED <<job, order, queue, faults>>
      BY <3>1, TypesOf
    <3>2. ASSUME NEW j \in Jobs, job' = New(job, j, Bulk, "PENDING"),
                 order' = Append(order, j), Delay(Message(j, "resume"))
          PROVE  /\ job' \in [Jobs -> Row] /\ order' \in Seq(Jobs)
                 /\ IsABag(queue') /\ BagToSet(queue') \subseteq Messages
                 /\ faults' \in 0 .. MaxFaults
      <4>1. job' \in [Jobs -> Row]
        BY <3>2, TypesOf, NewTyped DEF Statuses
      <4>2. order' \in Seq(Jobs)
        BY <3>2, TypesOf
      <4> QED BY <3>2, <4>1, <4>2, DelayTyped DEF Modes
    <3> QED BY <1>2, <3>1, <3>2 DEF SelectChats
  <2> QED BY <1>2, <2>1, <2>2, TypesOf, TypesFrom, RequestTyped DEF SelectChats
<1>3. CASE Deactivate
  <2>1. \A j \in Jobs : Set(job, j, "CANCELLED")[j] \in Row
    BY TypesOf, SetTyped DEF Statuses, Terminal
  <2>2. job' \in [Jobs -> Row]
    BY <1>3, <2>1, TypesOf DEF Deactivate
  <2> QED BY <1>3, <2>2, TypesOf, TypesFrom, RequestTyped DEF Deactivate
<1>4. CASE Purge
  <2>1. job' \in [Jobs -> Row]
    BY <1>4, TypesOf DEF Purge, Row
  <2> QED BY <1>4, <2>1, TypesOf, TypesFrom DEF Purge, Free
<1>5. CASE Login
  BY <1>5, TypesOf, TypesFrom, RequestTyped DEF Login
<1> QED BY <1>1, <1>2, <1>3, <1>4, <1>5 DEF UserStep

LEMMA EntryKeepsTypes ==
  ASSUME SyncTypes, NEW w \in Workers,
         \/ \E m \in BagToSet(queue) : Take(w, m)
         \/ Skip(w) \/ Defer(w) \/ Acquire(w) \/ Turned(w)
  PROVE  SyncTypes'
<1>1. ASSUME NEW m \in BagToSet(queue), Take(w, m) PROVE SyncTypes'
  <2>1. /\ run' \in [Workers -> SlotState]
        /\ \A v \in Workers : run'[v].pc # "idle" => run'[v].msg \in Messages
    BY <1>1, TypesOf DEF Take, SlotState, Idle
  <2> QED BY <1>1, <2>1, TypesOf, TypesFrom, RemoveFromBag DEF Take, db
<1>2. CASE Skip(w) \/ Turned(w)
  BY <1>2, TypesOf, TypesFrom, EndTyped, MarkTyped
  DEF Skip, Turned, At, Statuses, Terminal, SyncTypes
<1>3. CASE Defer(w)
  BY <1>3, TypesOf, TypesFrom, EndTyped, AgainTyped, FaultTyped DEF Defer, At, db, SyncTypes
<1>4. CASE Acquire(w)
  BY <1>4, TypesOf, TypesFrom, GotoTyped DEF Acquire, At, db, SyncTypes
<1> QED BY <1>1, <1>2, <1>3, <1>4

\* The end of a chat in a bulk run.
LEMMA ChatEndTyped ==
  ASSUME SyncTypes, NEW w \in Workers, run[w].pc # "idle", NEW s \in {"COMPLETED", "FAILED"},
         NEW kept \in BOOLEAN,
         job' = [Set(job, run[w].sub, s) EXCEPT
                   ![run[w].sub].beat = FALSE, ![MyJob(w)].beat = TRUE,
                   ![MyJob(w)].old = @ /\ kept]
  PROVE  job' \in [Jobs -> Row]
<1> DEFINE first  == Set(job, run[w].sub, s)
           second == [first EXCEPT ![run[w].sub].beat = FALSE]
           third  == [second EXCEPT ![MyJob(w)].beat = TRUE]
<1>1. first \in [Jobs -> Row]
  BY TypesOf, SetTyped DEF Statuses, Terminal
<1>2. second \in [Jobs -> Row]
  <2> HIDE DEF first
  <2> QED BY <1>1, MarkBeat
<1>3. third \in [Jobs -> Row]
  <2> HIDE DEF second
  <2> QED BY <1>2, MarkBeat
<1>4. job' = [third EXCEPT ![MyJob(w)].old = @ /\ kept]
  OBVIOUS
<1> HIDE DEF third
<1>5. [third EXCEPT ![MyJob(w)].old = @ /\ kept] \in [Jobs -> Row]
  BY <1>3, MarkOld
<1> QED BY <1>4, <1>5

\* A slot between two chats.
LEMMA BetweenTyped ==
  ASSUME SyncTypes, NEW w \in Workers, run[w].pc # "idle", NEW failed \in BOOLEAN,
         NEW pc \in {"between", "release"},
         run' = [run EXCEPT ![w].pc = pc, ![w].sub = NoOne, ![w].failed = failed]
  PROVE  /\ run' \in [Workers -> SlotState]
         /\ \A v \in Workers : run'[v].pc # "idle" => run'[v].msg \in Messages
<1> DEFINE s == [run[w] EXCEPT !.pc = pc, !.sub = NoOne, !.failed = failed]
<1>1. s \in SlotState /\ s.msg = run[w].msg
  BY TypesOf DEF SlotState
<1>2. run' = [run EXCEPT ![w] = s]
  BY TypesOf DEF SlotState
<1> HIDE DEF s
<1> QED BY <1>1, <1>2, TypesOf, SlotTyped DEF SyncTypes

LEMMA SubEnds ==
  ASSUME SyncTypes, NEW w \in Workers, run[w].pc # "idle", NEW pc \in {"between", "release"},
         run' = [run EXCEPT ![w].pc = pc, ![w].sub = NoOne]
  PROVE  /\ run' \in [Workers -> SlotState]
         /\ \A v \in Workers : run'[v].pc # "idle" => run'[v].msg \in Messages
<1> DEFINE s == [run[w] EXCEPT !.pc = pc, !.sub = NoOne]
<1>1. s \in SlotState /\ s.msg = run[w].msg
  BY TypesOf DEF SlotState
<1>2. run' = [run EXCEPT ![w] = s]
  BY TypesOf DEF SlotState
<1> HIDE DEF s
<1> QED BY <1>1, <1>2, TypesOf, SlotTyped DEF SyncTypes

LEMMA RunKeepsTypes ==
  ASSUME SyncTypes, NEW w \in Workers,
         \/ Start(w) \/ Touch(w) \/ Progress(w) \/ ChatSynced(w) \/ ChatDone(w)
         \/ \E c \in Chats, j \in Jobs : NextChat(w, c, j)
         \/ ChatFailed(w) \/ FinishBulk(w) \/ BulkBreaks(w) \/ Unauthorized(w) \/ Flood(w)
         \/ Error(w) \/ Release(w)
  PROVE  SyncTypes'
<1> USE DEF At
<1>1. CASE Start(w)
  BY <1>1, TypesOf, TypesFrom, GotoTyped, SetTyped DEF Start, Statuses, Terminal, SyncTypes
<1>2. CASE Touch(w)
  <2>1. CASE Single(w)
    BY <1>2, <2>1, TypesOf, TypesFrom, GotoTyped, MarkBeat DEF Touch, SyncTypes
  <2>2. CASE ~ Single(w)
    <3> DEFINE left == IF run[w].msg.mode = "resume" THEN selected \ synced ELSE selected
               s == [run[w] EXCEPT !.pc = "between", !.left = left]
    <3>1. s \in SlotState /\ s.msg = run[w].msg
      BY TypesOf DEF SlotState
    <3>2. run' = [run EXCEPT ![w] = s]
      BY <1>2, <2>2, TypesOf DEF Touch, SlotState
    <3> QED BY <1>2, <3>1, <3>2, TypesOf, TypesFrom, SlotTyped, MarkBeat DEF Touch, SyncTypes
  <2> QED BY <2>1, <2>2
<1>3. CASE Progress(w)
  <2>1. PICK kept \in BOOLEAN :
          job' = [job EXCEPT ![SyncJob(w)].beat = TRUE, ![MyJob(w)].beat = TRUE,
                             ![SyncJob(w)].old = @ /\ kept]
    BY <1>3 DEF Progress
  <2> DEFINE first == [job EXCEPT ![SyncJob(w)].beat = TRUE]
             both  == [first EXCEPT ![MyJob(w)].beat = TRUE]
  <2>2. first \in [Jobs -> Row]
    BY TypesOf, MarkBeat
  <2>3. both \in [Jobs -> Row]
    BY <2>2, MarkBeat
  <2>4. job' = [both EXCEPT ![SyncJob(w)].old = @ /\ kept]
    BY <2>1
  <2>5. job' \in [Jobs -> Row]
    <3> HIDE DEF both
    <3> QED BY <2>3, <2>4, MarkOld
  <2> QED BY <1>3, <2>5, TypesOf, TypesFrom DEF Progress
<1>4. CASE ChatSynced(w)
  <2>1. synced' \in SUBSET Chats
    BY <1>4, TypesOf DEF ChatSynced
  <2> QED BY <1>4, <2>1, TypesOf, TypesFrom, GotoTyped DEF ChatSynced, SyncTypes
<1>5. CASE ChatDone(w)
  <2>1. CASE Single(w)
    BY <1>5, <2>1, TypesOf, TypesFrom, GotoTyped, SetTyped
    DEF ChatDone, Statuses, Terminal, SyncTypes
  <2>2. CASE ~ Single(w)
    <3>1. job' \in [Jobs -> Row]
      BY <1>5, <2>2, ChatEndTyped DEF ChatDone
    <3>2. run' = [run EXCEPT ![w].pc = "between", ![w].sub = NoOne]
      BY <1>5, <2>2 DEF ChatDone
    <3>3. /\ run' \in [Workers -> SlotState]
          /\ \A v \in Workers : run'[v].pc # "idle" => run'[v].msg \in Messages
      <4>1. run[w].pc # "idle"
        BY <1>5 DEF ChatDone
      <4> QED BY <3>2, <4>1, SubEnds
    <3> QED BY <1>5, <3>1, <3>3, TypesOf, TypesFrom DEF ChatDone
  <2> QED BY <2>1, <2>2
<1>6. ASSUME NEW c \in Chats, NEW j \in Jobs, NextChat(w, c, j) PROVE SyncTypes'
  <2> DEFINE rows == New(job, j, c, "IN_PROGRESS")
             both == [rows EXCEPT ![j].beat = TRUE]
             s    == [run[w] EXCEPT !.pc = "syncing", !.sub = j, !.left = @ \ {c}]
  <2>1. rows \in [Jobs -> Row]
    BY TypesOf, NewTyped DEF Statuses
  <2>2. both \in [Jobs -> Row]
    <3> HIDE DEF rows
    <3> QED BY <2>1, MarkBeat
  <2>3. job' = [both EXCEPT ![MyJob(w)].beat = TRUE]
    BY <1>6 DEF NextChat
  <2>4. job' \in [Jobs -> Row]
    <3> HIDE DEF both
    <3> QED BY <2>2, <2>3, MarkBeat
  <2>5. order' \in Seq(Jobs)
    <3>1. order' = Append(order, j)
      BY <1>6 DEF NextChat
    <3> QED BY <3>1, TypesOf
  <2>6. s \in SlotState /\ s.msg = run[w].msg
    BY TypesOf DEF SlotState
  <2>7. run' = [run EXCEPT ![w] = s]
    BY <1>6, TypesOf DEF NextChat, SlotState
  <2> HIDE DEF s, both, rows
  <2> QED BY <1>6, <2>4, <2>5, <2>6, <2>7, TypesOf, TypesFrom, SlotTyped DEF NextChat, SyncTypes
<1>7. CASE ChatFailed(w)
  <2>1. job' \in [Jobs -> Row]
    BY <1>7, ChatEndTyped DEF ChatFailed
  <2>2. run' = [run EXCEPT ![w].pc = "between", ![w].sub = NoOne, ![w].failed = TRUE]
    BY <1>7 DEF ChatFailed
  <2>3. faults' \in 0 .. MaxFaults /\ session' \in BOOLEAN
    BY <1>7, TypesOf, FaultTyped DEF ChatFailed, Raises, Refused
  <2> QED BY <1>7, <2>1, <2>2, <2>3, TypesOf, TypesFrom, BetweenTyped DEF ChatFailed
<1>8. CASE FinishBulk(w)
  BY <1>8, TypesOf, TypesFrom, GotoTyped, SetTyped DEF FinishBulk, Statuses, Terminal, SyncTypes
<1>9. CASE BulkBreaks(w)
  <2>1. job' \in [Jobs -> Row]
    BY <1>9, TypesOf, MarkBeat, MarkTyped DEF BulkBreaks, Statuses, Terminal
  <2>2. run' = [run EXCEPT ![w].pc = "release", ![w].sub = NoOne]
    BY <1>9 DEF BulkBreaks
  <2>3. faults' \in 0 .. MaxFaults
    BY <1>9, TypesOf, FaultTyped DEF BulkBreaks
  <2>4. /\ run' \in [Workers -> SlotState]
        /\ \A v \in Workers : run'[v].pc # "idle" => run'[v].msg \in Messages
    <3>1. run[w].pc # "idle"
      BY <1>9 DEF BulkBreaks
    <3> QED BY <2>2, <3>1, SubEnds
  <2> QED BY <1>9, <2>1, <2>3, <2>4, TypesOf, TypesFrom DEF BulkBreaks
<1>10. CASE Unauthorized(w)
  BY <1>10, TypesOf, TypesFrom, GotoTyped, MarkTyped, FaultTyped
  DEF Unauthorized, Refused, Statuses, Terminal, SyncTypes
<1>11. CASE Flood(w)
  BY <1>11, TypesOf, TypesFrom, GotoTyped, MarkTyped, FaultTyped, AgainTyped
  DEF Flood, Statuses, Terminal, SyncTypes
<1>12. CASE Error(w)
  BY <1>12, TypesOf, TypesFrom, GotoTyped, MarkTyped, FaultTyped, AgainTyped
  DEF Error, Raises, Statuses, Terminal, SyncTypes
<1>13. CASE Release(w)
  BY <1>13, TypesOf, TypesFrom, EndTyped, MarkBeat DEF Release, Free, SyncTypes
<1> QED BY <1>1, <1>2, <1>3, <1>4, <1>5, <1>6, <1>7, <1>8, <1>9, <1>10, <1>11, <1>12, <1>13

LEMMA ReaperKeepsTypes ==
  ASSUME SyncTypes, Reaper \/ ReaperDies PROVE SyncTypes'
<1>1. CASE ReapScan
  BY <1>1, TypesOf, TypesFrom DEF ReapScan, Calm, db
<1>2. ASSUME NEW j \in Jobs, ReapVisit(j) PROVE SyncTypes'
  <2>1. reap' \in [todo : SUBSET Jobs, doomed : SUBSET Jobs]
    BY <1>2, TypesOf DEF ReapVisit
  <2>2. lock' \in [job : Jobs \cup {NoOne}, by : Workers \cup {NoOne}]
    BY <1>2, TypesOf DEF ReapVisit, Free
  <2> QED BY <1>2, <2>1, <2>2, TypesOf, TypesFrom DEF ReapVisit, db
<1>3. CASE ReapCommit
  <2>1. \A j \in Jobs : Set(job, j, "FAILED")[j] \in Row
    BY TypesOf, SetTyped DEF Statuses, Terminal
  <2>2. job' \in [Jobs -> Row]
    BY <1>3, <2>1, TypesOf DEF ReapCommit
  <2> QED BY <1>3, <2>2, TypesOf, TypesFrom DEF ReapCommit, Calm
<1>4. CASE ReaperDies
  BY <1>4, TypesOf, TypesFrom, FaultTyped DEF ReaperDies, Calm, db
<1>5. CASE Resume
  <2>1. ASSUME NEW j \in Jobs, ResumeAgain(j) PROVE SyncTypes'
    <3>1. [job EXCEPT ![j].old = FALSE] \in [Jobs -> Row]
      BY TypesOf, PutOld
    <3> QED BY <1>5, <2>1, <3>1, TypesOf, TypesFrom, DelayTyped DEF Resume, ResumeAgain, Modes
  <2>2. CASE ResumeAnew
    <3>1. PICK j \in Jobs : /\ job' = New(job, j, Bulk, "PENDING") /\ order' = Append(order, j)
                            /\ Delay(Message(j, "resume"))
      BY <2>2 DEF ResumeAnew
    <3>2. job' \in [Jobs -> Row]
      BY <3>1, TypesOf, NewTyped DEF Statuses
    <3>3. order' \in Seq(Jobs)
      BY <3>1, TypesOf
    <3> QED BY <1>5, <3>1, <3>2, <3>3, TypesOf, TypesFrom, DelayTyped DEF Resume, Modes
  <2> QED BY <1>5, <2>1, <2>2 DEF Resume
<1> QED BY <1>1, <1>2, <1>3, <1>4, <1>5 DEF Reaper

LEMMA TimeKeepsTypes ==
  ASSUME SyncTypes,
         \/ \E j \in Jobs : Age(j) \/ BeatEnds(j) \/ Forget(j)
         \/ LockEnds
         \/ \E w \in Workers : Crash(w) \/ Redeliver(w)
  PROVE  SyncTypes'
<1>1. ASSUME NEW j \in Jobs, Age(j) PROVE SyncTypes'
  <2>1. [job EXCEPT ![j].old = TRUE] \in [Jobs -> Row]
    BY TypesOf, PutOld
  <2> QED BY <1>1, <2>1, TypesOf, TypesFrom DEF Age
<1>2. ASSUME NEW j \in Jobs, BeatEnds(j) PROVE SyncTypes'
  BY <1>2, TypesOf, TypesFrom, MarkBeat, FaultTyped DEF BeatEnds
<1>3. ASSUME NEW j \in Jobs, Forget(j) PROVE SyncTypes'
  <2>1. job' \in [Jobs -> Row]
    BY <1>3, TypesOf DEF Forget, Absent, Row
  <2>2. order' \in Seq(Jobs)
    <3>1. PICK i \in DOMAIN order : order' = RemoveAt(order, i)
      BY <1>3 DEF Forget
    <3> QED BY <3>1, TypesOf DEF RemoveAt
  <2> QED BY <1>3, <2>1, <2>2, TypesOf, TypesFrom DEF Forget
<1>4. CASE LockEnds
  BY <1>4, TypesOf, TypesFrom, FaultTyped DEF LockEnds, Free, db
<1>5. ASSUME NEW w \in Workers, Crash(w) PROVE SyncTypes'
  <2>1. lock' \in [job : Jobs \cup {NoOne}, by : Workers \cup {NoOne}]
    BY <1>5, TypesOf DEF Crash
  <2> QED BY <1>5, <2>1, TypesOf, TypesFrom, EndTyped, AddToBag, FaultTyped
      DEF Crash, db, SyncTypes, Busy
<1>6. ASSUME NEW w \in Workers, Redeliver(w) PROVE SyncTypes'
  BY <1>6, TypesOf, TypesFrom, AddToBag, FaultTyped DEF Redeliver, db, Busy
<1> QED BY <1>1, <1>2, <1>3, <1>4, <1>5, <1>6

LEMMA TypesStep == ASSUME SyncTypes, [Next]_vars PROVE SyncTypes'
<1>1. CASE UNCHANGED vars
  BY <1>1, TypesOf, TypesFrom DEF vars
<1> QED BY <1>1, RequestsKeepTypes, EntryKeepsTypes, RunKeepsTypes, ReaperKeepsTypes,
           TimeKeepsTypes DEF Next, Work, Trouble

\* Rows, lock, messages, slots and reaper hold what the code can write, whatever fails.
THEOREM SyncTypesAlways == Spec => []TypeOK
<1>1. Init => SyncTypes
  BY TypesInit
<1>2. SyncTypes /\ [Next]_vars => SyncTypes'
  BY TypesStep
<1>3. SyncTypes => TypeOK
  BY DEF SyncTypes
<1> QED BY <1>1, <1>2, <1>3, PTL DEF Spec

-----------------------------------------------------------------------------
(* The lock. *)

\* What a step of a slot does to the lock of another one.
LEMMA SlotKeepsLock ==
  ASSUME NEW v \in Workers, NEW w \in Workers, v # w, lock.by = w,
         \/ \E m \in BagToSet(queue) : Take(v, m)
         \/ Work(v) \/ Progress(v) \/ Trouble(v)
  PROVE  lock' = lock
<1>1. CASE (\E m \in BagToSet(queue) : Take(v, m)) \/ Progress(v)
  BY <1>1 DEF Take, Progress
<1>2. CASE Acquire(v)
  BY <1>2, ConstantsAssumption DEF Acquire, Free, ConstantsAssumption
<1>3. CASE Release(v)
  BY <1>3 DEF Release, Holds
<1>4. CASE Skip(v) \/ Turned(v) \/ Start(v) \/ Touch(v) \/ ChatSynced(v) \/ ChatDone(v)
           \/ FinishBulk(v) \/ \E c \in Chats, j \in Jobs : NextChat(v, c, j)
  BY <1>4 DEF Skip, Turned, Start, Touch, ChatSynced, ChatDone, FinishBulk, NextChat
<1>5. CASE ChatFailed(v) \/ BulkBreaks(v) \/ Error(v) \/ Unauthorized(v) \/ Flood(v)
  BY <1>5 DEF ChatFailed, BulkBreaks, Error, Unauthorized, Flood
<1>6. CASE Defer(v) \/ Redeliver(v)
  BY <1>6 DEF Defer, Redeliver, db
<1>7. CASE Crash(v)
  BY <1>7 DEF Crash, Holds
<1> QED BY <1>1, <1>2, <1>3, <1>4, <1>5, <1>6, <1>7 DEF Work, Trouble

\* A slot's own step that gives up the lock ends its run, or is a fault.
LEMMA SlotGivesLock ==
  ASSUME SyncTypes, NEW w \in Workers, lock.by = w, lock'.by # w,
         \/ \E m \in BagToSet(queue) : Take(w, m)
         \/ Work(w) \/ Progress(w) \/ Trouble(w)
  PROVE  run'[w] # run[w] \/ faults' # faults
<1>1. CASE Release(w)
  BY <1>1, TypesOf DEF Release, At, End, Idle
<1>2. CASE Crash(w)
  BY <1>2, FaultTyped DEF Crash
<1>3. CASE Acquire(w)
  BY <1>3 DEF Acquire
<1>4. CASE ~ (Release(w) \/ Crash(w) \/ Acquire(w))
  <2>1. lock' = lock
    BY <1>4 DEF Take, Work, Trouble, Progress, Skip, Turned, Start, Touch, ChatSynced, ChatDone,
       FinishBulk, NextChat, ChatFailed, BulkBreaks, Error, Unauthorized, Flood, Defer, Redeliver
  <2> QED BY <2>1
<1> QED BY <1>1, <1>2, <1>3, <1>4

\* What a run may lose its lock to.
Loses(w) ==
  (lock.by = w /\ lock'.by # w)
    => \/ run'[w] # run[w] \/ faults' # faults
       \/ lock.job \in reap.todo /\ ~job[lock.job].beat
       \/ account = "closing"

LEMMA LockIsGiven ==
  ASSUME SyncTypes, Next, NEW w \in Workers PROVE Loses(w)
<1> SUFFICES ASSUME lock.by = w, lock'.by # w PROVE Loses(w)
    BY DEF Loses
<1>1. CASE UserStep
  BY <1>1 DEF UserStep, StartSync, SelectChats, Deactivate, Purge, Login, Loses
<1>2. ASSUME NEW v \in Workers,
             \/ \E m \in BagToSet(queue) : Take(v, m)
             \/ Work(v) \/ Progress(v) \/ Trouble(v)
      PROVE  Loses(w)
  BY <1>2, SlotKeepsLock, SlotGivesLock DEF Loses
<1>3. CASE Reaper \/ ReaperDies
  BY <1>3 DEF Reaper, ReapScan, ReapVisit, ReapCommit, Resume, ReaperDies, Loses
<1>4. CASE \E j \in Jobs : Age(j) \/ BeatEnds(j) \/ Forget(j)
  BY <1>4 DEF Age, BeatEnds, Forget
<1>5. CASE LockEnds
  BY <1>5, FaultTyped, ConstantsAssumption DEF LockEnds, Loses, ConstantsAssumption
<1> QED BY <1>1, <1>2, <1>3, <1>4, <1>5 DEF Next

\* The end of one attempt never takes the lock from another (DistributedLock.release
\* compares the token), for any number of slots, jobs and faults of every kind.
THEOREM LockIsNotStolen == Spec => NoTheft
<1>1. SyncTypes /\ [Next]_vars => [\A w \in Workers : Loses(w)]_vars
  BY LockIsGiven
<1>2. Init => SyncTypes
  BY TypesInit
<1>3. SyncTypes /\ [Next]_vars => SyncTypes'
  BY TypesStep
<1> QED BY <1>1, <1>2, <1>3, PTL DEF Spec, NoTheft, Loses

-----------------------------------------------------------------------------
(* One run at a time, when no run crashes, goes silent or lets its lock lapse. *)

Reliable == Faults \cap {"crash", "silence", "lapse"} = {}

\* w has the lock and has not given it up yet.
Attempting(w) == run[w].pc \notin {"idle", "entry"}

\* A message that waits, or is being worked on, names j.
Mentioned(j) == \/ \E m \in BagToSet(queue) : m.job = j
                \/ \E w \in Workers : Busy(w) /\ MyJob(w) = j

\* What holds of an attempt: its rows exist and are apart, its job is not taken for a
\* silent one before its first heartbeat nor after its end; and as long as the account's
\* keys are there, it has the lock and its heartbeats, so that the reaper spares it.
RowsApart(w) ==
  /\ run[w].pc \notin {"syncing", "synced"} => run[w].sub = NoOne
  /\ run[w].sub # NoOne => Exists(run[w].sub) /\ run[w].sub # MyJob(w)
NotSilent(w) ==
  /\ run[w].pc \in {"locked", "started"} => ~(Running(MyJob(w)) /\ job[MyJob(w)].old)
  /\ run[w].pc = "release" => ~Running(MyJob(w))
Beats(w) ==
  run[w].pc \in {"between", "syncing", "synced"} =>
    job[MyJob(w)].beat /\ (run[w].sub # NoOne => job[run[w].sub].beat)
Spared(w) ==
  /\ MyJob(w) \notin reap.doomed /\ run[w].sub \notin reap.doomed
  /\ MyJob(w) \in reap.todo => run[w].pc \notin {"locked", "started"} /\ job[MyJob(w)].beat
  /\ run[w].sub \in reap.todo => job[run[w].sub].beat
SlotOK(w) ==
  /\ RowsApart(w) /\ NotSilent(w)
  /\ account # "closed" => /\ lock.job = MyJob(w) /\ lock.by = w
                           /\ Beats(w) /\ Spared(w)

Alone == \A v, w \in Workers : Attempting(v) /\ Attempting(w) => v = w

\* A message never waits for a job that a run left IN_PROGRESS.
MessagesKnown ==
  \A j \in Jobs : Mentioned(j) =>
    /\ Exists(j)
    /\ Running(j) => \E w \in Workers : Attempting(w) /\ MyJob(w) = j

RunnerInv ==
  /\ SyncTypes /\ Alone /\ MessagesKnown
  /\ \A w \in Workers : IF Attempting(w) THEN SlotOK(w) ELSE run[w].sub = NoOne

LEMMA RunnerInit == ASSUME Init PROVE RunnerInv
<1>1. SyncTypes
  BY TypesInit
<1>2. \A w \in Workers : run[w] = Idle
  BY DEF Init
<1>3. \A j \in Jobs : ~ Mentioned(j)
  BY <1>2, EmptyIsABag DEF Init, Mentioned, Busy, Idle
<1> QED BY <1>1, <1>2, <1>3 DEF RunnerInv, Alone, MessagesKnown, Attempting, Idle

\* A step beside the attempts: they go on as they were.
LEMMA Bystander ==
  ASSUME RunnerInv, SyncTypes',
         \A w \in Workers : IF Attempting(w) THEN run'[w] = run[w]
                            ELSE run'[w].pc \in {"idle", "entry"} /\ run'[w].sub = NoOne,
         account' # "closed" => account # "closed",
         \A w \in Workers : Attempting(w) /\ account' # "closed" => lock' = lock,
         \A w \in Workers : Attempting(w) =>
           /\ run[w].sub # NoOne => Exists(run[w].sub)'
           /\ NotSilent(w)'
           /\ account' # "closed" => Beats(w)' /\ Spared(w)',
         \A j \in Jobs : Mentioned(j)' => Exists(j)' /\ (Running(j)' => Mentioned(j) /\ Running(j))
  PROVE  RunnerInv'
<1>1. \A w \in Workers : Attempting(w)' <=> Attempting(w)
  BY DEF Attempting
<1>2. \A w \in Workers : Attempting(w) => MyJob(w)' = MyJob(w)
  BY DEF MyJob
<1>3. Alone'
  BY <1>1 DEF Alone, RunnerInv
<1>4. MessagesKnown'
  BY <1>1, <1>2 DEF MessagesKnown, RunnerInv
<1>5. ASSUME NEW w \in Workers, Attempting(w) PROVE SlotOK(w)'
  <2>1. RowsApart(w)'
    BY <1>2, <1>5 DEF RunnerInv, SlotOK, RowsApart
  <2>2. account' # "closed" => lock'.job = MyJob(w)' /\ lock'.by = w
    BY <1>2, <1>5 DEF RunnerInv, SlotOK
  <2> QED BY <1>5, <2>1, <2>2 DEF SlotOK
<1> QED BY <1>1, <1>3, <1>4, <1>5 DEF RunnerInv, Attempting

\* A step of the one attempt.
LEMMA OwnStep ==
  ASSUME RunnerInv, SyncTypes', NEW w \in Workers, Attempting(w),
         \A v \in Workers \ {w} : run'[v] = run[v],
         run'[w].msg = run[w].msg, Attempting(w)', SlotOK(w)',
         \A m \in BagToSet(queue') : Mentioned(m.job),
         \A j \in Jobs : Mentioned(j) => Exists(j)' /\ (Running(j)' => Running(j) \/ j = MyJob(w))
  PROVE  RunnerInv'
<1>1. \A v \in Workers \ {w} : ~ Attempting(v) /\ ~ Attempting(v)'
  BY DEF RunnerInv, Alone, Attempting
<1>2. Alone'
  BY <1>1 DEF Alone
<1>3. \A v \in Workers : Busy(v)' <=> Busy(v)
  BY DEF Busy, Attempting
<1>4. \A v \in Workers : MyJob(v)' = MyJob(v)
  BY DEF MyJob
<1>5. \A j \in Jobs : Mentioned(j)' => Mentioned(j)
  BY <1>3, <1>4 DEF Mentioned
<1>6. MessagesKnown'
  <2> SUFFICES ASSUME NEW j \in Jobs, Mentioned(j)'
               PROVE  Exists(j)' /\ (Running(j)' => \E v \in Workers : Attempting(v)' /\ MyJob(v)' = j)
      BY DEF MessagesKnown
  <2>1. Mentioned(j) /\ Exists(j)'
    BY <1>5
  <2>2. Running(j) => j = MyJob(w)
    BY <2>1, <1>1 DEF RunnerInv, MessagesKnown
  <2> QED BY <2>1, <2>2, <1>4
<1>7. \A v \in Workers \ {w} : run'[v].sub = NoOne
  BY <1>1 DEF RunnerInv
<1> QED BY <1>1, <1>2, <1>6, <1>7 DEF RunnerInv

\* What is left to show of an attempt whose rows are kept.
LEMMA RowsStay ==
  ASSUME RunnerInv, NEW w \in Workers, Attempting(w), run'[w] = run[w],
         reap'.todo \subseteq reap.todo, reap'.doomed \subseteq reap.doomed,
         account' # "closed" => account # "closed",
         \A j \in Jobs : Exists(j) /\ j \in {MyJob(w), run[w].sub} =>
           /\ Exists(j)' /\ (Running(j)' => Running(j))
           /\ job[j].beat => job'[j].beat
           /\ Running(j)' /\ job'[j].old => job[j].old
  PROVE  /\ run[w].sub # NoOne => Exists(run[w].sub)'
         /\ NotSilent(w)'
         /\ account' # "closed" => Beats(w)' /\ Spared(w)'
<1>1. MyJob(w) \in Jobs /\ Exists(MyJob(w)) /\ MyJob(w)' = MyJob(w)
  BY TypesOf DEF RunnerInv, MessagesKnown, Mentioned, Attempting, Busy, MyJob
<1>2. SlotOK(w)
  BY DEF RunnerInv
<1>3. run[w].sub # NoOne => run[w].sub \in Jobs /\ Exists(run[w].sub)
  BY <1>2, TypesOf DEF RunnerInv, SlotOK, RowsApart, SlotState
<1>4. NotSilent(w)'
  BY <1>1, <1>2 DEF SlotOK, NotSilent
<1>5. account' # "closed" => Beats(w)'
  BY <1>1, <1>2, <1>3 DEF SlotOK, Beats
<1>6. account' # "closed" => Spared(w)'
  <2>1. NoOne \notin reap.todo
    BY TypesOf, ConstantsAssumption DEF ConstantsAssumption, RunnerInv
  <2> QED BY <1>1, <1>2, <1>3, <2>1 DEF SlotOK, Spared
<1> QED BY <1>3, <1>4, <1>5, <1>6

LEMMA DelayMentions ==
  ASSUME RunnerInv, SyncTypes', NEW j \in Jobs, NEW mode, Delay(Message(j, mode)), run' = run
  PROVE  \A i \in Jobs : Mentioned(i)' => Mentioned(i) \/ i = j
<1>1. BagToSet(queue') \subseteq BagToSet(queue) \cup {Message(j, mode)}
  BY AddToBag, TypesOf DEF Delay, RunnerInv
<1>2. Message(j, mode).job = j
  BY DEF Message
<1> QED BY <1>1, <1>2 DEF Mentioned, Busy, MyJob

LEMMA SameMentions ==
  ASSUME run' = run, queue' = queue
  PROVE  \A i \in Jobs : Mentioned(i)' <=> Mentioned(i)
  BY DEF Mentioned, Busy, MyJob

LEMMA UnusedIsNew ==
  ASSUME NEW j, Unused(j) PROVE j \in Jobs /\ ~ Exists(j)
  BY ConstantsAssumption DEF Unused, ConstantsAssumption

LEMMA ExpireKeeps ==
  ASSUME job \in [Jobs -> Row], NEW c, NEW i \in Jobs
  PROVE  /\ ExpireStale(c)[i].status = "absent" <=> job[i].status = "absent"
         /\ ExpireStale(c)[i].status = "IN_PROGRESS" => job[i].status = "IN_PROGRESS"
         /\ ExpireStale(c)[i].beat = job[i].beat
         /\ ExpireStale(c)[i].old => job[i].old
<1>1. CASE i \in Expired(c)
  <2>1. ExpireStale(c)[i] = [job[i] EXCEPT !.status = "FAILED", !.old = FALSE]
    BY <1>1 DEF ExpireStale, Set, Row
  <2>2. job[i].status = "IN_PROGRESS"
    BY <1>1 DEF Expired, Running
  <2> QED BY <2>1, <2>2 DEF Row
<1>2. CASE i \notin Expired(c)
  BY <1>2 DEF ExpireStale
<1> QED BY <1>1, <1>2

\* A new row in place of an unused one, beside rows that are kept.
LEMMA NewRow ==
  ASSUME RunnerInv, SyncTypes', NEW kept \in [Jobs -> Row], NEW j, Unused(j),
         NEW c \in Chats \cup {Bulk}, NEW mode,
         job' = New(kept, j, c, "PENDING"), Delay(Message(j, mode)),
         run' = run, reap' = reap, lock' = lock, account' = account,
         \A i \in Jobs : /\ kept[i].status = "absent" <=> job[i].status = "absent"
                         /\ kept[i].status = "IN_PROGRESS" => job[i].status = "IN_PROGRESS"
                         /\ kept[i].beat = job[i].beat
                         /\ kept[i].old => job[i].old
  PROVE  RunnerInv'
<1>1. j \in Jobs /\ ~ Exists(j)
  BY UnusedIsNew
<1>2. \A i \in Jobs : i # j => job'[i] = kept[i]
  BY <1>1 DEF New
<1>3. Exists(j)' /\ ~ Running(j)'
  BY <1>1 DEF New, Exists, Running
<1>4. \A i \in Jobs : Exists(i) =>
        /\ Exists(i)' /\ (Running(i)' => Running(i))
        /\ job[i].beat => job'[i].beat
        /\ Running(i)' /\ job'[i].old => job[i].old
  BY <1>1, <1>2 DEF Exists, Running
<1>5. \A i \in Jobs : Mentioned(i)' =>
        Exists(i)' /\ (Running(i)' => Mentioned(i) /\ Running(i))
  BY <1>3, <1>4, DelayMentions, <1>1 DEF RunnerInv, MessagesKnown
<1>6. \A w \in Workers : Attempting(w) =>
        /\ run[w].sub # NoOne => Exists(run[w].sub)'
        /\ NotSilent(w)'
        /\ account' # "closed" => Beats(w)' /\ Spared(w)'
  BY <1>4, RowsStay
<1>7. \A w \in Workers : ~ Attempting(w) => run[w].pc \in {"idle", "entry"} /\ run[w].sub = NoOne
  BY DEF RunnerInv, Attempting
<1> QED BY <1>5, <1>6, <1>7, Bystander

\* Steps that only change rows, and none of a mentioned job for the worse.
LEMMA RowStep ==
  ASSUME RunnerInv, SyncTypes', run' = run, queue' = queue,
         reap'.todo \subseteq reap.todo, reap'.doomed \subseteq reap.doomed,
         account' # "closed" => account # "closed",
         \A w \in Workers : Attempting(w) /\ account' # "closed" => lock' = lock,
         \A i \in Jobs : Mentioned(i) => Exists(i)' /\ (Running(i)' => Running(i)),
         \A w \in Workers : Attempting(w) =>
           \A i \in Jobs : Exists(i) /\ i \in {MyJob(w), run[w].sub} =>
             /\ Exists(i)' /\ (Running(i)' => Running(i))
             /\ job[i].beat => job'[i].beat
             /\ Running(i)' /\ job'[i].old => job[i].old
  PROVE  RunnerInv'
<1>1. \A i \in Jobs : Mentioned(i)' =>
        Exists(i)' /\ (Running(i)' => Mentioned(i) /\ Running(i))
  BY SameMentions
<1>2. \A w \in Workers : Attempting(w) =>
        /\ run[w].sub # NoOne => Exists(run[w].sub)'
        /\ NotSilent(w)'
        /\ account' # "closed" => Beats(w)' /\ Spared(w)'
  BY RowsStay
<1>3. \A w \in Workers : ~ Attempting(w) => run[w].pc \in {"idle", "entry"} /\ run[w].sub = NoOne
  BY DEF RunnerInv, Attempting
<1> QED BY <1>1, <1>2, <1>3, Bystander

LEMMA SetRow ==
  ASSUME NEW jobs \in [Jobs -> Row], NEW j \in Jobs, NEW s \in Statuses
  PROVE  /\ Set(jobs, j, s)[j].status = s /\ Set(jobs, j, s)[j].old = FALSE
         /\ Set(jobs, j, s)[j].beat = jobs[j].beat
         /\ \A i \in Jobs : i # j => Set(jobs, j, s)[i] = jobs[i]
  BY DEF Set, Row

LEMMA MarkRow ==
  ASSUME NEW jobs \in [Jobs -> Row], NEW j \in Jobs, NEW s \in Statuses, s # "IN_PROGRESS"
  PROVE  /\ Mark(jobs, j, s)[j].status \in Statuses \ {"IN_PROGRESS"}
         /\ Mark(jobs, j, s)[j].beat = jobs[j].beat
         /\ \A i \in Jobs : i # j => Mark(jobs, j, s)[i] = jobs[i]
<1>1. CASE jobs[j].status \in Terminal /\ s \notin Terminal
  <2>1. Mark(jobs, j, s) = jobs
    BY <1>1 DEF Mark
  <2>2. jobs[j].status \in Statuses \ {"IN_PROGRESS"}
    BY <1>1 DEF Statuses, Terminal
  <2> QED BY <2>1, <2>2
<1>2. CASE ~ (jobs[j].status \in Terminal /\ s \notin Terminal)
  <2>1. Mark(jobs, j, s) = Set(jobs, j, s)
    BY <1>2 DEF Mark
  <2>2. /\ Set(jobs, j, s)[j].status = s
        /\ Set(jobs, j, s)[j].beat = jobs[j].beat
    BY DEF Set, Row
  <2>3. \A i \in Jobs : i # j => Set(jobs, j, s)[i] = jobs[i]
    BY SetRow
  <2> QED BY <2>1, <2>2, <2>3
<1> QED BY <1>1, <1>2

LEMMA RequestsKeepRunner ==
  ASSUME RunnerInv, SyncTypes', UserStep PROVE RunnerInv'
<1> USE DEF RunnerInv
<1>1. ASSUME NEW c \in Chats \cup {Bulk}, NEW j \in Jobs, NEW mode \in UserModes,
             StartSync(c, j, mode)
      PROVE  RunnerInv'
  <2>1. Unused(j)
    BY <1>1 DEF StartSync, Spare
  <2>2. ExpireStale(c) \in [Jobs -> Row]
    BY TypesOf, ExpireTyped
  <2>3. /\ job' = New(ExpireStale(c), j, c, "PENDING") /\ Delay(Message(j, mode))
        /\ run' = run /\ reap' = reap /\ lock' = lock /\ account' = account
    BY <1>1 DEF StartSync
  <2> QED BY <2>1, <2>2, <2>3, NewRow, ExpireKeeps, TypesOf
<1>2. ASSUME NEW S \in SUBSET Chats, SelectChats(S) PROVE RunnerInv'
  <2>1. CASE UNCHANGED <<job, order, queue, faults>>
    BY <1>2, <2>1, RowStep DEF SelectChats, MessagesKnown, Exists, Running
  <2>2. ASSUME NEW j \in Jobs, Spare(j), job' = New(job, j, Bulk, "PENDING"),
               Delay(Message(j, "resume"))
        PROVE  RunnerInv'
    <3>1. run' = run /\ reap' = reap /\ lock' = lock /\ account' = account
      BY <1>2 DEF SelectChats
    <3> QED BY <2>2, <3>1, NewRow, TypesOf DEF Spare
  <2> QED BY <1>2, <2>1, <2>2 DEF SelectChats
<1>3. CASE Deactivate
  <2>1. \A i \in Jobs : job'[i] = IF Open(i) THEN Set(job, i, "CANCELLED")[i] ELSE job[i]
    BY <1>3 DEF Deactivate
  <2>2. \A i \in Jobs : /\ Exists(i) => Exists(i)'
                        /\ Running(i)' => Running(i)
                        /\ job[i].beat => job'[i].beat
                        /\ Running(i)' /\ job'[i].old => job[i].old
    <3> TAKE i \in Jobs
    <3>1. CASE Open(i)
      <4>1. job'[i] = Set(job, i, "CANCELLED")[i]
        BY <2>1, <3>1
      <4>2. job'[i].status = "CANCELLED" /\ job'[i].beat = job[i].beat
        <5>1. job \in [Jobs -> Row]
          BY TypesOf
        <5> HIDE DEF RunnerInv
        <5>2. "CANCELLED" \in Statuses
          BY DEF Statuses, Terminal
        <5>3. Set(job, i, "CANCELLED")[i].status = "CANCELLED"
          BY <5>1, <5>2 DEF Set, Row
        <5>4. Set(job, i, "CANCELLED")[i].beat = job[i].beat
          BY <5>1, <5>2 DEF Set, Row
        <5> QED BY <4>1, <5>3, <5>4
      <4> QED BY <4>2 DEF Exists, Running
    <3>2. CASE ~ Open(i)
      BY <2>1, <3>2 DEF Exists, Running
    <3> QED BY <3>1, <3>2
  <2> QED BY <1>3, <2>2, RowStep DEF Deactivate, MessagesKnown
<1>4. CASE Purge
  <2>1. \A i \in Jobs : job'[i].status = job[i].status /\ job'[i].old = job[i].old
    BY <1>4, TypesOf DEF Purge, Row
  <2>2. \A i \in Jobs : /\ Exists(i) => Exists(i)'
                        /\ Running(i)' => Running(i)
                        /\ Running(i)' /\ job'[i].old => job[i].old
    BY <2>1 DEF Exists, Running
  <2>3. \A w \in Workers : Attempting(w) =>
          /\ run[w].sub # NoOne => Exists(run[w].sub)'
          /\ NotSilent(w)'
    <3> SUFFICES ASSUME NEW w \in Workers, Attempting(w)
                 PROVE  (run[w].sub # NoOne => Exists(run[w].sub)') /\ NotSilent(w)'
        OBVIOUS
    <3>1. SlotOK(w) /\ MyJob(w) \in Jobs /\ MyJob(w)' = MyJob(w) /\ run' = run
      BY <1>4, TypesOf DEF Attempting, Purge, MyJob
    <3>2. run[w].sub # NoOne => run[w].sub \in Jobs /\ Exists(run[w].sub)
      BY <3>1, TypesOf DEF SlotOK, RowsApart, SlotState
    <3> QED BY <2>2, <3>1, <3>2 DEF SlotOK, NotSilent
  <2>4. \A i \in Jobs : Mentioned(i)' =>
          Exists(i)' /\ (Running(i)' => Mentioned(i) /\ Running(i))
    BY <1>4, <2>2, SameMentions DEF Purge, MessagesKnown
  <2> QED BY <1>4, <2>3, <2>4, Bystander DEF Purge, Attempting
<1>5. CASE Login
  BY <1>5, RowStep DEF Login, MessagesKnown, Exists, Running
<1> QED BY <1>1, <1>2, <1>3, <1>4, <1>5 DEF UserStep

LEMMA EntryKeepsRunner ==
  ASSUME RunnerInv, SyncTypes', NEW w \in Workers,
         \/ \E m \in BagToSet(queue) : Take(w, m)
         \/ Skip(w) \/ Defer(w) \/ Turned(w) \/ Redeliver(w)
  PROVE  RunnerInv'
<1> USE DEF RunnerInv
<1> DEFINE Rest == \A v \in Workers : IF Attempting(v) THEN run'[v] = run[v]
                     ELSE run'[v].pc \in {"idle", "entry"} /\ run'[v].sub = NoOne
           Same == /\ reap' = reap /\ lock' = lock /\ account' = account
                   /\ \A i \in Jobs : Mentioned(i)' => Mentioned(i)
<1>1. ASSUME Rest, Same,
             \A i \in Jobs : Mentioned(i) => Exists(i)' /\ (Running(i)' => Running(i)),
             \A v \in Workers : Attempting(v) =>
               \A i \in Jobs : Exists(i) /\ i \in {MyJob(v), run[v].sub} =>
                 /\ Exists(i)' /\ (Running(i)' => Running(i))
                 /\ job[i].beat => job'[i].beat
                 /\ Running(i)' /\ job'[i].old => job[i].old
      PROVE  RunnerInv'
  <2>1. \A v \in Workers : Attempting(v) =>
          /\ run[v].sub # NoOne => Exists(run[v].sub)'
          /\ NotSilent(v)'
          /\ account' # "closed" => Beats(v)' /\ Spared(v)'
    BY <1>1, RowsStay
  <2> QED BY <1>1, <2>1, Bystander
<1>2. ASSUME job' = job, Rest, Same PROVE RunnerInv'
  BY <1>1, <1>2 DEF MessagesKnown, Exists, Running
<1>3. ASSUME NEW m \in BagToSet(queue), Take(w, m) PROVE RunnerInv'
  <2>1. run' = [run EXCEPT ![w] = [Idle EXCEPT !.pc = "entry", !.msg = m]] /\ ~ Attempting(w)
    BY <1>3 DEF Take, At, Attempting
  <2>2. Rest
    BY <2>1, TypesOf DEF Attempting, Idle
  <2>3. \A i \in Jobs : Mentioned(i)' => Mentioned(i)
    <3> SUFFICES ASSUME NEW i \in Jobs, Mentioned(i)' PROVE Mentioned(i)
        OBVIOUS
    <3>1. BagToSet(queue') \subseteq BagToSet(queue)
      BY <1>3, TypesOf, RemoveFromBag DEF Take
    <3>2. ASSUME NEW v \in Workers, Busy(v)', MyJob(v)' = i PROVE Mentioned(i)
      <4>1. CASE v = w
        <5>1. run'[w].msg = m
          BY <2>1, TypesOf DEF Idle
        <5> QED BY <3>2, <4>1, <5>1 DEF MyJob, Mentioned
      <4>2. CASE v # w
        BY <2>1, <3>2, <4>2 DEF MyJob, Mentioned, Busy
      <4> QED BY <4>1, <4>2
    <3> QED BY <3>1, <3>2 DEF Mentioned
  <2> QED BY <1>2, <1>3, <2>2, <2>3 DEF Take, db
<1>4. ASSUME At(w, "entry"), End(w), Again(w) \/ queue' = queue
      PROVE  Rest /\ \A i \in Jobs : Mentioned(i)' => Mentioned(i)
  <2>1. ~ Attempting(w) /\ Busy(w) /\ MyJob(w) \in Jobs
    BY <1>4, TypesOf DEF At, Attempting
  <2>2. Rest
    BY <1>4, <2>1, TypesOf DEF End, Attempting, Idle
  <2>3. \A i \in Jobs : (\E m \in BagToSet(queue') : m.job = i) => Mentioned(i)
    <3>1. CASE queue' = queue
      BY <3>1 DEF Mentioned
    <3>2. CASE queue' # queue
      <4>1. queue' = BagAdd(queue, [run[w].msg EXCEPT !.tries = @ + 1])
        BY <1>4, <3>2 DEF Again
      <4>2. [run[w].msg EXCEPT !.tries = @ + 1].job = MyJob(w)
        BY <2>1, TypesOf DEF MyJob, Messages
      <4>3. BagToSet(queue') \subseteq BagToSet(queue) \cup {[run[w].msg EXCEPT !.tries = @ + 1]}
        BY <4>1, AddToBag, TypesOf
      <4> QED BY <2>1, <4>2, <4>3 DEF Mentioned
    <3> QED BY <3>1, <3>2
  <2>4. \A i \in Jobs, v \in Workers : Busy(v)' /\ MyJob(v)' = i => Mentioned(i)
    BY <1>4, TypesOf DEF End, Busy, MyJob, Mentioned, Idle
  <2> QED BY <2>2, <2>3, <2>4 DEF Mentioned
<1>5. CASE Skip(w) \/ Turned(w)
  <2>1. PICK s \in {"CANCELLED", "FAILED"} : job' = Mark(job, MyJob(w), s)
    BY <1>5 DEF Skip, Turned
  <2>2. At(w, "entry") /\ End(w) /\ queue' = queue /\ reap' = reap /\ lock' = lock
        /\ account' = account
    BY <1>5 DEF Skip, Turned
  <2>3. MyJob(w) \in Jobs /\ job \in [Jobs -> Row]
    BY <2>2, TypesOf DEF At
  <2>4. \A i \in Jobs : Exists(i) =>
          /\ Exists(i)' /\ (Running(i)' => Running(i))
          /\ job[i].beat => job'[i].beat
          /\ Running(i)' /\ job'[i].old => job[i].old
    <3> SUFFICES ASSUME NEW i \in Jobs, Exists(i)
                 PROVE  /\ Exists(i)' /\ (Running(i)' => Running(i))
                        /\ job[i].beat => job'[i].beat
                        /\ Running(i)' /\ job'[i].old => job[i].old
        OBVIOUS
    <3>1. CASE i = MyJob(w)
      BY <2>1, <2>3, <3>1, MarkRow DEF Exists, Running, Statuses, Terminal
    <3>2. CASE i # MyJob(w)
      <4>1. job'[i] = job[i]
        BY <2>1, <2>3, <3>2, MarkRow DEF Statuses, Terminal
      <4> QED BY <4>1 DEF Exists, Running
    <3> QED BY <3>1, <3>2
  <2> QED BY <1>1, <1>4, <2>2, <2>4 DEF MessagesKnown
<1>6. CASE Defer(w)
  BY <1>2, <1>4, <1>6 DEF Defer, db
<1>7. CASE Redeliver(w)
  <2>1. \A i \in Jobs : Mentioned(i)' => Mentioned(i)
    <3>1. BagToSet(queue') = BagToSet(queue) \cup {run[w].msg}
      BY <1>7, AddToBag, TypesOf DEF Redeliver
    <3> QED BY <1>7, <3>1 DEF Redeliver, Mentioned, Busy, MyJob
  <2> QED BY <1>2, <1>7, <2>1 DEF Redeliver, db, Attempting
<1> QED BY <1>3, <1>5, <1>6, <1>7

\* What an attempt is known to be, without the details of its rows.
LEMMA AttemptOf ==
  ASSUME RunnerInv, NEW w \in Workers, Attempting(w)
  PROVE  /\ SlotOK(w) /\ w # NoOne
         /\ MyJob(w) \in Jobs /\ Exists(MyJob(w)) /\ Mentioned(MyJob(w))
         /\ run[w].sub # NoOne => run[w].sub \in Jobs /\ run[w].pc \in {"syncing", "synced"}
         /\ run[w].pc \in {"locked", "started", "between", "syncing", "synced", "release"}
         /\ NoOne \notin reap.todo \cup reap.doomed
<1>1. Busy(w) /\ MyJob(w) \in Jobs /\ run[w] \in SlotState
  BY TypesOf DEF RunnerInv, Attempting, Busy
<1>2. Mentioned(MyJob(w))
  BY <1>1 DEF Mentioned
<1> QED BY <1>1, <1>2, TypesOf, ConstantsAssumption
        DEF RunnerInv, MessagesKnown, SlotOK, RowsApart, SlotState, Attempting, ConstantsAssumption

LEMMA ReaperKeepsRunner ==
  ASSUME RunnerInv, SyncTypes', Reaper \/ ReaperDies PROVE RunnerInv'
<1> DEFINE Quietly == /\ job' = job /\ run' = run /\ queue' = queue /\ account' = account
<1>1. ASSUME Quietly,
             \A w \in Workers : Attempting(w) /\ account # "closed" => lock' = lock /\ Spared(w)'
      PROVE  RunnerInv'
  <2>1. \A w \in Workers : Attempting(w) =>
          /\ run[w].sub # NoOne => Exists(run[w].sub)'
          /\ NotSilent(w)' /\ (account # "closed" => Beats(w)')
    BY <1>1 DEF RunnerInv, SlotOK, RowsApart, NotSilent, Beats, MyJob, Exists, Running
  <2>2. \A i \in Jobs : Mentioned(i)' =>
          Exists(i)' /\ (Running(i)' => Mentioned(i) /\ Running(i))
    BY <1>1, SameMentions DEF RunnerInv, MessagesKnown, Exists, Running
  <2>3. \A w \in Workers : ~ Attempting(w) => run[w].pc \in {"idle", "entry"} /\ run[w].sub = NoOne
    BY DEF RunnerInv, Attempting
  <2> QED BY <1>1, <2>1, <2>2, <2>3, Bystander
<1>2. CASE ReapScan
  <2>1. Quietly /\ lock' = lock
    BY <1>2 DEF ReapScan, db
  <2>2. reap'.todo = {j \in Jobs : Running(j) /\ job[j].old} /\ reap'.doomed = {}
    BY <1>2 DEF ReapScan, Calm
  <2>3. \A w \in Workers : Attempting(w) /\ account # "closed" => Spared(w)'
    <3> SUFFICES ASSUME NEW w \in Workers, Attempting(w), account # "closed" PROVE Spared(w)'
        OBVIOUS
    <3>1. Beats(w) /\ NotSilent(w) /\ MyJob(w)' = MyJob(w)
      BY <2>1, AttemptOf DEF SlotOK, MyJob
    <3>2. MyJob(w) \in reap'.todo =>
            run[w].pc \notin {"locked", "started"} /\ job[MyJob(w)].beat
      BY <2>2, <3>1, AttemptOf DEF Beats, NotSilent
    <3>3. run[w].sub \in reap'.todo => job[run[w].sub].beat
      BY <2>2, <3>1, AttemptOf, ConstantsAssumption DEF Beats, ConstantsAssumption
    <3> QED BY <2>1, <2>2, <3>1, <3>2, <3>3 DEF Spared
  <2> QED BY <1>1, <2>1, <2>3
<1>3. ASSUME NEW j \in Jobs, ReapVisit(j) PROVE RunnerInv'
  <2>1. Quietly
    BY <1>3 DEF ReapVisit, db
  <2>2. \A w \in Workers : Attempting(w) /\ account # "closed" => lock' = lock /\ Spared(w)'
    <3> SUFFICES ASSUME NEW w \in Workers, Attempting(w), account # "closed"
                 PROVE  lock' = lock /\ Spared(w)'
        OBVIOUS
    <3>1. Spared(w) /\ lock.job = MyJob(w) /\ MyJob(w)' = MyJob(w)
      BY <2>1, AttemptOf DEF SlotOK, MyJob
    <3>2. CASE job[j].beat
      <4>1. lock' = lock /\ reap'.todo = reap.todo \ {j} /\ reap'.doomed = reap.doomed
        BY <1>3, <3>2, TypesOf DEF ReapVisit, RunnerInv
      <4> QED BY <2>1, <3>1, <4>1 DEF Spared
    <3>3. CASE ~ job[j].beat
      <4>1. /\ reap'.todo = reap.todo \ {j} /\ reap'.doomed = reap.doomed \cup {j}
            /\ lock' = IF lock.job = j THEN Free ELSE lock
        BY <1>3, <3>3 DEF ReapVisit
      <4>2. j # MyJob(w) /\ j # run[w].sub
        BY <1>3, <3>1, <3>3 DEF ReapVisit, Spared
      <4> QED BY <2>1, <3>1, <4>1, <4>2 DEF Spared
    <3> QED BY <3>2, <3>3
  <2> QED BY <1>1, <2>1, <2>2
<1>4. CASE ReapCommit
  <2>1. \A i \in Jobs : job'[i] = IF i \in reap.doomed THEN Set(job, i, "FAILED")[i] ELSE job[i]
    BY <1>4 DEF ReapCommit
  <2>2. job \in [Jobs -> Row]
    BY TypesOf DEF RunnerInv
  <2>3. \A i \in Jobs : /\ Exists(i) => Exists(i)'
                        /\ Running(i)' => Running(i)
                        /\ job[i].beat => job'[i].beat
                        /\ Running(i)' /\ job'[i].old => job[i].old
    <3> TAKE i \in Jobs
    <3>1. CASE i \in reap.doomed
      <4>1. job'[i].status = "FAILED" /\ job'[i].beat = job[i].beat
        BY <2>1, <2>2, <3>1 DEF Set, Row
      <4> QED BY <4>1 DEF Exists, Running
    <3>2. CASE i \notin reap.doomed
      BY <2>1, <3>2 DEF Exists, Running
    <3> QED BY <3>1, <3>2
  <2> QED BY <1>4, <2>3, RowStep DEF ReapCommit, Calm, RunnerInv, MessagesKnown
<1>5. CASE ReaperDies
  BY <1>5, RowStep DEF ReaperDies, Calm, db, RunnerInv, MessagesKnown, Exists, Running
<1>6. CASE Resume
  <2>1. run' = run /\ reap' = reap /\ lock' = lock /\ account' = account
    BY <1>6 DEF Resume
  <2>2. ASSUME NEW j \in Jobs, ResumeAgain(j) PROVE RunnerInv'
    <3>1. Exists(j) /\ ~ Running(j)
      BY <2>2 DEF ResumeAgain, Latest, Open, Exists
    <3>2. \A i \in Jobs : job'[i].status = job[i].status /\ job'[i].beat = job[i].beat
                          /\ (job'[i].old => job[i].old)
      BY <2>2, TypesOf DEF ResumeAgain, RunnerInv, Row
    <3>3. \A i \in Jobs : Mentioned(i)' => Mentioned(i) \/ i = j
      BY <2>1, <2>2, DelayMentions DEF ResumeAgain
    <3>4. \A i \in Jobs : Mentioned(i)' =>
            Exists(i)' /\ (Running(i)' => Mentioned(i) /\ Running(i))
      BY <3>1, <3>2, <3>3 DEF RunnerInv, MessagesKnown, Exists, Running
    <3>5. \A w \in Workers : Attempting(w) =>
            /\ run[w].sub # NoOne => Exists(run[w].sub)'
            /\ NotSilent(w)'
            /\ account' # "closed" => Beats(w)' /\ Spared(w)'
      BY <2>1, <3>2, RowsStay DEF Exists, Running
    <3>6. \A w \in Workers : ~ Attempting(w) => run[w].pc \in {"idle", "entry"} /\ run[w].sub = NoOne
      BY DEF RunnerInv, Attempting
    <3> QED BY <2>1, <3>4, <3>5, <3>6, Bystander
  <2>3. ASSUME NEW j \in Jobs, Spare(j), job' = New(job, j, Bulk, "PENDING"),
               Delay(Message(j, "resume"))
        PROVE  RunnerInv'
    BY <2>1, <2>3, NewRow, TypesOf DEF Spare, RunnerInv
  <2> QED BY <1>6, <2>2, <2>3 DEF Resume, ResumeAnew
<1> QED BY <1>2, <1>3, <1>4, <1>5, <1>6 DEF Reaper

LEMMA TimeKeepsRunner ==
  ASSUME Reliable, RunnerInv, SyncTypes',
         (\E j \in Jobs : Age(j) \/ BeatEnds(j) \/ Forget(j)) \/ LockEnds
  PROVE  RunnerInv'
<1>0. job \in [Jobs -> Row]
  BY TypesOf DEF RunnerInv
<1>1. ASSUME NEW j \in Jobs, Age(j) PROVE RunnerInv'
  <2>1. /\ run' = run /\ queue' = queue /\ reap' = reap /\ lock' = lock /\ account' = account
        /\ \A i \in Jobs : /\ job'[i].status = job[i].status /\ job'[i].beat = job[i].beat
                           /\ i # j => job'[i] = job[i]
    BY <1>0, <1>1 DEF Age, Row
  <2>2. \A w \in Workers : Attempting(w) =>
          /\ run[w].sub # NoOne => Exists(run[w].sub)'
          /\ NotSilent(w)'
          /\ account' # "closed" => Beats(w)' /\ Spared(w)'
    <3> SUFFICES ASSUME NEW w \in Workers, Attempting(w)
                 PROVE  /\ run[w].sub # NoOne => Exists(run[w].sub)'
                        /\ NotSilent(w)'
                        /\ account' # "closed" => Beats(w)' /\ Spared(w)'
        OBVIOUS
    <3>1. SlotOK(w) /\ MyJob(w) \in Jobs /\ MyJob(w)' = MyJob(w)
      BY <2>1, AttemptOf DEF MyJob
    <3>2. run[w].sub # NoOne => run[w].sub \in Jobs
      BY AttemptOf
    <3>3. NotSilent(w)'
      <4>1. run[w].pc \in {"locked", "started"} => MyJob(w) # j
        BY <1>1 DEF Age
      <4> QED BY <2>1, <3>1, <4>1 DEF SlotOK, NotSilent, Running
    <3>4. account' # "closed" => Beats(w)' /\ Spared(w)'
      BY <2>1, <3>1, <3>2, AttemptOf DEF SlotOK, Beats, Spared
    <3>5. run[w].sub # NoOne => Exists(run[w].sub)'
      BY <2>1, <3>1, <3>2 DEF SlotOK, RowsApart, Exists
    <3> QED BY <3>3, <3>4, <3>5
  <2>3. \A i \in Jobs : Mentioned(i)' =>
          Exists(i)' /\ (Running(i)' => Mentioned(i) /\ Running(i))
    BY <2>1, SameMentions DEF RunnerInv, MessagesKnown, Exists, Running
  <2>4. \A w \in Workers : ~ Attempting(w) => run[w].pc \in {"idle", "entry"} /\ run[w].sub = NoOne
    BY DEF RunnerInv, Attempting
  <2> QED BY <2>1, <2>2, <2>3, <2>4, Bystander
<1>2. ASSUME NEW j \in Jobs, BeatEnds(j) PROVE RunnerInv'
  <2>1. ~ Alive(j)
    BY <1>2 DEF BeatEnds, Fault, Reliable
  <2>2. /\ run' = run /\ queue' = queue /\ reap' = reap /\ lock' = lock /\ account' = account
        /\ \A i \in Jobs : /\ job'[i].status = job[i].status /\ job'[i].old = job[i].old
                           /\ i # j => job'[i] = job[i]
    BY <1>0, <1>2 DEF BeatEnds, Row
  <2>3. \A w \in Workers : Attempting(w) =>
          /\ run[w].sub # NoOne => Exists(run[w].sub)'
          /\ NotSilent(w)'
          /\ account' # "closed" => Beats(w)' /\ Spared(w)'
    <3> SUFFICES ASSUME NEW w \in Workers, Attempting(w)
                 PROVE  /\ run[w].sub # NoOne => Exists(run[w].sub)'
                        /\ NotSilent(w)'
                        /\ account' # "closed" => Beats(w)' /\ Spared(w)'
        OBVIOUS
    <3>1. SlotOK(w) /\ MyJob(w) \in Jobs /\ MyJob(w)' = MyJob(w)
      BY <2>2, AttemptOf DEF MyJob
    <3>2. run[w].sub # NoOne => run[w].sub \in Jobs
      BY AttemptOf
    <3>3. run[w].pc \notin {"locked", "started"} => MyJob(w) # j
      BY <2>1, AttemptOf DEF Alive
    <3>4. run[w].sub # j
      BY <2>1, AttemptOf, ConstantsAssumption DEF Alive, ConstantsAssumption
    <3>5. account' # "closed" => Beats(w)' /\ Spared(w)'
      <4>1. account' # "closed" => Beats(w)'
        BY <2>2, <3>1, <3>2, <3>3, <3>4 DEF SlotOK, Beats
      <4>2. account' # "closed" => Spared(w)'
        BY <2>2, <3>1, <3>2, <3>3, <3>4, AttemptOf DEF SlotOK, Spared
      <4> QED BY <4>1, <4>2
    <3>6. NotSilent(w)' /\ (run[w].sub # NoOne => Exists(run[w].sub)')
      BY <2>2, <3>1, <3>2 DEF SlotOK, NotSilent, RowsApart, Exists, Running
    <3> QED BY <3>5, <3>6
  <2>4. \A i \in Jobs : Mentioned(i)' =>
          Exists(i)' /\ (Running(i)' => Mentioned(i) /\ Running(i))
    BY <2>2, SameMentions DEF RunnerInv, MessagesKnown, Exists, Running
  <2>5. \A w \in Workers : ~ Attempting(w) => run[w].pc \in {"idle", "entry"} /\ run[w].sub = NoOne
    BY DEF RunnerInv, Attempting
  <2> QED BY <2>2, <2>3, <2>4, <2>5, Bystander
<1>3. ASSUME NEW j \in Jobs, Forget(j) PROVE RunnerInv'
  <2>1. /\ run' = run /\ queue' = queue /\ reap' = reap /\ lock' = lock /\ account' = account
        /\ \A i \in Jobs : i # j => job'[i] = job[i]
    BY <1>0, <1>3 DEF Forget
  <2>2. ~ Mentioned(j) /\ \A w \in Workers : Attempting(w) => j \notin {MyJob(w), run[w].sub}
    BY <1>3 DEF Forget, Referenced, Mentioned, Attempting, Busy
  <2> QED BY <2>1, <2>2, RowStep DEF RunnerInv, MessagesKnown, Exists, Running
<1>4. CASE LockEnds
  <2>1. lock.by = NoOne
    BY <1>4 DEF LockEnds, Fault, Reliable
  <2>2. /\ job' = job /\ run' = run /\ queue' = queue /\ reap' = reap /\ account' = account
    BY <1>4 DEF LockEnds, db
  <2>3. \A w \in Workers : Attempting(w) /\ account' # "closed" => lock' = lock
    BY <2>1, <2>2, AttemptOf DEF SlotOK
  <2> QED BY <2>2, <2>3, RowStep DEF RunnerInv, MessagesKnown, Exists, Running
<1> QED BY <1>1, <1>2, <1>3, <1>4

-----------------------------------------------------------------------------
(* The rows that a run or the reaper works on stay, and keep their chat. *)

Kept(i) == Exists(i)' /\ job'[i].chat = job[i].chat

\* Only a run for all chats has the row of a chat beside its own.
SubsAreOfBulk == \A w \in Workers :
                   run[w].sub # NoOne \/ run[w].pc = "between" => ~ Single(w)
ReapedExist   == \A i \in reap.todo \cup reap.doomed : Exists(i)
RowsInv       == SubsAreOfBulk /\ ReapedExist

LEMMA StatusesExist == "absent" \notin Statuses
  BY DEF Statuses, Terminal

LEMMA SetKeeps ==
  ASSUME NEW jobs \in [Jobs -> Row], NEW j, NEW s \in Statuses, NEW i \in Jobs,
         jobs[i].status # "absent"
  PROVE  /\ Set(jobs, j, s)[i].status # "absent"
         /\ Set(jobs, j, s)[i].chat = jobs[i].chat
  BY StatusesExist DEF Set, Row

LEMMA MarkKeeps ==
  ASSUME NEW jobs \in [Jobs -> Row], NEW j, NEW s \in Statuses, NEW i \in Jobs,
         jobs[i].status # "absent"
  PROVE  /\ Mark(jobs, j, s)[i].status # "absent"
         /\ Mark(jobs, j, s)[i].chat = jobs[i].chat
<1>1. Mark(jobs, j, s) \in {jobs, Set(jobs, j, s)}
  BY DEF Mark
<1> QED BY <1>1, SetKeeps

\* Heartbeats do not touch the status of a row.
LEMMA EndOfChat ==
  ASSUME NEW jobs \in [Jobs -> Row], NEW a, NEW b, NEW kept \in BOOLEAN, NEW rows,
         rows = [jobs EXCEPT ![a].beat = FALSE, ![b].beat = TRUE, ![b].old = @ /\ kept]
  PROVE  \A i \in Jobs : /\ rows[i].status = jobs[i].status /\ rows[i].chat = jobs[i].chat
                         /\ i # a /\ jobs[i].beat => rows[i].beat
                         /\ i = b => rows[i].beat
<1> DEFINE first  == [jobs EXCEPT ![a].beat = FALSE]
           second == [first EXCEPT ![b].beat = TRUE]
<1>1. first \in [Jobs -> Row]
  BY MarkBeat
<1>2. second \in [Jobs -> Row]
  <2> HIDE DEF first
  <2> QED BY <1>1, MarkBeat
<1>3. rows = [second EXCEPT ![b].old = @ /\ kept]
  OBVIOUS
<1>4. \A i \in Jobs : /\ first[i].status = jobs[i].status /\ first[i].chat = jobs[i].chat
                      /\ i # a => first[i] = jobs[i]
  BY DEF Row
<1>5. \A i \in Jobs : /\ second[i].status = first[i].status /\ second[i].chat = first[i].chat
                      /\ i # b => second[i] = first[i]
                      /\ i = b => second[i].beat
  <2> HIDE DEF first
  <2> QED BY <1>1 DEF Row
<1>6. \A i \in Jobs : /\ rows[i].status = second[i].status /\ rows[i].chat = second[i].chat
                      /\ rows[i].beat <=> second[i].beat
  <2> HIDE DEF second
  <2> QED BY <1>2, <1>3 DEF Row
<1> HIDE DEF first, second
<1> QED BY <1>1, <1>2, <1>4, <1>5, <1>6 DEF Row

LEMMA BothBeat ==
  ASSUME NEW jobs \in [Jobs -> Row], NEW a, NEW b, NEW rows,
         rows = [jobs EXCEPT ![a].beat = TRUE, ![b].beat = TRUE]
  PROVE  \A i \in Jobs : /\ rows[i].status = jobs[i].status /\ rows[i].chat = jobs[i].chat
                         /\ rows[i].old = jobs[i].old
                         /\ rows[i].beat <=> (jobs[i].beat \/ i \in {a, b})
<1> DEFINE first == [jobs EXCEPT ![a].beat = TRUE]
<1>1. first \in [Jobs -> Row]
  BY MarkBeat
<1>2. rows = [first EXCEPT ![b].beat = TRUE]
  OBVIOUS
<1>3. \A i \in Jobs : /\ first[i].status = jobs[i].status /\ first[i].chat = jobs[i].chat
                      /\ first[i].old = jobs[i].old
                      /\ first[i].beat <=> (jobs[i].beat \/ i = a)
  BY DEF Row
<1> HIDE DEF first
<1>4. \A i \in Jobs : /\ rows[i].status = first[i].status /\ rows[i].chat = first[i].chat
                      /\ rows[i].old = first[i].old
                      /\ rows[i].beat <=> (first[i].beat \/ i = b)
  BY <1>1, <1>2 DEF Row
<1>5. ASSUME NEW i \in Jobs
      PROVE  rows[i].status = jobs[i].status /\ rows[i].chat = jobs[i].chat /\ rows[i].old = jobs[i].old
  BY <1>1, <1>3, <1>4 DEF Row
<1>6. ASSUME NEW i \in Jobs PROVE rows[i].beat <=> (jobs[i].beat \/ i \in {a, b})
  BY <1>3, <1>4
<1> QED BY <1>5, <1>6

LEMMA NextRow ==
  ASSUME job \in [Jobs -> Row], NEW w \in Workers, NEW c \in Chats, NEW j \in Jobs,
         NextChat(w, c, j), MyJob(w) \in Jobs, MyJob(w) # j
  PROVE  /\ job'[j].status = "IN_PROGRESS" /\ job'[j].beat
         /\ \A i \in Jobs \ {j} : /\ job'[i].status = job[i].status /\ job'[i].chat = job[i].chat
                                  /\ job'[i].old = job[i].old
                                  /\ job'[i].beat <=> (job[i].beat \/ i = MyJob(w))
<1> DEFINE new == New(job, j, c, "IN_PROGRESS")
           b   == MyJob(w)
<1>1. new \in [Jobs -> Row]
  BY NewTyped DEF Statuses
<1>2. new[j].status = "IN_PROGRESS" /\ \A i \in Jobs \ {j} : new[i] = job[i]
  BY DEF New
<1>3. job' = [new EXCEPT ![j].beat = TRUE, ![b].beat = TRUE]
  BY DEF NextChat
<1> HIDE DEF new, b
<1>4. \A i \in Jobs : /\ job'[i].status = new[i].status /\ job'[i].chat = new[i].chat
                      /\ job'[i].old = new[i].old
                      /\ job'[i].beat <=> (new[i].beat \/ i \in {j, b})
  BY <1>1, <1>3, BothBeat DEF Row
<1> QED BY <1>1, <1>2, <1>4 DEF b, Row

LEMMA ProgressRows ==
  ASSUME NEW jobs \in [Jobs -> Row], NEW a, NEW b, NEW kept \in BOOLEAN, NEW rows,
         rows = [jobs EXCEPT ![a].beat = TRUE, ![b].beat = TRUE, ![a].old = @ /\ kept]
  PROVE  \A i \in Jobs : /\ rows[i].status = jobs[i].status /\ rows[i].chat = jobs[i].chat
                         /\ jobs[i].beat \/ i \in {a, b} => rows[i].beat
<1> DEFINE both == [jobs EXCEPT ![a].beat = TRUE, ![b].beat = TRUE]
           first == [jobs EXCEPT ![a].beat = TRUE]
<1>1. first \in [Jobs -> Row]
  BY MarkBeat
<1>2. both = [first EXCEPT ![b].beat = TRUE]
  OBVIOUS
<1>3. both \in [Jobs -> Row]
  <2> HIDE DEF first, both
  <2> QED BY <1>1, <1>2, MarkBeat
<1>4. rows = [both EXCEPT ![a].old = @ /\ kept]
  OBVIOUS
<1>5. \A i \in Jobs : /\ both[i].status = jobs[i].status /\ both[i].chat = jobs[i].chat
                      /\ both[i].beat <=> (jobs[i].beat \/ i \in {a, b})
  BY BothBeat DEF Row
<1> HIDE DEF both
<1>6. \A i \in Jobs : /\ rows[i].status = both[i].status /\ rows[i].chat = both[i].chat
                      /\ rows[i].beat <=> both[i].beat
  BY <1>3, <1>4 DEF Row
<1> QED BY <1>3, <1>5, <1>6 DEF Row

\* The steps of an attempt before its end.
OwnStepOf(w) ==
  \/ Start(w) \/ Touch(w) \/ Progress(w) \/ ChatSynced(w) \/ ChatDone(w)
  \/ \E c \in Chats, j \in Jobs : NextChat(w, c, j)
  \/ ChatFailed(w) \/ FinishBulk(w) \/ BulkBreaks(w) \/ Unauthorized(w) \/ Flood(w) \/ Error(w)

\* They make no other row run, and keep every row.
OwnRows(w) ==
  \A i \in Jobs : Exists(i) => Kept(i) /\ (i # MyJob(w) => (Running(i)' => Running(i)))

LEMMA OwnStepRows ==
  ASSUME RunnerInv, NEW w \in Workers, Attempting(w), OwnStepOf(w) PROVE OwnRows(w)
<1>0. job \in [Jobs -> Row] /\ MyJob(w) \in Jobs /\ Exists(MyJob(w)) /\ "absent" \notin Statuses
  BY TypesOf, AttemptOf, StatusesExist DEF RunnerInv
<1> DEFINE Goes(i) == Kept(i) /\ (i # MyJob(w) => (Running(i)' => Running(i)))
<1>1. ASSUME job' = job PROVE OwnRows(w)
  BY <1>1 DEF OwnRows, Kept, Exists, Running
<1>2. ASSUME NEW s \in Statuses, job' = Set(job, MyJob(w), s) PROVE OwnRows(w)
  <2> SUFFICES ASSUME NEW i \in Jobs, Exists(i) PROVE Goes(i)
      BY DEF OwnRows
  <2>1. Kept(i)
    BY <1>0, <1>2, SetKeeps DEF Kept, Exists
  <2>2. i # MyJob(w) => job'[i] = job[i]
    BY <1>0, <1>2 DEF Set
  <2> QED BY <2>1, <2>2 DEF Running
<1>3. ASSUME NEW s \in Statuses, job' = Mark(job, MyJob(w), s) PROVE OwnRows(w)
  BY <1>1, <1>2, <1>3 DEF Mark
<1>4. ASSUME NEW jobs \in [Jobs -> Row],
             \A i \in Jobs : jobs[i].status = job[i].status /\ jobs[i].chat = job[i].chat,
             NEW s \in Statuses, job' = Mark(jobs, MyJob(w), s)
      PROVE  OwnRows(w)
  <2> SUFFICES ASSUME NEW i \in Jobs, Exists(i) PROVE Goes(i)
      BY DEF OwnRows
  <2>1. Kept(i)
    <3>1. jobs[i].status # "absent"
      BY <1>4 DEF Exists
    <3> QED BY <1>4, <3>1, MarkKeeps DEF Kept, Exists
  <2>2. i # MyJob(w) => job'[i] = jobs[i]
    BY <1>4 DEF Mark, Set
  <2> QED BY <1>4, <2>1, <2>2 DEF Running
<1>5. ASSUME \A i \in Jobs : job'[i].status = job[i].status /\ job'[i].chat = job[i].chat
      PROVE  OwnRows(w)
  BY <1>5 DEF OwnRows, Kept, Exists, Running
<1>6. ASSUME NEW s \in {"COMPLETED", "FAILED"}, NEW kept \in BOOLEAN,
             job' = [Set(job, run[w].sub, s) EXCEPT
                       ![run[w].sub].beat = FALSE, ![MyJob(w)].beat = TRUE,
                       ![MyJob(w)].old = @ /\ kept]
      PROVE  OwnRows(w)
  <2> DEFINE jobs == Set(job, run[w].sub, s)
  <2>1. s \in Statuses
    BY DEF Statuses, Terminal
  <2>2. jobs \in [Jobs -> Row]
    BY <1>0, <2>1, SetTyped
  <2>3. \A i \in Jobs : Exists(i) => jobs[i].status # "absent" /\ jobs[i].chat = job[i].chat
    BY <1>0, <2>1, SetKeeps DEF Exists
  <2>4. \A i \in Jobs : jobs[i].status = "IN_PROGRESS" => job[i].status = "IN_PROGRESS"
    BY <1>0 DEF Set, Row
  <2>5. job' = [jobs EXCEPT ![run[w].sub].beat = FALSE, ![MyJob(w)].beat = TRUE,
                            ![MyJob(w)].old = @ /\ kept]
    BY <1>6
  <2> HIDE DEF jobs
  <2>6. \A i \in Jobs : job'[i].status = jobs[i].status /\ job'[i].chat = jobs[i].chat
    BY <2>2, <2>5, EndOfChat DEF Row
  <2> QED BY <2>3, <2>4, <2>6 DEF OwnRows, Kept, Exists, Running
<1>7. CASE Start(w)
  BY <1>1, <1>2, <1>7 DEF Start, Statuses, Terminal
<1>8. CASE Touch(w)
  BY <1>0, <1>5, <1>8 DEF Touch, MyJob, Row
<1>9. CASE Progress(w)
  BY <1>0, <1>5, <1>9, ProgressRows DEF Progress, Row
<1>10. CASE ChatSynced(w)
  BY <1>1, <1>10 DEF ChatSynced
<1>11. CASE ChatDone(w)
  BY <1>2, <1>6, <1>11 DEF ChatDone, Statuses, Terminal
<1>12. ASSUME NEW c \in Chats, NEW j \in Jobs, NextChat(w, c, j) PROVE OwnRows(w)
  <2>1. ~ Exists(j) /\ j # MyJob(w)
    BY <1>0, <1>12, UnusedIsNew DEF NextChat
  <2>2. \A i \in Jobs \ {j} : job'[i].status = job[i].status /\ job'[i].chat = job[i].chat
    BY <1>0, <1>12, <2>1, NextRow DEF Row
  <2> QED BY <2>1, <2>2 DEF OwnRows, Kept, Exists, Running
<1>13. CASE ChatFailed(w)
  BY <1>6, <1>13 DEF ChatFailed
<1>14. CASE FinishBulk(w)
  BY <1>2, <1>14 DEF FinishBulk, Statuses, Terminal
<1>15. CASE BulkBreaks(w)
  <2> DEFINE jobs == IF run[w].sub = NoOne THEN job ELSE [job EXCEPT ![run[w].sub].beat = FALSE]
  <2>1. jobs \in [Jobs -> Row]
    BY <1>0, MarkBeat
  <2>2. \A i \in Jobs : jobs[i].status = job[i].status /\ jobs[i].chat = job[i].chat
    BY <1>0 DEF Row
  <2>3. job' = Mark(jobs, MyJob(w), "FAILED") /\ "FAILED" \in Statuses
    BY <1>15 DEF BulkBreaks, Statuses, Terminal
  <2> HIDE DEF jobs
  <2> QED BY <1>4, <2>1, <2>2, <2>3
<1>16. CASE Unauthorized(w) \/ Flood(w) \/ Error(w)
  BY <1>3, <1>16 DEF Unauthorized, Flood, Error, Statuses, Terminal
<1> QED BY <1>7, <1>8, <1>9, <1>10, <1>11, <1>12, <1>13, <1>14, <1>15, <1>16 DEF OwnStepOf

\* Every step but those of an attempt keeps the rows that something refers to.
LEMMA OtherRows ==
  ASSUME SyncTypes, NEW r \in Jobs, Exists(r), Referenced(r),
         \/ UserStep \/ Reaper \/ ReaperDies \/ LockEnds \/ UNCHANGED vars
         \/ \E j \in Jobs : Age(j) \/ BeatEnds(j) \/ Forget(j)
         \/ \E w \in Workers :
              \/ \E m \in BagToSet(queue) : Take(w, m)
              \/ Skip(w) \/ Acquire(w) \/ Turned(w) \/ Release(w)
              \/ Defer(w) \/ Crash(w) \/ Redeliver(w)
  PROVE  Kept(r)
<1>0. job \in [Jobs -> Row] /\ "absent" \notin Statuses /\ job[r].status # "absent"
  BY TypesOf, StatusesExist DEF Exists
<1>1. ASSUME job'[r] = job[r] PROVE Kept(r)
  BY <1>1 DEF Kept, Exists
<1>2. ASSUME NEW j \in Jobs, NEW s \in Statuses,
             job'[r] = Set(job, j, s)[r] \/ job'[r] = Mark(job, j, s)[r]
      PROVE  Kept(r)
  BY <1>0, <1>2, SetKeeps, MarkKeeps DEF Kept, Exists
<1>3. ASSUME NEW jobs, NEW j, Unused(j), NEW c, NEW s, job' = New(jobs, j, c, s) PROVE job'[r] = jobs[r]
  <2>1. j # r
    BY <1>3, UnusedIsNew
  <2> QED BY <1>3, <2>1 DEF New
<1>4. ASSUME job'[r].status = job[r].status, job'[r].chat = job[r].chat PROVE Kept(r)
  BY <1>4 DEF Kept, Exists
<1>5. CASE UserStep
  <2>1. ASSUME NEW c \in Chats \cup {Bulk}, NEW j \in Jobs, NEW mode \in UserModes,
               StartSync(c, j, mode)
        PROVE  Kept(r)
    <3>1. job'[r] = ExpireStale(c)[r]
      BY <1>3, <2>1 DEF StartSync, Spare
    <3>2. job'[r] \in {job[r], Set(job, r, "FAILED")[r]}
      BY <3>1 DEF ExpireStale
    <3> QED BY <1>1, <1>2, <3>2 DEF Statuses, Terminal
  <2>2. ASSUME NEW S \in SUBSET Chats, SelectChats(S) PROVE Kept(r)
    BY <1>1, <1>3, <2>2 DEF SelectChats, Spare
  <2>3. CASE Deactivate
    BY <1>1, <1>2, <2>3 DEF Deactivate, Statuses, Terminal
  <2>4. CASE Purge
    BY <1>0, <1>4, <2>4 DEF Purge, Row
  <2> QED BY <1>1, <1>5, <2>1, <2>2, <2>3, <2>4 DEF UserStep, Login
<1>6. CASE Reaper \/ ReaperDies
  <2>1. CASE ReapCommit
    BY <1>1, <1>2, <2>1 DEF ReapCommit, Statuses, Terminal
  <2>2. ASSUME NEW j \in Jobs, ResumeAgain(j) PROVE Kept(r)
    BY <1>0, <1>4, <2>2 DEF ResumeAgain, Row
  <2>3. CASE ResumeAnew
    BY <1>1, <1>3, <2>3 DEF ResumeAnew, Spare
  <2> QED BY <1>1, <1>6, <2>1, <2>2, <2>3 DEF Reaper, ReapScan, ReapVisit, ReaperDies, Resume, db
<1>7. ASSUME NEW j \in Jobs, Age(j) \/ BeatEnds(j) PROVE Kept(r)
  BY <1>0, <1>4, <1>7 DEF Age, BeatEnds, Row
<1>8. ASSUME NEW j \in Jobs, Forget(j) PROVE Kept(r)
  BY <1>1, <1>8 DEF Forget
<1>9. ASSUME NEW w \in Workers, Skip(w) \/ Turned(w) PROVE Kept(r)
  <2>1. MyJob(w) \in Jobs
    BY <1>9, TypesOf DEF Skip, Turned, At
  <2> QED BY <1>2, <1>9, <2>1 DEF Skip, Turned, Statuses, Terminal
<1>10. ASSUME NEW w \in Workers, Release(w) PROVE Kept(r)
  BY <1>0, <1>4, <1>10 DEF Release, Row
<1>11. ASSUME NEW w \in Workers,
              \/ \E m \in BagToSet(queue) : Take(w, m)
              \/ Acquire(w) \/ Defer(w) \/ Crash(w) \/ Redeliver(w)
       PROVE  Kept(r)
  BY <1>1, <1>11 DEF Take, Acquire, Defer, Crash, Redeliver, db
<1> QED BY <1>1, <1>5, <1>6, <1>7, <1>8, <1>9, <1>10, <1>11 DEF LockEnds, db, vars

\* What the steps do to the slots: they begin and end attempts, or take one further.
LEMMA OtherSlots ==
  ASSUME SyncTypes, NEW v \in Workers,
         \/ UserStep \/ Reaper \/ ReaperDies \/ LockEnds \/ UNCHANGED vars
         \/ \E j \in Jobs : Age(j) \/ BeatEnds(j) \/ Forget(j)
         \/ \E w \in Workers :
              \/ \E m \in BagToSet(queue) : Take(w, m)
              \/ Skip(w) \/ Acquire(w) \/ Turned(w) \/ Release(w)
              \/ Defer(w) \/ Crash(w) \/ Redeliver(w)
  PROVE  \/ run'[v] = run[v]
         \/ run'[v].pc \in {"idle", "entry"} /\ run'[v].sub = NoOne
         \/ run'[v].pc = "locked" /\ run'[v].sub = run[v].sub /\ run[v].pc = "entry"
<1>0. run \in [Workers -> SlotState]
  BY TypesOf
<1>1. ASSUME NEW w \in Workers, \E m \in BagToSet(queue) : Take(w, m)
      PROVE  run'[v] = run[v] \/ (run'[v].pc = "entry" /\ run'[v].sub = NoOne)
  <2>1. PICK m \in BagToSet(queue) : run' = [run EXCEPT ![w] = [Idle EXCEPT !.pc = "entry", !.msg = m]]
    BY <1>1 DEF Take
  <2> DEFINE s == [Idle EXCEPT !.pc = "entry", !.msg = m]
  <2>2. run' = [run EXCEPT ![w] = s]
    BY <2>1
  <2>3. s.pc = "entry" /\ s.sub = NoOne
    BY DEF Idle
  <2> HIDE DEF s
  <2>4. run'[v] = run[v] \/ run'[v] = s
    BY <1>0, <2>2
  <2>5. CASE run'[v] = s
    BY <2>3, <2>5, Zenon
  <2> QED BY <2>4, <2>5
<1>2. ASSUME NEW w \in Workers, End(w)
      PROVE  run'[v] = run[v] \/ (run'[v].pc = "idle" /\ run'[v].sub = NoOne)
  <2>1. run' = [run EXCEPT ![w] = Idle]
    BY <1>2 DEF End
  <2>2. run'[v] = run[v] \/ run'[v] = Idle
    BY <1>0, <2>1
  <2>3. Idle.pc = "idle" /\ Idle.sub = NoOne
    BY DEF Idle
  <2>4. CASE run'[v] = Idle
    BY <2>3, <2>4, Zenon
  <2> QED BY <2>2, <2>4
<1>3. ASSUME NEW w \in Workers, Acquire(w)
      PROVE  \/ run'[v] = run[v]
             \/ run'[v].pc = "locked" /\ run'[v].sub = run[v].sub /\ run[v].pc = "entry"
  BY <1>0, <1>3 DEF Acquire, Goto, At, SlotState
<1>4. CASE \E w \in Workers :
              \/ \E m \in BagToSet(queue) : Take(w, m)
              \/ Skip(w) \/ Acquire(w) \/ Turned(w) \/ Release(w)
              \/ Defer(w) \/ Crash(w) \/ Redeliver(w)
  BY <1>1, <1>2, <1>3, <1>4 DEF Skip, Turned, Release, Defer, Crash, Redeliver
<1> QED BY <1>4 DEF UserStep, StartSync, SelectChats, Deactivate, Purge, Login, Reaper, ReapScan,
           ReapVisit, ReapCommit, Resume, ReaperDies, LockEnds, vars, Age, BeatEnds, Forget

\* A step of an attempt leaves the other slots alone, and keeps its message and,
\* for a run of one chat, its single row.
LEMMA OwnSlot ==
  ASSUME RunnerInv, RowsInv, NEW w \in Workers, Attempting(w), OwnStepOf(w)
  PROVE  /\ \A v \in Workers \ {w} : run'[v] = run[v]
         /\ run'[w].msg = run[w].msg
         /\ run'[w].sub # NoOne \/ run'[w].pc = "between" => ~ Single(w)
<1>0. run \in [Workers -> SlotState]
  BY TypesOf DEF RunnerInv
<1> DEFINE Rest == \A v \in Workers \ {w} : run'[v] = run[v]
<1>1. ASSUME NEW pc, Goto(w, pc)
      PROVE  Rest /\ run'[w].msg = run[w].msg /\ run'[w].sub = run[w].sub /\ run'[w].pc = pc
  BY <1>0, <1>1 DEF Goto, SlotState
<1>2. run[w].sub # NoOne \/ run[w].pc = "between" => ~ Single(w)
  BY DEF RowsInv, SubsAreOfBulk
<1>3. CASE Start(w) \/ ChatSynced(w) \/ FinishBulk(w) \/ Unauthorized(w) \/ Flood(w) \/ Error(w)
  BY <1>1, <1>2, <1>3 DEF Start, ChatSynced, FinishBulk, Unauthorized, Flood, Error
<1>4. CASE Touch(w)
  <2>1. CASE Single(w)
    BY <1>1, <1>2, <1>4, <2>1 DEF Touch
  <2>2. CASE ~ Single(w)
    BY <1>0, <1>4, <2>2 DEF Touch, SlotState
  <2> QED BY <2>1, <2>2
<1>5. CASE Progress(w)
  BY <1>2, <1>5 DEF Progress
<1>6. CASE ChatDone(w)
  <2>1. CASE Single(w)
    BY <1>1, <1>2, <1>6, <2>1 DEF ChatDone
  <2>2. CASE ~ Single(w)
    BY <1>0, <1>6, <2>2 DEF ChatDone, SlotState
  <2> QED BY <2>1, <2>2
<1>7. ASSUME NEW c \in Chats, NEW j \in Jobs, NextChat(w, c, j)
      PROVE  Rest /\ run'[w].msg = run[w].msg /\ ~ Single(w)
  BY <1>0, <1>2, <1>7 DEF NextChat, At, SlotState
<1>8. CASE ChatFailed(w) \/ BulkBreaks(w)
  <2>1. CASE ChatFailed(w)
    BY <1>0, <2>1 DEF ChatFailed, SlotState
  <2>2. CASE BulkBreaks(w)
    BY <1>0, <2>2 DEF BulkBreaks, SlotState
  <2> QED BY <1>8, <2>1, <2>2
<1> QED BY <1>3, <1>4, <1>5, <1>6, <1>7, <1>8 DEF OwnStepOf

LEMMA ReaperMoves ==
  ASSUME [Next]_vars
  PROVE  reap' = reap \/ reap' = Calm \/ ReapScan \/ \E j \in Jobs : ReapVisit(j)
<1>1. UserStep => reap' = reap
  BY DEF UserStep, StartSync, SelectChats, Deactivate, Purge, Login
<1>2. ASSUME NEW w \in Workers,
             (\E m \in BagToSet(queue) : Take(w, m)) \/ Skip(w) \/ Acquire(w) \/ Turned(w)
               \/ Release(w) \/ Trouble(w)
      PROVE  reap' = reap
  BY <1>2 DEF Take, Skip, Acquire, Turned, Release, Trouble, Defer, Unauthorized, Flood, Crash, Redeliver
<1>3. ASSUME NEW w \in Workers, OwnStepOf(w) PROVE reap' = reap
  BY <1>3 DEF OwnStepOf, Start, Touch, NextChat, ChatSynced, ChatDone, ChatFailed, FinishBulk,
          BulkBreaks, Error, Progress, Unauthorized, Flood
<1>4. Reaper \/ ReaperDies => reap' = reap \/ reap' = Calm \/ ReapScan \/ \E j \in Jobs : ReapVisit(j)
  BY DEF Reaper, ReapCommit, Resume, ReaperDies
<1>5. (\E j \in Jobs : Age(j) \/ BeatEnds(j) \/ Forget(j)) \/ LockEnds \/ UNCHANGED vars => reap' = reap
  BY DEF Age, BeatEnds, Forget, LockEnds, vars
<1> QED BY <1>1, <1>2, <1>3, <1>4, <1>5 DEF Next, Work, OwnStepOf

LEMMA OwnAttempts ==
  ASSUME NEW w \in Workers, OwnStepOf(w) PROVE Attempting(w)
<1>1. run[w].pc \in {"locked", "started", "between", "syncing", "synced"}
  BY DEF OwnStepOf, At, Start, Touch, NextChat, ChatSynced, ChatDone, ChatFailed, FinishBulk,
         BulkBreaks, Error, Progress, Unauthorized, Flood
<1> QED BY <1>1 DEF Attempting

LEMMA OwnOrOther ==
  ASSUME [Next]_vars
  PROVE  \/ UserStep \/ Reaper \/ ReaperDies \/ LockEnds \/ UNCHANGED vars
         \/ \E j \in Jobs : Age(j) \/ BeatEnds(j) \/ Forget(j)
         \/ \E w \in Workers :
              \/ \E m \in BagToSet(queue) : Take(w, m)
              \/ Skip(w) \/ Acquire(w) \/ Turned(w) \/ Release(w)
              \/ Defer(w) \/ Crash(w) \/ Redeliver(w)
         \/ \E w \in Workers : Attempting(w) /\ OwnStepOf(w)
  BY OwnAttempts DEF Next, Work, Trouble, OwnStepOf

LEMMA RowsStep ==
  ASSUME RunnerInv, RowsInv, SyncTypes', [Next]_vars PROVE RowsInv'
<1> USE DEF RunnerInv
<1>1. ASSUME \A i \in Jobs : Exists(i) /\ Referenced(i) => Kept(i) PROVE ReapedExist'
  <2>1. \A i \in reap'.todo \cup reap'.doomed :
          i \in Jobs /\ Exists(i) /\ (i \in reap.todo \cup reap.doomed \/ job' = job)
    <3>1. reap' = reap \/ reap' = Calm \/ ReapScan \/ \E j \in Jobs : ReapVisit(j)
      BY ReaperMoves
    <3>2. CASE reap' = reap
      BY <3>2, TypesOf DEF RowsInv, ReapedExist
    <3>3. CASE reap' = Calm
      BY <3>3 DEF Calm
    <3>4. CASE ReapScan
      BY <3>4, TypesOf DEF ReapScan, Calm, db, Running, Exists
    <3>5. ASSUME NEW j \in Jobs, ReapVisit(j)
          PROVE  \A i \in reap'.todo \cup reap'.doomed : i \in reap.todo \cup reap.doomed
      <4>1. CASE job[j].beat
        BY <3>5, <4>1, TypesOf DEF ReapVisit
      <4>2. CASE ~ job[j].beat
        BY <3>5, <4>2, TypesOf DEF ReapVisit
      <4> QED BY <4>1, <4>2
    <3>6. \A i \in reap.todo \cup reap.doomed : i \in Jobs /\ Exists(i)
      BY TypesOf DEF RowsInv, ReapedExist
    <3> QED BY <3>1, <3>2, <3>3, <3>4, <3>5, <3>6
  <2>2. \A i \in reap'.todo \cup reap'.doomed : Exists(i)'
    BY <1>1, <2>1 DEF Referenced, Kept, Exists
  <2> QED BY <2>2 DEF ReapedExist
<1>2. ASSUME NEW w \in Workers, Attempting(w), OwnStepOf(w) PROVE RowsInv'
  <2>1. \A i \in Jobs : Exists(i) => Kept(i)
    BY <1>2, OwnStepRows DEF OwnRows
  <2>2. ReapedExist'
    BY <1>1, <2>1
  <2>3. MyJob(w) \in Jobs /\ Exists(MyJob(w))
    BY <1>2, AttemptOf
  <2>4. run'[w].msg = run[w].msg /\ (run'[w].sub # NoOne \/ run'[w].pc = "between" => ~ Single(w))
        /\ \A v \in Workers \ {w} : run'[v] = run[v]
    BY <1>2, OwnSlot
  <2>5. (run'[w].sub # NoOne \/ run'[w].pc = "between") => ~ Single(w)'
    BY <2>1, <2>3, <2>4 DEF Single, IsBulk, Kept, MyJob
  <2>6. \A v \in Workers \ {w} : run'[v].sub = NoOne /\ run'[v].pc # "between"
    BY <1>2, <2>4 DEF Alone, Attempting
  <2> QED BY <2>2, <2>5, <2>6 DEF RowsInv, SubsAreOfBulk
<1> DEFINE Other == \/ UserStep \/ Reaper \/ ReaperDies \/ LockEnds \/ UNCHANGED vars
                    \/ \E j \in Jobs : Age(j) \/ BeatEnds(j) \/ Forget(j)
                    \/ \E w \in Workers :
                         \/ \E m \in BagToSet(queue) : Take(w, m)
                         \/ Skip(w) \/ Acquire(w) \/ Turned(w) \/ Release(w)
                         \/ Defer(w) \/ Crash(w) \/ Redeliver(w)
<1>3. CASE Other
  <2>1. \A i \in Jobs : Exists(i) /\ Referenced(i) => Kept(i)
    BY <1>3, OtherRows
  <2>2. ReapedExist'
    BY <1>1, <2>1
  <2>3. ASSUME NEW v \in Workers, run'[v].sub # NoOne \/ run'[v].pc = "between"
        PROVE  ~ Single(v)'
    <3>1. run'[v] = run[v]
      <4>1. run[v].pc = "entry" => run[v].sub = NoOne
        BY DEF Attempting
      <4> QED BY <1>3, <2>3, <4>1, OtherSlots
    <3>2. Attempting(v)
      BY <2>3, <3>1 DEF Attempting
    <3>3. MyJob(v) \in Jobs /\ Exists(MyJob(v)) /\ Referenced(MyJob(v)) /\ ~ Single(v)
      BY <2>3, <3>1, <3>2, AttemptOf DEF Referenced, Attempting, Busy, RowsInv, SubsAreOfBulk
    <3> QED BY <2>1, <3>1, <3>3 DEF Single, IsBulk, Kept, MyJob
  <2> QED BY <2>2, <2>3 DEF RowsInv, SubsAreOfBulk
<1>4. Other \/ \E w \in Workers : Attempting(w) /\ OwnStepOf(w)
  BY OwnOrOther
<1> QED BY <1>2, <1>3, <1>4

-----------------------------------------------------------------------------
(* The attempt itself. *)

\* It begins when the lock is free, so that no other one is there.
LEMMA AcquireKeepsRunner ==
  ASSUME RunnerInv, SyncTypes', NEW w \in Workers, Acquire(w) PROVE RunnerInv'
<1>0. /\ job' = job /\ queue' = queue /\ reap' = reap /\ account' = account
      /\ account = "active" /\ lock = Free
      /\ lock' = [job |-> MyJob(w), by |-> w] /\ At(w, "entry") /\ Quiet(MyJob(w))
  BY DEF Acquire, db
<1>1. /\ \A v \in Workers \ {w} : run'[v] = run[v]
      /\ run'[w].pc = "locked" /\ run'[w].msg = run[w].msg /\ run'[w].sub = run[w].sub
  BY TypesOf DEF Acquire, Goto, RunnerInv, SlotState
<1>2. \A v \in Workers : ~ Attempting(v)
  <2> SUFFICES ASSUME NEW v \in Workers, Attempting(v) PROVE FALSE
      OBVIOUS
  <2>1. lock.by = v /\ v # NoOne
    BY <1>0, AttemptOf DEF SlotOK
  <2> QED BY <1>0, <2>1 DEF Free
<1>3. \A v \in Workers : run[v].sub = NoOne
  BY <1>2 DEF RunnerInv
<1>4. MyJob(w) \in Jobs /\ Mentioned(MyJob(w)) /\ Busy(w)
  BY <1>0, TypesOf DEF RunnerInv, At, Mentioned, Busy
<1>5. \A v \in Workers : MyJob(v)' = MyJob(v) /\ (Busy(v)' <=> Busy(v))
  BY <1>1, <1>4 DEF MyJob, Busy
<1>6. \A i \in Jobs : Mentioned(i) => Exists(i) /\ ~ Running(i)
  BY <1>2 DEF RunnerInv, MessagesKnown
<1>7. MessagesKnown'
  BY <1>0, <1>5, <1>6 DEF MessagesKnown, Mentioned, Exists, Running
<1>8. Alone' /\ \A v \in Workers : Attempting(v)' => v = w
  BY <1>1, <1>2 DEF Alone, Attempting
<1>9. SlotOK(w)'
  <2>1. NotSilent(w)'
    BY <1>0, <1>1, <1>4, <1>5, <1>6 DEF NotSilent, Running
  <2>2. Spared(w)'
    BY <1>0, <1>1, <1>3, <1>5, TypesOf, ConstantsAssumption
    DEF Spared, Quiet, RunnerInv, ConstantsAssumption
  <2> QED BY <1>0, <1>1, <1>3, <1>5, <2>1, <2>2 DEF SlotOK, RowsApart, Beats
<1>10. \A v \in Workers : run'[v].sub = NoOne
  BY <1>1, <1>3
<1> QED BY <1>7, <1>8, <1>9, <1>10 DEF RunnerInv

\* It ends with its job over, so that the next one may find it waiting.
LEMMA ReleaseKeepsRunner ==
  ASSUME RunnerInv, SyncTypes', NEW w \in Workers, Release(w) PROVE RunnerInv'
<1>0. queue' = queue /\ run' = [run EXCEPT ![w] = Idle] /\ run[w].pc = "release" /\ Attempting(w)
  BY DEF Release, End, At, Attempting
<1>1. \A i \in Jobs : job'[i].status = job[i].status
  BY TypesOf DEF Release, RunnerInv, Row
<1>2. run'[w] = Idle /\ \A v \in Workers \ {w} : run'[v] = run[v]
  BY <1>0, TypesOf DEF RunnerInv
<1>3. Idle.pc = "idle" /\ Idle.sub = NoOne
  BY DEF Idle
<1>4. \A v \in Workers : ~ Attempting(v)'
  BY <1>0, <1>2, <1>3 DEF RunnerInv, Alone, Attempting
<1>5. \A v \in Workers : run'[v].sub = NoOne
  BY <1>0, <1>2, <1>3 DEF RunnerInv, Alone, Attempting
<1>6. \A i \in Jobs : Mentioned(i)' => Mentioned(i)
  BY <1>0, <1>2, <1>3 DEF Mentioned, Busy, MyJob
<1>7. \A i \in Jobs : Mentioned(i) => Exists(i) /\ ~ Running(i)
  <2> SUFFICES ASSUME NEW i \in Jobs, Mentioned(i) PROVE Exists(i) /\ ~ Running(i)
      OBVIOUS
  <2>1. ~ Running(MyJob(w))
    BY <1>0, AttemptOf DEF SlotOK, NotSilent
  <2>2. Running(i) => i = MyJob(w)
    BY <1>0 DEF RunnerInv, MessagesKnown, Alone
  <2> QED BY <2>1, <2>2 DEF RunnerInv, MessagesKnown
<1>8. MessagesKnown'
  BY <1>1, <1>6, <1>7 DEF MessagesKnown, Exists, Running
<1>9. Alone'
  BY <1>4 DEF Alone
<1> QED BY <1>4, <1>5, <1>8, <1>9 DEF RunnerInv

\* Its messages are about its own job.
LEMMA OwnQueue ==
  ASSUME RunnerInv, NEW w \in Workers, Attempting(w), OwnStepOf(w)
  PROVE  \A m \in BagToSet(queue') : Mentioned(m.job)
<1>1. queue' = queue \/ queue' = BagAdd(queue, [run[w].msg EXCEPT !.tries = @ + 1])
  BY DEF OwnStepOf, Start, Touch, Progress, ChatSynced, ChatDone, NextChat, ChatFailed, FinishBulk,
         BulkBreaks, Unauthorized, Flood, Error, Again
<1>2. \A m \in BagToSet(queue) : Mentioned(m.job)
  BY DEF Mentioned
<1>3. CASE queue' = BagAdd(queue, [run[w].msg EXCEPT !.tries = @ + 1])
  <2> DEFINE again == [run[w].msg EXCEPT !.tries = @ + 1]
  <2>1. again.job = MyJob(w)
    BY TypesOf DEF RunnerInv, Attempting, MyJob, Messages
  <2>2. BagToSet(queue') = BagToSet(queue) \cup {again}
    BY <1>3, AddToBag, TypesOf DEF RunnerInv
  <2>3. Mentioned(MyJob(w))
    BY AttemptOf
  <2> HIDE DEF again
  <2> QED BY <1>2, <2>1, <2>2, <2>3
<1> QED BY <1>1, <1>2, <1>3

LEMMA OwnFrame ==
  ASSUME NEW w \in Workers, OwnStepOf(w)
  PROVE  lock' = lock /\ reap' = reap /\ account' = account
  BY DEF OwnStepOf, Start, Touch, Progress, ChatSynced, ChatDone, NextChat, ChatFailed, FinishBulk,
         BulkBreaks, Unauthorized, Flood, Error

\* An attempt that goes on keeps its rows apart and beating; one that ends leaves its
\* job in another state than IN_PROGRESS.
LEMMA OwnSlotOK ==
  ASSUME RunnerInv, RowsInv, SyncTypes', NEW w \in Workers, Attempting(w), OwnStepOf(w)
  PROVE  SlotOK(w)' /\ Attempting(w)'
<1>0. /\ job \in [Jobs -> Row] /\ run \in [Workers -> SlotState]
      /\ MyJob(w) \in Jobs /\ Exists(MyJob(w)) /\ MyJob(w)' = MyJob(w)
      /\ SlotOK(w) /\ NoOne \notin reap.todo \cup reap.doomed
      /\ run[w].sub # NoOne => run[w].sub \in Jobs /\ run[w].pc \in {"syncing", "synced"}
      /\ run[w].sub # NoOne \/ run[w].pc = "between" => ~ Single(w)
  BY TypesOf, AttemptOf, OwnSlot DEF RunnerInv, MyJob, RowsInv, SubsAreOfBulk
<1>1. /\ lock' = lock /\ reap' = reap /\ account' = account
      /\ \A i \in Jobs : Exists(i) => Exists(i)'
  BY OwnFrame, OwnStepRows DEF OwnRows, Kept
<1>2. ASSUME run'[w].pc = "release", run'[w].sub = NoOne,
             job'[MyJob(w)].status # "IN_PROGRESS", job[MyJob(w)].beat => job'[MyJob(w)].beat
      PROVE  SlotOK(w)' /\ Attempting(w)'
  <2>1. RowsApart(w)' /\ NotSilent(w)' /\ Beats(w)'
    BY <1>0, <1>2 DEF RowsApart, NotSilent, Beats, Running
  <2>2. account # "closed" => Spared(w)'
    BY <1>0, <1>1, <1>2 DEF SlotOK, Spared
  <2> QED BY <1>0, <1>1, <1>2, <2>1, <2>2 DEF SlotOK, Attempting
<1>3. ASSUME run'[w].pc \in {"between", "syncing", "synced"},
             account # "closed" => job'[MyJob(w)].beat,
             \/ run'[w].sub = NoOne
             \/ /\ run'[w].pc # "between" /\ run'[w].sub \in Jobs \ {MyJob(w)}
                /\ job'[run'[w].sub].status # "absent"
                /\ account # "closed" => run'[w].sub \notin reap.doomed /\ job'[run'[w].sub].beat
      PROVE  SlotOK(w)' /\ Attempting(w)'
  <2>1. RowsApart(w)' /\ NotSilent(w)'
    BY <1>0, <1>3 DEF RowsApart, NotSilent, Exists
  <2>2. account # "closed" => Beats(w)'
    BY <1>0, <1>3 DEF Beats
  <2>3. account # "closed" => Spared(w)'
    BY <1>0, <1>1, <1>3 DEF SlotOK, Spared
  <2> QED BY <1>0, <1>1, <1>3, <2>1, <2>2, <2>3 DEF SlotOK, Attempting
<1>4. ASSUME NEW s \in Statuses \ {"IN_PROGRESS"},
             job' = Set(job, MyJob(w), s) \/ job' = Mark(job, MyJob(w), s),
             Goto(w, "release"), run[w].sub = NoOne
      PROVE  SlotOK(w)' /\ Attempting(w)'
  <2>1. run'[w].pc = "release" /\ run'[w].sub = NoOne
    BY <1>0, <1>4 DEF Goto, SlotState
  <2>2. job'[MyJob(w)].status # "IN_PROGRESS" /\ job'[MyJob(w)].beat = job[MyJob(w)].beat
    <3>1. CASE job' = Set(job, MyJob(w), s)
      BY <1>0, <1>4, <3>1 DEF Set, Row
    <3>2. CASE job' = Mark(job, MyJob(w), s)
      BY <1>0, <1>4, <3>2, MarkRow DEF Row
    <3> QED BY <1>4, <3>1, <3>2
  <2> QED BY <1>2, <2>1, <2>2
<1>5. CASE Start(w)
  <2>1. run[w].pc = "locked" /\ run[w].sub = NoOne
    BY <1>0, <1>5 DEF Start, At
  <2>2. CASE job' = job /\ Goto(w, "release") /\ job[MyJob(w)].status \in {"COMPLETED", "CANCELLED"}
    <3>1. run'[w].pc = "release" /\ run'[w].sub = NoOne
      BY <1>0, <2>1, <2>2 DEF Goto, SlotState
    <3> QED BY <1>2, <2>2, <3>1
  <2>3. CASE job' = Set(job, MyJob(w), "CANCELLED") /\ Goto(w, "release")
    BY <1>4, <2>1, <2>3 DEF Statuses, Terminal
  <2>4. CASE /\ job' = IF Running(MyJob(w)) THEN job ELSE Set(job, MyJob(w), "IN_PROGRESS")
             /\ Goto(w, "started")
    <3>1. run'[w].pc = "started" /\ run'[w].sub = NoOne
      BY <1>0, <2>1, <2>4 DEF Goto, SlotState
    <3>2. ~ job'[MyJob(w)].old
      <4>1. CASE Running(MyJob(w))
        BY <1>0, <2>1, <2>4, <4>1 DEF SlotOK, NotSilent
      <4>2. CASE ~ Running(MyJob(w))
        BY <1>0, <2>4, <4>2 DEF Set, Row
      <4> QED BY <4>1, <4>2
    <3>3. RowsApart(w)' /\ NotSilent(w)' /\ Beats(w)'
      BY <1>0, <3>1, <3>2 DEF RowsApart, NotSilent, Beats
    <3>4. account # "closed" => Spared(w)'
      BY <1>0, <1>1, <2>1, <3>1 DEF SlotOK, Spared
    <3> QED BY <1>0, <1>1, <3>1, <3>3, <3>4 DEF SlotOK, Attempting
  <2> QED BY <1>5, <2>2, <2>3, <2>4 DEF Start
<1>6. CASE Touch(w)
  <2>1. run[w].pc = "started" /\ run[w].sub = NoOne
    BY <1>0, <1>6 DEF Touch, At
  <2>2. job'[MyJob(w)].beat
    BY <1>0, <1>6 DEF Touch, MyJob, Row
  <2>3. run'[w].pc \in {"between", "syncing"} /\ run'[w].sub = NoOne
    <3>1. CASE Single(w)
      BY <1>0, <1>6, <2>1, <3>1 DEF Touch, Goto, SlotState
    <3>2. CASE ~ Single(w)
      BY <1>0, <1>6, <2>1, <3>2 DEF Touch, SlotState
    <3> QED BY <3>1, <3>2
  <2> QED BY <1>3, <2>2, <2>3
<1>7. CASE Progress(w)
  <2>1. \A i \in Jobs : (job[i].beat \/ i \in {SyncJob(w), MyJob(w)}) => job'[i].beat
    BY <1>0, <1>7, ProgressRows DEF Progress, Row
  <2>2. run' = run /\ run[w].pc = "syncing"
    BY <1>7 DEF Progress, At
  <2> QED BY <1>0, <1>1, <1>3, <2>1, <2>2 DEF SlotOK, RowsApart, Beats, Spared, Exists
<1>8. CASE ChatSynced(w)
  <2>1. job' = job /\ run[w].pc = "syncing" /\ run'[w].pc = "synced" /\ run'[w].sub = run[w].sub
    BY <1>0, <1>8 DEF ChatSynced, At, Goto, SlotState
  <2> QED BY <1>0, <1>1, <1>3, <2>1 DEF SlotOK, RowsApart, Beats, Spared, Exists
<1>9. ASSUME ~ Single(w), NEW s \in {"COMPLETED", "FAILED"}, NEW kept \in BOOLEAN,
             job' = [Set(job, run[w].sub, s) EXCEPT
                       ![run[w].sub].beat = FALSE, ![MyJob(w)].beat = TRUE,
                       ![MyJob(w)].old = @ /\ kept]
      PROVE  job'[MyJob(w)].beat
  <2> DEFINE jobs == Set(job, run[w].sub, s)
  <2>1. jobs \in [Jobs -> Row]
    BY <1>0, SetTyped DEF Statuses, Terminal
  <2>2. job' = [jobs EXCEPT ![run[w].sub].beat = FALSE, ![MyJob(w)].beat = TRUE,
                            ![MyJob(w)].old = @ /\ kept]
    BY <1>9
  <2> HIDE DEF jobs
  <2> QED BY <1>0, <2>1, <2>2, EndOfChat DEF Row
<1>10. CASE ChatDone(w)
  <2>1. CASE Single(w)
    <3>1. run[w].sub = NoOne
      BY <1>0, <2>1
    <3> QED BY <1>4, <1>10, <2>1, <3>1 DEF ChatDone, Statuses, Terminal
  <2>2. CASE ~ Single(w)
    <3>1. run'[w].pc = "between" /\ run'[w].sub = NoOne
      BY <1>0, <1>10, <2>2 DEF ChatDone, SlotState
    <3> QED BY <1>3, <1>9, <1>10, <2>2, <3>1 DEF ChatDone
  <2> QED BY <2>1, <2>2
<1>11. ASSUME NEW c \in Chats, NEW j \in Jobs, NextChat(w, c, j) PROVE SlotOK(w)' /\ Attempting(w)'
  <2>1. ~ Exists(j) /\ j # MyJob(w) /\ run[w].pc = "between"
    BY <1>0, <1>11, UnusedIsNew DEF NextChat, At
  <2>2. j \notin reap.doomed
    BY <2>1 DEF RowsInv, ReapedExist
  <2>3. /\ job'[j].status = "IN_PROGRESS" /\ job'[j].beat
        /\ job'[MyJob(w)].beat
    BY <1>0, <1>11, <2>1, NextRow DEF Row
  <2>4. run'[w].pc = "syncing" /\ run'[w].sub = j
    BY <1>0, <1>11 DEF NextChat, SlotState
  <2> QED BY <1>3, <2>1, <2>2, <2>3, <2>4
<1>12. CASE ChatFailed(w)
  <2>1. run'[w].pc = "between" /\ run'[w].sub = NoOne
    BY <1>0, <1>12 DEF ChatFailed, SlotState
  <2> QED BY <1>3, <1>9, <1>12, <2>1 DEF ChatFailed
<1>13. CASE FinishBulk(w)
  <2>1. run[w].sub = NoOne
    BY <1>0, <1>13 DEF FinishBulk, At
  <2> QED BY <1>4, <1>13, <2>1 DEF FinishBulk, Statuses, Terminal
<1>14. CASE BulkBreaks(w)
  <2> DEFINE jobs == IF run[w].sub = NoOne THEN job ELSE [job EXCEPT ![run[w].sub].beat = FALSE]
  <2>1. jobs \in [Jobs -> Row]
    BY <1>0, MarkBeat
  <2>2. jobs[MyJob(w)].beat = job[MyJob(w)].beat
    BY <1>0 DEF SlotOK, RowsApart, Row
  <2>3. job' = Mark(jobs, MyJob(w), "FAILED") /\ "FAILED" \in Statuses
    BY <1>14 DEF BulkBreaks, Statuses, Terminal
  <2>4. run'[w].pc = "release" /\ run'[w].sub = NoOne
    BY <1>0, <1>14 DEF BulkBreaks, SlotState
  <2> HIDE DEF jobs
  <2>5. job'[MyJob(w)].status # "IN_PROGRESS" /\ job'[MyJob(w)].beat = jobs[MyJob(w)].beat
    BY <1>0, <2>1, <2>3, MarkRow DEF Row
  <2> QED BY <1>2, <2>2, <2>4, <2>5
<1>15. CASE Unauthorized(w) \/ Flood(w) \/ Error(w)
  <2>1. run[w].sub = NoOne
    BY <1>0, <1>15 DEF Unauthorized, Flood, Error
  <2> QED BY <1>4, <1>15, <2>1 DEF Unauthorized, Flood, Error, Statuses, Terminal
<1> QED BY <1>5, <1>6, <1>7, <1>8, <1>10, <1>11, <1>12, <1>13, <1>14, <1>15 DEF OwnStepOf

\* Without the cutover the account stays as it is.
AccountStays == ~ MayClose => account = "active"

RunnerIInv == RunnerInv /\ RowsInv /\ AccountStays

LEMMA AccountStep ==
  ASSUME AccountStays, [Next]_vars PROVE AccountStays'
<1>1. account' = account \/ Deactivate \/ Purge
  <2>1. UserStep => account' = account \/ Deactivate \/ Purge
    BY DEF UserStep, StartSync, SelectChats, Login
  <2>2. ASSUME NEW w \in Workers,
               \/ \E m \in BagToSet(queue) : Take(w, m)
               \/ Skip(w) \/ Acquire(w) \/ Turned(w) \/ Release(w)
               \/ Defer(w) \/ Crash(w) \/ Redeliver(w)
        PROVE  account' = account
    BY <2>2 DEF Take, Skip, Acquire, Turned, Release, Defer, Crash, Redeliver, db
  <2>3. Reaper \/ ReaperDies => account' = account
    BY DEF Reaper, ReapScan, ReapVisit, ReapCommit, Resume, ReaperDies, db
  <2>4. (\E j \in Jobs : Age(j) \/ BeatEnds(j) \/ Forget(j)) \/ LockEnds \/ UNCHANGED vars
          => account' = account
    BY DEF Age, BeatEnds, Forget, LockEnds, db, vars
  <2> QED BY <2>1, <2>2, <2>3, <2>4, OwnOrOther, OwnFrame
<1> QED BY <1>1 DEF AccountStays, Deactivate, Purge

LEMMA RunnerStep ==
  ASSUME Reliable, RunnerIInv, [Next]_vars PROVE RunnerIInv'
<1>1. SyncTypes'
  BY TypesStep DEF RunnerIInv, RunnerInv
<1>2. RunnerInv'
  <2>1. CASE UserStep
    BY <1>1, <2>1, RequestsKeepRunner DEF RunnerIInv
  <2>2. CASE Reaper \/ ReaperDies
    BY <1>1, <2>2, ReaperKeepsRunner DEF RunnerIInv
  <2>3. CASE LockEnds \/ \E j \in Jobs : Age(j) \/ BeatEnds(j) \/ Forget(j)
    BY <1>1, <2>3, TimeKeepsRunner DEF RunnerIInv
  <2>4. CASE UNCHANGED vars
    BY <1>1, <2>4, RowStep DEF RunnerIInv, RunnerInv, MessagesKnown, vars, Exists, Running
  <2>5. ASSUME NEW w \in Workers,
               \/ \E m \in BagToSet(queue) : Take(w, m)
               \/ Skip(w) \/ Turned(w) \/ Defer(w) \/ Redeliver(w)
        PROVE  RunnerInv'
    BY <1>1, <2>5, EntryKeepsRunner DEF RunnerIInv
  <2>6. ASSUME NEW w \in Workers, Acquire(w) \/ Release(w) PROVE RunnerInv'
    BY <1>1, <2>6, AcquireKeepsRunner, ReleaseKeepsRunner DEF RunnerIInv
  <2>7. \A w \in Workers : ~ Crash(w)
    BY DEF Crash, Fault, Reliable
  <2>8. ASSUME NEW w \in Workers, Attempting(w), OwnStepOf(w) PROVE RunnerInv'
    <3>1. SlotOK(w)' /\ Attempting(w)'
      BY <1>1, <2>8, OwnSlotOK DEF RunnerIInv
    <3>2. \A v \in Workers \ {w} : run'[v] = run[v]
      BY <2>8, OwnSlot DEF RunnerIInv
    <3>3. run'[w].msg = run[w].msg
      BY <2>8, OwnSlot DEF RunnerIInv
    <3>4. \A m \in BagToSet(queue') : Mentioned(m.job)
      BY <2>8, OwnQueue DEF RunnerIInv
    <3>5. \A j \in Jobs : Mentioned(j) => Exists(j)' /\ (Running(j)' => Running(j) \/ j = MyJob(w))
      BY <2>8, OwnStepRows DEF RunnerIInv, RunnerInv, MessagesKnown, OwnRows, Kept
    <3> QED BY <1>1, <2>8, <3>1, <3>2, <3>3, <3>4, <3>5, OwnStep DEF RunnerIInv
  <2> QED BY <2>1, <2>2, <2>3, <2>4, <2>5, <2>6, <2>7, <2>8, OwnOrOther
<1> QED BY <1>1, <1>2, RowsStep, AccountStep DEF RunnerIInv

LEMMA RunnerAlways == ASSUME Reliable PROVE Spec => []RunnerIInv
<1>1. Init => RunnerIInv
  <2> SUFFICES ASSUME Init PROVE RunnerIInv
      OBVIOUS
  <2>1. RowsInv
    BY DEF Init, RowsInv, SubsAreOfBulk, ReapedExist, Idle, Calm
  <2> QED BY <2>1, RunnerInit DEF Init, RunnerIInv, AccountStays
<1>2. RunnerIInv /\ [Next]_vars => RunnerIInv'
  BY RunnerStep
<1> QED BY <1>1, <1>2, PTL DEF Spec

\* At most one run of the account loads history at a time, for any number of slots,
\* jobs, requests, duplicate deliveries, retries and errors, and across the cutover, as
\* long as no run crashes, loses its heartbeat or lets its lock lapse (DistributedLock,
\* reap_stale_sync_jobs).
THEOREM OneRunAtATime == ASSUME Reliable PROVE Spec => []OneRunner
<1>1. RunnerIInv => OneRunner
  BY DEF RunnerIInv, RunnerInv, Alone, OneRunner, Loading, Attempting
<1> QED BY <1>1, RunnerAlways, PTL

\* A job that the reaper is about to fail is not being run, under the same condition
\* and as long as the account is not closed (reap_stale_sync_jobs reads the rows
\* before, and writes them after, it has looked for their heartbeats).
THEOREM TheReaperIsRight == ASSUME Reliable, ~ MayClose PROVE Spec => []DoomedIsDead
<1>1. RunnerIInv => DoomedIsDead
  <2> SUFFICES ASSUME RunnerIInv, NEW j \in reap.doomed, NEW w \in Workers,
                      run[w].pc \in {"between", "syncing", "synced", "release"},
                      j \in {MyJob(w), run[w].sub}
               PROVE  FALSE
      BY DEF DoomedIsDead, Alive
  <2>1. Attempting(w) /\ account # "closed"
    BY DEF Attempting, RunnerIInv, AccountStays
  <2> QED BY <2>1, AttemptOf DEF RunnerIInv, SlotOK, Spared
<1> QED BY <1>1, RunnerAlways, PTL

=============================================================================
