----------------------------- MODULE PeerMerge -----------------------------
(***************************************************************************)
(* Migrations 021 and 026: a group (021) or a channel (026) may be stored  *)
(* twice, under its raw number by an import and under its canonical one by *)
(* the listener.  The services are stopped; the migrations run in one      *)
(* transaction, statement by statement, and start again when it is lost.   *)
(* Names, times and unread counts are left out.                            *)
(***************************************************************************)
EXTENDS Integers, FiniteSets

CONSTANTS
    LastPost,   \* messages of the chat: 1..LastPost
    MaxKills    \* bound on lost transactions

ASSUME MergeConstants == LastPost \in Nat /\ MaxKills \in Nat

VARIABLES
    chatType,   \* "GROUP" or "CHANNEL"
    origin,     \* the rows of the chat before
    rows,       \* the rows as committed
    work,       \* the rows as the transaction sees them
    statement,  \* the next statement: of 021, then of 026, then the commit
    kills       \* lost transactions so far

mergeVars == <<chatType, origin, rows, work, statement, kills>>

Forms == {"raw", "canonical"}
PostIds == 1..LastPost
NoMark == -1
PerMigration == 9
Commit == 2 * PerMigration + 1
Merged == Commit + 1

\* A row of telegram_chats with what points at it: messages, those of them something is
\* attached to (a transcript, a media object, revisions), jobs, the checkpoint.
Row == [there : BOOLEAN, messages : SUBSET PostIds, attached : SUBSET PostIds,
        jobs : SUBSET Forms, mark : {NoMark, 0} \cup PostIds, synced : 0..LastPost]
NoRow == [there |-> FALSE, messages |-> {}, attached |-> {}, jobs |-> {}, mark |-> NoMark, synced |-> 0]

MergeTypeOK ==
    /\ chatType \in {"GROUP", "CHANNEL"}
    /\ {origin, rows, work} \subseteq [Forms -> Row]
    /\ statement \in 1..Merged /\ kills \in 0..MaxKills

\* A checkpoint covers messages that are stored with its chat.
Covered(row) == \A n \in PostIds : n <= row.mark => n \in row.messages

\* Each row may be missing; its counter is not to be relied on.
RowsOf(form) == {NoRow} \cup {row \in Row : /\ row.there /\ row.jobs = {form}
                                          /\ row.synced = 0 /\ Covered(row)
                                          /\ row.attached \subseteq row.messages}
InitMerge ==
    /\ chatType \in {"GROUP", "CHANNEL"}
    /\ \E raw \in RowsOf("raw"), canonical \in RowsOf("canonical") :
          origin = [f \in Forms |-> IF f = "raw" THEN raw ELSE canonical]
    /\ rows = origin /\ work = origin
    /\ statement = 1 /\ kills = 0

(***************************************************************************)
(* What each statement makes of rows w.                                    *)
(***************************************************************************)
Paired(w) == w["raw"].there /\ w["canonical"].there

\* What is attached to a duplicate goes with it (ON DELETE CASCADE).
DeletesDuplicates(w) ==
    [w EXCEPT !["raw"].messages = @ \ w["canonical"].messages,
              !["raw"].attached = @ \ w["canonical"].messages]

MovesMessages(w) ==
    [w EXCEPT !["canonical"].messages = @ \cup w["raw"].messages, !["raw"].messages = {},
              !["canonical"].attached = @ \cup w["raw"].attached, !["raw"].attached = {}]

MovesJobs(w) ==
    [w EXCEPT !["canonical"].jobs = @ \cup w["raw"].jobs, !["raw"].jobs = {}]

\* The further of two checkpoints.
JoinsCheckpoints(w) ==
    IF w["canonical"].mark # NoMark /\ w["raw"].mark > w["canonical"].mark
    THEN [w EXCEPT !["canonical"].mark = w["raw"].mark] ELSE w

DeletesCheckpoint(w) ==
    IF w["canonical"].mark # NoMark THEN [w EXCEPT !["raw"].mark = NoMark] ELSE w

\* A bug: the legacy row goes before its checkpoint has moved.
DropsCheckpoint(w) == [w EXCEPT !["raw"].mark = NoMark]

MovesCheckpoint(w) ==
    IF w["raw"].mark # NoMark
    THEN [w EXCEPT !["canonical"].mark = w["raw"].mark, !["raw"].mark = NoMark] ELSE w

\* Whatever still points at the legacy row goes with it.
DeletesLegacy(w) == [w EXCEPT !["raw"] = NoRow]

\* A legacy row without a pair takes the canonical number.
Renumbers(w) == [f \in Forms |-> IF f = "raw" THEN NoRow ELSE w["raw"]]

Recounts(w) == [w EXCEPT !["canonical"].synced = Cardinality(w["canonical"].messages)]

Applied(w, k) ==
    CASE k = 1 /\ Paired(w) -> DeletesDuplicates(w)
      [] k = 2 /\ Paired(w) -> MovesMessages(w)
      [] k = 3 /\ Paired(w) -> MovesJobs(w)
      [] k = 4 /\ Paired(w) -> JoinsCheckpoints(w)
      [] k = 5 /\ Paired(w) -> DeletesCheckpoint(w)
      [] k = 6 /\ Paired(w) -> MovesCheckpoint(w)
      [] k = 7 /\ Paired(w) -> DeletesLegacy(w)
      [] k = 8 /\ w["raw"].there -> Renumbers(w)
      [] k = 9 /\ w["canonical"].there -> Recounts(w)
      [] OTHER -> w

(***************************************************************************)
(* The migration.                                                          *)
(***************************************************************************)
Upgrade021 ==
    /\ statement \in 1..PerMigration
    /\ work' = IF chatType = "GROUP" THEN Applied(work, statement) ELSE work
    /\ statement' = statement + 1
    /\ UNCHANGED <<chatType, origin, rows, kills>>

Upgrade026 ==
    /\ statement \in (PerMigration + 1)..(2 * PerMigration)
    /\ work' = IF chatType = "CHANNEL" THEN Applied(work, statement - PerMigration) ELSE work
    /\ statement' = statement + 1
    /\ UNCHANGED <<chatType, origin, rows, kills>>

Commits ==
    /\ statement = Commit
    /\ rows' = work /\ statement' = Merged
    /\ UNCHANGED <<chatType, origin, work, kills>>

\* The transaction is lost: the services stay down until it is run again.
MigrationLost ==
    /\ statement # Merged
    /\ kills < MaxKills /\ kills' = kills + 1
    /\ work' = rows /\ statement' = 1
    /\ UNCHANGED <<chatType, origin, rows>>

NextMerge == Upgrade021 \/ Upgrade026 \/ Commits \/ MigrationLost

MergeSpec == InitMerge /\ [][NextMerge]_mergeVars

(***************************************************************************)
(* Property.                                                               *)
(***************************************************************************)

All(w, field) == w["raw"][field] \cup w["canonical"][field]

\* Whatever the two rows held, and wherever the migration was interrupted, every message
\* and job of either is stored once, with what is attached to it, except to the legacy row's
\* copy of a message that both rows have; nothing is half merged, and in the end one row is
\* left, whose counter is right and whose checkpoint is there if one was, as far as the
\* further one, and passes over nothing.
MergeKeepsAll ==
    /\ \A field \in {"messages", "jobs"} : All(rows, field) = All(origin, field)
    /\ statement # Merged => rows = origin
    /\ statement = Merged =>
          LET chat == rows["canonical"]
              mark == {origin[f].mark : f \in Forms} IN
          /\ ~ rows["raw"].there
          /\ chat.there = (origin["raw"].there \/ origin["canonical"].there)
          /\ chat.attached = origin["canonical"].attached
                               \cup (origin["raw"].attached \ origin["canonical"].messages)
          /\ chat.synced = Cardinality(chat.messages)
          /\ chat.mark \in mark /\ \A k \in mark : k <= chat.mark
          /\ Covered(chat)
=============================================================================
