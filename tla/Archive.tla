------------------------------- MODULE Archive -------------------------------
(* How the messages of a Telegram account get into the archive: a worker     *)
(* loads the history of a chat newest first, in committed batches with a     *)
(* cursor, while the listener stores new messages, edits and deletions that  *)
(* Telegram reports and the user selects and deselects chats. The client     *)
(* runs each handler as a task of its own, so that updates are handled in    *)
(* any order and overlap.                                                    *)
(*                                                                           *)
(* A message is a number, its text a version number: an edit raises it.      *)
EXTENDS Naturals, FiniteSets, FiniteSetsExt, Sequences

CONSTANTS
  Chats,       \* the account's dialogs
  Nameless,    \* those whose deletions Telegram reports without the chat
  Top,         \* bound: messages per chat
  BatchSize,   \* sync_batch_size
  Latest,      \* the limit of a "Sync Latest N" run
  Since,       \* the first message at or after auto_index_since
  Budget       \* bound: how often each event happens, and how many in "all"

\* post, edit, delete: what people do in Telegram; select: the user changes the
\* selection; start, fail: a run begins or dies; miss: the listener is not told of
\* something, or its handler fails; overlap: a selection meets a run of the chat, or
\* sync_chats selects a chat again.
Events == {"post", "edit", "delete", "select", "start", "fail", "miss", "overlap"}

ASSUME ArchiveAssumption ==
  /\ Nameless \subseteq Chats
  /\ Top \in Nat /\ BatchSize \in Nat \ {0} /\ Latest \in Nat \ {0} /\ Since \in Nat \ {0}
  /\ Budget \in [Events \cup {"all"} -> Nat]

VARIABLES
  account,   \* automatic: auto_index_since is set; indexNew: so it is, or not invited
  telegram,  \* what Telegram holds: for each chat a sequence of messages
  updates,   \* what the listener is told of: sent, or heard by a handler that waits
  archive,   \* telegram_messages and message_revisions
  chat,      \* telegram_chats
  run,       \* the worker's run of sync_messages
  raced,     \* history: the messages of which an edit came too early or not at all
  left       \* what is left of Budget

vars == <<account, telegram, updates, archive, chat, run, raced, left>>

Ids == 1 .. Top
Versions == 1 .. Budget["edit"] + 1
NoRow == [text |-> 0, gone |-> FALSE, old |-> {}]
NoRun == [at |-> "idle"]
Unknown == [known |-> FALSE, on |-> FALSE, synced |-> FALSE, cursor |-> 0]

TypeOK ==
  /\ account \in [automatic: BOOLEAN, indexNew: BOOLEAN]
  /\ telegram \in [Chats -> Seq([text: Versions, gone: BOOLEAN])]
  /\ updates \subseteq [kind: {"new", "edit", "delete"}, chat: Chats, id: Ids, text: Versions,
                        at: {"sent", "heard"}]
  /\ archive \in [Chats -> [Ids -> [text: Versions \cup {0}, gone: BOOLEAN, old: SUBSET Versions]]]
  /\ chat \in [Chats -> [known: BOOLEAN, on: BOOLEAN, synced: BOOLEAN, cursor: 0 .. Top]]
  /\ run \in {NoRun} \cup [at: {"reading"}, chat: Chats, all: BOOLEAN, togo: 0 .. Latest,
                           next: 1 .. Top + 1, seen: 0 .. Top, synced: BOOLEAN,
                           batch: SUBSET (Ids \X Versions)]
  /\ raced \subseteq Chats \X Ids
  /\ left \in [Events \cup {"all"} -> Nat]

Init ==
  /\ account \in [automatic: BOOLEAN, indexNew: BOOLEAN]
  /\ account.automatic => account.indexNew
  /\ telegram = [c \in Chats |-> <<>>]
  /\ updates = {}
  /\ archive = [c \in Chats |-> [m \in Ids |-> NoRow]]
  /\ chat = [c \in Chats |-> Unknown]
  /\ run = NoRun
  /\ raced = {}
  /\ left = Budget

-----------------------------------------------------------------------------
Spend(S) == /\ \A e \in S \cup {"all"} : left[e] > 0
            /\ left' = [e \in DOMAIN left |-> IF e \in S \cup {"all"} THEN left[e] - 1 ELSE left[e]]

Stored(c, m) == archive[c][m] # NoRow
Loads(c) == run # NoRun /\ run.chat = c
Indexed(m) == account.automatic => m >= Since

\* An update of the same message with an older text is on its way and will count.
Early(u) == \E v \in updates :
  /\ v.kind = "edit" \/ (v.kind = "new" /\ ~Stored(u.chat, u.id))
  /\ v.chat = u.chat /\ v.id = u.id /\ v.text < u.text
\* An older text is stored, or will be.
Outdated(u) ==
  \/ Stored(u.chat, u.id) /\ archive[u.chat][u.id].text < u.text
  \/ Loads(u.chat) /\ \E t \in Versions : t < u.text /\ <<u.id, t>> \in run.batch
  \/ Early(u)
Race(u, happened) == raced' = IF happened THEN raced \cup {<<u.chat, u.id>>} ELSE raced

-----------------------------------------------------------------------------
(* Telegram                                                                  *)

\* An event, which the listener hears of unless it is missed.
Happens(c, kind, m, text, event) ==
  LET u == [kind |-> kind, chat |-> c, id |-> m, text |-> text, at |-> "sent"] IN
  \/ updates' = updates \cup {u} /\ UNCHANGED raced /\ Spend({event})
  \/ /\ UNCHANGED updates /\ Spend({event, "miss"})
     /\ Race(u, kind = "edit" /\ Outdated(u))

Post(c) ==
  /\ Len(telegram[c]) < Top
  /\ telegram' = [telegram EXCEPT ![c] = Append(@, [text |-> 1, gone |-> FALSE])]
  /\ Happens(c, "new", Len(telegram[c]) + 1, 1, "post")
  /\ UNCHANGED <<account, archive, chat, run>>

EditText(c, m) ==
  /\ ~telegram[c][m].gone
  /\ telegram' = [telegram EXCEPT ![c][m].text = @ + 1]
  /\ Happens(c, "edit", m, telegram[c][m].text + 1, "edit")
  /\ UNCHANGED <<account, archive, chat, run>>

Delete(c, m) ==
  /\ ~telegram[c][m].gone
  /\ telegram' = [telegram EXCEPT ![c][m].gone = TRUE]
  /\ Happens(c, "delete", m, 1, "delete")
  /\ UNCHANGED <<account, archive, chat, run>>

-----------------------------------------------------------------------------
(* The listener                                                              *)

\* _auto_create_chat, sync_chats: an unknown dialog gets its row.
WithRow(c) == IF chat[c].known THEN chat[c]
              ELSE [Unknown EXCEPT !.known = TRUE, !.on = account.indexNew]

Waits(u) == updates' = (updates \ {u}) \cup {[u EXCEPT !.at = "heard"]}
Done(u) == updates' = updates \ {u}

\* _handle_message up to get_sender: the chat is on and the message is wanted, or
\* the update is done with. Its transaction is open until the sender is known.
HearMessage(u) ==
  LET row == WithRow(u.chat) IN
  /\ u.kind = "new" /\ u.at = "sent"
  /\ IF row.on /\ Indexed(u.id) THEN Waits(u) /\ UNCHANGED chat
     ELSE Done(u) /\ chat' = [chat EXCEPT ![u.chat] = row]
  /\ UNCHANGED <<account, telegram, archive, run, raced, left>>

\* Mutant of HandleMessage: a stored message is written over.
HandleMessageOver(u) ==
  /\ u.kind = "new" /\ u.at = "heard" /\ Done(u)
  /\ chat' = [chat EXCEPT ![u.chat] = WithRow(u.chat)]
  /\ archive' = [archive EXCEPT ![u.chat][u.id].text = u.text]
  /\ UNCHANGED <<account, telegram, run, raced, left>>

\* Its insert, on_conflict_do_nothing, and commit.
HandleMessage(u) ==
  /\ u.kind = "new" /\ u.at = "heard" /\ Done(u)
  /\ chat' = [chat EXCEPT ![u.chat] = WithRow(u.chat)]
  /\ archive' = IF Stored(u.chat, u.id) THEN archive
                ELSE [archive EXCEPT ![u.chat][u.id] = [NoRow EXCEPT !.text = u.text]]
  /\ UNCHANGED <<account, telegram, run, raced, left>>

\* _handle_edit up to the message row: an edit of a chat that is off is ignored.
HearEdit(u) ==
  /\ u.kind = "edit" /\ u.at = "sent"
  /\ IF chat[u.chat].on THEN Waits(u) /\ UNCHANGED raced
     ELSE Done(u) /\ Race(u, Outdated(u))
  /\ UNCHANGED <<account, telegram, archive, chat, run, left>>

\* The row is read for update and revised; an edit without a row is ignored.
\* MediaPipeline has what an edit does to media.
HandleEdit(u) ==
  /\ u.kind = "edit" /\ u.at = "heard" /\ Done(u)
  /\ IF Stored(u.chat, u.id)
     THEN /\ archive' = [archive EXCEPT ![u.chat][u.id].old = @ \cup {archive[u.chat][u.id].text},
                                         ![u.chat][u.id].text = u.text]
          /\ Race(u, Early(u))
     ELSE UNCHANGED archive /\ Race(u, Outdated(u))
  /\ UNCHANGED <<account, telegram, chat, run, left>>

\* _handle_delete: without a chat, the one chat of the archive that has the id.
Tombstoned(u) ==
  IF u.chat \notin Nameless THEN {u.chat} \cap {c \in Chats : Stored(c, u.id)}
  ELSE LET having == {c \in Chats : Stored(c, u.id)}
       IN IF Cardinality(having) = 1 THEN having ELSE {}

HandleDelete(u) ==
  /\ u.kind = "delete" /\ Done(u)
  /\ archive' = [c \in Chats |->
       IF c \in Tombstoned(u) THEN [archive[c] EXCEPT ![u.id].gone = TRUE] ELSE archive[c]]
  /\ UNCHANGED <<account, telegram, chat, run, raced, left>>

-----------------------------------------------------------------------------
(* The worker                                                                *)

\* sync_chats
SyncChats ==
  /\ run = NoRun
  /\ LET reopened == {c \in Chats : account.automatic /\ chat[c].known /\ ~chat[c].on}
     IN IF reopened = {} THEN UNCHANGED left ELSE Spend({"overlap"})
  /\ chat' = [c \in Chats |-> [WithRow(c) EXCEPT !.on = @ \/ account.automatic]]
  /\ UNCHANGED <<account, telegram, updates, archive, run, raced>>

\* Mutant of First: one above the newest message.
FirstAbove(c, all) == IF all /\ ~chat[c].synced /\ chat[c].cursor # 0
                      THEN chat[c].cursor ELSE Len(telegram[c]) + 2

\* offset_id: a run without a limit of a history that is not complete begins
\* below the cursor.
First(c, all) == IF all /\ ~chat[c].synced /\ chat[c].cursor # 0
                 THEN chat[c].cursor ELSE Len(telegram[c]) + 1

\* sync_messages up to the first message.
Start(c, all) ==
  /\ run = NoRun /\ chat[c].on
  /\ Spend({"start"})
  /\ run' = [at |-> "reading", chat |-> c, all |-> all, togo |-> Latest, batch |-> {},
             synced |-> chat[c].synced, seen |-> chat[c].cursor, next |-> First(c, all)]
  /\ UNCHANGED <<account, telegram, updates, archive, chat, raced>>

\* The messages iter_messages has still to give, newest first.
Below(c, next) == {m \in 1 .. Min({next - 1, Len(telegram[c])}) : ~telegram[c][m].gone /\ Indexed(m)}

Wanted == IF ~run.all /\ run.togo = 0 THEN {} ELSE Below(run.chat, run.next)

Full == Cardinality(run.batch) = BatchSize

\* One message; Telethon fetches as many at once as a batch has.
Read ==
  /\ run # NoRun /\ ~Full /\ Wanted # {}
  /\ LET m == Max(Wanted) IN
     run' = [run EXCEPT !.next = m, !.seen = m, !.togo = IF run.all THEN @ ELSE @ - 1,
                        !.batch = @ \cup {<<m, telegram[run.chat][m].text>>}]
  /\ UNCHANGED <<account, telegram, updates, archive, chat, raced, left>>

\* Mutant of Insert: a stored message is written over.
InsertOver(c, batch) == archive' = [archive EXCEPT ![c] = [m \in Ids |->
  IF \E t \in Versions : <<m, t>> \in batch
  THEN [@[m] EXCEPT !.text = CHOOSE t \in Versions : <<m, t>> \in batch] ELSE @[m]]]

\* _insert_message_batch: on_conflict_do_nothing
Insert(c, batch) == archive' = [archive EXCEPT ![c] = [m \in Ids |->
  IF @[m] = NoRow /\ \E t \in Versions : <<m, t>> \in batch
  THEN [NoRow EXCEPT !.text = CHOOSE t \in Versions : <<m, t>> \in batch] ELSE @[m]]]

\* A full batch is committed, by a run without a limit with its cursor; then the
\* chat is read again.
Save ==
  LET c == run.chat
      moved == IF run.all /\ ~run.synced THEN [chat[c] EXCEPT !.cursor = run.seen] ELSE chat[c]
  IN /\ run # NoRun /\ Full
     /\ Insert(c, run.batch)
     /\ chat' = [chat EXCEPT ![c] = moved]
     /\ run' = IF moved.on THEN [run EXCEPT !.batch = {}, !.synced = moved.synced] ELSE NoRun
     /\ UNCHANGED <<account, telegram, updates, raced, left>>

\* Mutant of Finish: the end of any run counts as the whole history.
FinishAny ==
  /\ run # NoRun /\ ~Full /\ Wanted = {}
  /\ Insert(run.chat, run.batch)
  /\ chat' = [chat EXCEPT ![run.chat].synced = TRUE, ![run.chat].cursor = 0]
  /\ run' = NoRun
  /\ UNCHANGED <<account, telegram, updates, raced, left>>

\* The end of the history, or of the limit.
Finish ==
  /\ run # NoRun /\ ~Full /\ Wanted = {}
  /\ Insert(run.chat, run.batch)
  /\ chat' = IF run.all THEN [chat EXCEPT ![run.chat].synced = TRUE, ![run.chat].cursor = 0] ELSE chat
  /\ run' = NoRun
  /\ UNCHANGED <<account, telegram, updates, raced, left>>

\* FloodWait, a full disk, a lost connection or worker: the batch is lost.
Fail ==
  /\ run # NoRun /\ Spend({"fail"})
  /\ run' = NoRun
  /\ UNCHANGED <<account, telegram, updates, archive, chat, raced>>

-----------------------------------------------------------------------------
\* select_chats: a chat that was not selected is to be scanned again.
Select(picked) ==
  /\ picked \subseteq {c \in Chats : chat[c].known}
  /\ picked # {c \in Chats : chat[c].on}
  /\ LET changed == {c \in Chats : chat[c].on # (c \in picked)}
     IN Spend({"select"} \cup IF \E c \in changed : Loads(c) THEN {"overlap"} ELSE {})
  /\ chat' = [c \in Chats |-> IF c \in picked /\ ~chat[c].on
       THEN [chat[c] EXCEPT !.on = TRUE, !.synced = FALSE, !.cursor = 0]
       ELSE [chat[c] EXCEPT !.on = c \in picked]]
  /\ UNCHANGED <<account, telegram, updates, archive, run, raced>>

Next ==
  \/ \E c \in Chats : Post(c) \/ \E m \in DOMAIN telegram[c] : EditText(c, m) \/ Delete(c, m)
  \/ \E u \in updates :
       HearMessage(u) \/ HandleMessage(u) \/ HearEdit(u) \/ HandleEdit(u) \/ HandleDelete(u)
  \/ SyncChats \/ (\E c \in Chats, all \in BOOLEAN : Start(c, all))
  \/ Read \/ Save \/ Finish \/ Fail
  \/ \E picked \in SUBSET Chats : Select(picked)

Spec == Init /\ [][Next]_vars

-----------------------------------------------------------------------------
Unused(S) == \A e \in S : left[e] = Budget[e]

EditComes(queue, c, m, text) == \E u \in queue :
  u.kind = "edit" /\ u.chat = c /\ u.id = m /\ u.text >= text

\* The archive never forgets: a stored message keeps every text it has had and a
\* tombstone stays, whatever batches, edits and deletions meet ("never erase the
\* local archive"); and unless an edit of the message was missed, ignored or handled
\* before an older one, its text gives way to an older one only while the edit that
\* brings the newer one is on its way.
NothingForgotten == [][\A c \in Chats, m \in Ids : Stored(c, m) =>
  /\ archive[c][m].old \cup {archive[c][m].text} \subseteq
       archive'[c][m].old \cup {archive'[c][m].text}
  /\ archive[c][m].gone => archive'[c][m].gone
  /\ \/ archive'[c][m].text >= archive[c][m].text
     \/ EditComes(updates', c, m, archive[c][m].text)
     \/ <<c, m>> \in raced']_vars

\* The messages of a chat whose history counts as complete are all stored or on
\* their way.
Complete(c) == chat[c].on /\ chat[c].synced =>
  \A m \in DOMAIN telegram[c] : telegram[c][m].gone \/ ~Indexed(m) \/ Stored(c, m)
    \/ \E u \in updates : u.chat = c /\ u.id = m /\ u.kind = "new"

\* Interrupted, resumed, limited and repeated runs and reselections leave no
\* hole in a history that counts as complete, as long as the listener misses
\* nothing and a chat is not reselected within its run.
CompleteWhenSynced == Unused({"miss", "overlap"}) => \A c \in Chats : Complete(c)

\* "Reselecting rescans with deduplication to recover messages received while
\* disabled", whenever the user of an ordinary account reselects a chat.
ReselectingRecovers == account.automatic \/ \A c \in Chats : Complete(c)

\* What is stored is what Telegram holds once no edit of it is on its way, however
\* handlers, runs and selections interleave, with three exceptions that raced has:
\* an edit was missed, or ignored because its chat was off or its row not there
\* yet, while an older text was stored, in the batch of a run or on its way; or
\* an edit was handled before an older one.
Fresh == \A c \in Chats : \A m \in DOMAIN telegram[c] :
  Stored(c, m) /\ ~telegram[c][m].gone /\ <<c, m>> \notin raced /\ ~EditComes(updates, c, m, 1)
    => archive[c][m].text = telegram[c][m].text
=============================================================================
