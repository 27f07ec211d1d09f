---------------------------- MODULE Archive_proofs ----------------------------
(* Proofs about the archive for any chats, batch sizes, limits and bounds.     *)
EXTENDS Archive, Integers, SequenceTheorems, FiniteSetTheorems, WellFoundedInduction, TLAPS

Letter == [text : Versions, gone : BOOLEAN]
Update == [kind : {"new", "edit", "delete"}, chat : Chats, id : Ids, text : Versions,
           at : {"sent", "heard"}]
StoredRow == [text : Versions, gone : BOOLEAN, old : SUBSET Versions]
Row == {NoRow} \cup StoredRow
ChatRow == [known : BOOLEAN, on : BOOLEAN, synced : BOOLEAN, cursor : 0 .. Top]
Running == [at : {"reading"}, chat : Chats, all : BOOLEAN, togo : 0 .. Latest,
            next : 1 .. Top + 1, seen : 0 .. Top, synced : BOOLEAN, batch : SUBSET (Ids \X Versions)]

\* Each edit raises the text once, so that the budget of edits bounds it.
ArchiveTypes ==
  /\ account \in [automatic : BOOLEAN, indexNew : BOOLEAN]
  /\ telegram \in [Chats -> Seq(Letter)]
  /\ \A c \in Chats : Len(telegram[c]) <= Top
  /\ \A c \in Chats : \A m \in 1 .. Len(telegram[c]) :
       telegram[c][m].text + left["edit"] <= Budget["edit"] + 1
  /\ updates \in SUBSET Update
  /\ raced \in SUBSET (Chats \X Ids)
  /\ archive \in [Chats -> [Ids -> Row]]
  /\ chat \in [Chats -> ChatRow]
  /\ run \in {NoRun} \cup Running
  /\ left \in [Events \cup {"all"} -> Nat]
  /\ \A e \in Events : left[e] <= Budget[e]

\* The text of a message, and the edit that brings it.
Newest(c, m) == telegram[c][m].text
Coming(c, m) == \E u \in updates :
  u.kind = "edit" /\ u.chat = c /\ u.id = m /\ u.text = Newest(c, m)

\* What the listener hears of, what a run holds and what is stored are messages of
\* Telegram, in texts that they have had; an update with an older text counts only while
\* the edit with the newest one is on its way, if no edit of the message was lost or early.
UpdatesAreBehind == \A u \in updates :
  /\ u.id <= Len(telegram[u.chat])
  /\ u.kind # "delete" => u.text <= Newest(u.chat, u.id)
NewestLast == \A u \in updates : u.kind # "delete" /\ <<u.chat, u.id>> \notin raced =>
  \/ u.text = Newest(u.chat, u.id) \/ Coming(u.chat, u.id)
  \/ u.kind = "new" /\ Stored(u.chat, u.id)
StoredIsBehind == \A c \in Chats, m \in Ids : Stored(c, m) =>
  m <= Len(telegram[c]) /\ archive[c][m].text \in 1 .. Newest(c, m)
BatchIsBehind == run # NoRun => \A p \in run.batch :
  p[1] <= Len(telegram[run.chat]) /\ p[2] <= Newest(run.chat, p[1])
OrderInv == UpdatesAreBehind /\ NewestLast /\ StoredIsBehind /\ BatchIsBehind

\* Only a known chat is on, is loaded and has messages.
KnownInv ==
  /\ \A c \in Chats : chat[c].on => chat[c].known
  /\ run # NoRun => chat[run.chat].known
  /\ \A c \in Chats, m \in Ids : Stored(c, m) => chat[c].known

\* Every message from n on is stored or on its way; Held: or in the batch of the run.
Announced(c, m) == \E u \in updates : u.chat = c /\ u.id = m /\ u.kind = "new"
Safe(c, m) == telegram[c][m].gone \/ ~Indexed(m) \/ Stored(c, m) \/ Announced(c, m)
Held(m) == \E t \in Versions : <<m, t>> \in run.batch
Covered == \A c \in Chats : chat[c].on =>
  /\ chat[c].synced => \A m \in 1 .. Len(telegram[c]) : Safe(c, m)
  /\ ~chat[c].synced /\ chat[c].cursor # 0 =>
       \A m \in 1 .. Len(telegram[c]) : m >= chat[c].cursor => Safe(c, m)
RunCovers == run # NoRun =>
  /\ chat[run.chat].on /\ (run.synced <=> chat[run.chat].synced)
  /\ run.batch # {} => run.seen = run.next
  /\ run.all => \A m \in 1 .. Len(telegram[run.chat]) :
       m >= run.next => Safe(run.chat, m) \/ Held(m)
Undisturbed == Unused({"miss", "overlap"})
HistoryInv == Undisturbed => Covered /\ RunCovers

\* What is stored is what Telegram holds, or the edit is on its way; so is what a run
\* holds, unless the message is stored already.
Current == \A c \in Chats, m \in Ids : Stored(c, m) /\ <<c, m>> \notin raced =>
  archive[c][m].text = Newest(c, m) \/ Coming(c, m)
BatchCurrent == run # NoRun => \A p \in run.batch : <<run.chat, p[1]>> \notin raced =>
  p[2] = Newest(run.chat, p[1]) \/ Coming(run.chat, p[1]) \/ Stored(run.chat, p[1])
FreshInv == Current /\ BatchCurrent

-----------------------------------------------------------------------------
(* What the shared steps do, point by point.                                   *)

LEMMA BudgetIsNat == ASSUME NEW e \in Events PROVE Budget[e] \in Nat
    BY ArchiveAssumption DEF ArchiveAssumption

LEMMA TextsAreNumbers == Versions \subseteq Nat \ {0} /\ 1 \in Versions /\ Ids \subseteq Nat \ {0}
<1>1. "edit" \in Events
    BY DEF Events
<1> QED BY <1>1, BudgetIsNat, ArchiveAssumption DEF Versions, Ids, ArchiveAssumption

LeftFalls == left' \in [Events \cup {"all"} -> Nat] /\ \A e \in Events : left'[e] <= left[e]

LEMMA Spending ==
  ASSUME left \in [Events \cup {"all"} -> Nat], NEW S \in SUBSET Events, Spend(S)
  PROVE  LeftFalls /\ \A e \in S : left'[e] = left[e] - 1 /\ left[e] > 0
<1>1. \A e \in Events \cup {"all"} :
        left'[e] = IF e \in S \cup {"all"} THEN left[e] - 1 ELSE left[e]
    BY DEF Spend
<1>2. \A e \in S \cup {"all"} : left[e] > 0
    BY DEF Spend
<1>3. \A e \in Events \cup {"all"} : left'[e] \in Nat
    BY <1>1, <1>2
<1>4. DOMAIN left' = Events \cup {"all"} /\ left' = [e \in DOMAIN left' |-> left'[e]]
    BY DEF Spend
<1>5. left' \in [Events \cup {"all"} -> Nat]
    BY <1>3, <1>4
<1> QED BY <1>1, <1>2, <1>5 DEF LeftFalls

LEMMA NothingSpent ==
  ASSUME left \in [Events \cup {"all"} -> Nat], left' = left
  PROVE  LeftFalls
    BY DEF LeftFalls

RacedGrows == raced \subseteq raced' /\ raced' \in SUBSET (Chats \X Ids)

LEMMA Racing ==
  ASSUME raced \in SUBSET (Chats \X Ids), NEW u \in Update, NEW happened, Race(u, happened)
  PROVE  RacedGrows /\ (happened => <<u.chat, u.id>> \in raced')
<1>1. <<u.chat, u.id>> \in Chats \X Ids
    BY DEF Update
<1> QED BY <1>1 DEF Race, RacedGrows

\* The listener is told, or misses it.
Told(u) ==
  \/ updates' = updates \cup {u} /\ raced' = raced
  \/ /\ updates' = updates /\ left'["miss"] < left["miss"]
     /\ u.kind = "edit" /\ Outdated(u) => <<u.chat, u.id>> \in raced'

LEMMA Happening ==
  ASSUME updates \in SUBSET Update, raced \in SUBSET (Chats \X Ids),
         left \in [Events \cup {"all"} -> Nat],
         NEW c \in Chats, NEW kind \in {"new", "edit", "delete"}, NEW m \in Ids,
         NEW text \in Versions, NEW event \in Events, Happens(c, kind, m, text, event)
  PROVE  /\ updates' \in SUBSET Update /\ RacedGrows /\ LeftFalls
         /\ Told([kind |-> kind, chat |-> c, id |-> m, text |-> text, at |-> "sent"])
         /\ left'[event] = left[event] - 1 /\ left[event] > 0
<1> DEFINE u == [kind |-> kind, chat |-> c, id |-> m, text |-> text, at |-> "sent"]
<1>1. u \in Update /\ u.kind = kind
    BY DEF Update
<1>2. CASE updates' = updates \cup {u} /\ raced' = raced /\ Spend({event})
  <2>1. updates' \in SUBSET Update /\ Told(u) /\ RacedGrows
    <3> HIDE DEF u
    <3> QED BY <1>1, <1>2 DEF Told, RacedGrows
  <2> QED BY <1>2, <2>1, Spending
<1>3. CASE updates' = updates /\ Spend({event, "miss"}) /\ Race(u, kind = "edit" /\ Outdated(u))
  <2>1. {event, "miss"} \in SUBSET Events
    BY DEF Events
  <2>2. /\ LeftFalls
        /\ \A e \in {event, "miss"} : left'[e] = left[e] - 1 /\ left[e] > 0
    BY <1>3, <2>1, Spending
  <2>3. left["miss"] \in Nat /\ left'["miss"] = left["miss"] - 1
    BY <2>2 DEF Events
  <2> HIDE DEF u
  <2>4. RacedGrows /\ (kind = "edit" /\ Outdated(u) => <<u.chat, u.id>> \in raced')
    BY <1>1, <1>3, Racing
  <2>5. Told(u)
    BY <1>1, <1>3, <2>3, <2>4 DEF Told
  <2> QED BY <1>3, <2>2, <2>4, <2>5 DEF u
<1> QED BY <1>2, <1>3 DEF Happens

\* A handler goes on or is done.
Like(v, w) == v.kind = w.kind /\ v.chat = w.chat /\ v.id = w.id /\ v.text = w.text
Waiting(u) == \E w \in Update : updates' = (updates \ {u}) \cup {w} /\ Like(u, w)
Finished(u) == updates' = updates \ {u}

LEMMA WaitsIsWaiting ==
  ASSUME NEW u \in Update, Waits(u)
  PROVE  Waiting(u)
<1> DEFINE w == [u EXCEPT !.at = "heard"]
<1>1. w \in Update /\ w.kind = u.kind /\ w.chat = u.chat /\ w.id = u.id /\ w.text = u.text
    BY DEF Update
<1>2. updates' = (updates \ {u}) \cup {w}
    BY DEF Waits
<1> HIDE DEF w
<1> QED BY <1>1, <1>2 DEF Waiting, Like

\* What people do in Telegram, message by message.
Same(c, m) == telegram'[c][m].text = telegram[c][m].text /\ (telegram'[c][m].gone <=> telegram[c][m].gone)
Lengths == \A d \in Chats : Len(telegram'[d]) \in Nat /\ Len(telegram'[d]) >= Len(telegram[d])

LEMMA LetterTypes ==
  ASSUME telegram \in [Chats -> Seq(Letter)], NEW c \in Chats
  PROVE  /\ Len(telegram[c]) \in Nat /\ DOMAIN telegram[c] = 1 .. Len(telegram[c])
         /\ \A m \in 1 .. Len(telegram[c]) :
              /\ telegram[c][m] \in Letter /\ telegram[c][m].gone \in BOOLEAN
              /\ telegram[c][m].text \in Versions /\ telegram[c][m].text \in Nat
<1>1. telegram[c] \in Seq(Letter)
    OBVIOUS
<1>2. \A m \in 1 .. Len(telegram[c]) : telegram[c][m] \in Letter
    BY <1>1, ElementOfSeq
<1> QED BY <1>1, <1>2, LenProperties, TextsAreNumbers DEF Letter

LEMMA PostEffect ==
  ASSUME telegram \in [Chats -> Seq(Letter)], NEW c \in Chats, Post(c)
  PROVE  /\ telegram' \in [Chats -> Seq(Letter)] /\ Lengths
         /\ \A d \in Chats : Len(telegram'[d]) = IF d = c THEN Len(telegram[d]) + 1 ELSE Len(telegram[d])
         /\ \A d \in Chats : \A m \in 1 .. Len(telegram[d]) : Same(d, m)
         /\ telegram'[c][Len(telegram[c]) + 1].text = 1
         /\ ~telegram'[c][Len(telegram[c]) + 1].gone
<1> DEFINE new == [text |-> 1, gone |-> FALSE]
           s == Append(telegram[c], new)
<1>1. new \in Letter
    BY TextsAreNumbers DEF Letter
<1>2. telegram[c] \in Seq(Letter) /\ Len(telegram[c]) \in Nat
    BY LetterTypes
<1>3. s \in Seq(Letter) /\ Len(s) = Len(telegram[c]) + 1 /\ s[Len(telegram[c]) + 1] = new
      /\ \A m \in 1 .. Len(telegram[c]) : s[m] = telegram[c][m]
  <2> HIDE DEF new
  <2> QED BY <1>1, <1>2
<1>4. telegram' = [telegram EXCEPT ![c] = s]
    BY DEF Post
<1>5. new.text = 1 /\ ~new.gone
    OBVIOUS
<1> HIDE DEF s, new
<1> QED BY <1>2, <1>3, <1>4, <1>5, LetterTypes DEF Lengths, Same

\* One message becomes another.
Becomes(c, m, l) == telegram' = [telegram EXCEPT ![c] = [telegram[c] EXCEPT ![m] = l]]
LEMMA LetterEffect ==
  ASSUME telegram \in [Chats -> Seq(Letter)], NEW c \in Chats, NEW m \in 1 .. Len(telegram[c]),
         NEW l \in Letter, Becomes(c, m, l)
  PROVE  /\ telegram' \in [Chats -> Seq(Letter)] /\ Lengths
         /\ \A d \in Chats : Len(telegram'[d]) = Len(telegram[d])
         /\ \A d \in Chats : \A n \in 1 .. Len(telegram[d]) :
              telegram'[d][n] = IF d = c /\ n = m THEN l ELSE telegram[d][n]
<1> DEFINE s == [telegram[c] EXCEPT ![m] = l]
<1>1. telegram[c] \in Seq(Letter)
    OBVIOUS
<1>2. s \in Seq(Letter) /\ Len(s) = Len(telegram[c])
      /\ \A n \in 1 .. Len(telegram[c]) : s[n] = IF n = m THEN l ELSE telegram[c][n]
    BY <1>1, ExceptSeq
<1>3. telegram' = [telegram EXCEPT ![c] = s]
    BY DEF Becomes
<1> HIDE DEF s
<1> QED BY <1>2, <1>3, LetterTypes DEF Lengths

Raised(c, m) == telegram' = [telegram EXCEPT ![c][m].text = @ + 1]

LEMMA EditEffect ==
  ASSUME telegram \in [Chats -> Seq(Letter)], NEW c \in Chats, NEW m \in 1 .. Len(telegram[c]),
         telegram[c][m].text + 1 \in Versions, Raised(c, m)
  PROVE  /\ telegram' \in [Chats -> Seq(Letter)] /\ Lengths
         /\ \A d \in Chats : Len(telegram'[d]) = Len(telegram[d])
         /\ \A d \in Chats : \A n \in 1 .. Len(telegram[d]) :
              /\ telegram'[d][n].gone <=> telegram[d][n].gone
              /\ telegram'[d][n].text =
                   IF d = c /\ n = m THEN telegram[d][n].text + 1 ELSE telegram[d][n].text
<1> DEFINE l == [telegram[c][m] EXCEPT !.text = @ + 1]
<1>1. telegram[c][m] \in Letter
    BY LetterTypes
<1>2. l \in Letter /\ l.text = telegram[c][m].text + 1 /\ l.gone = telegram[c][m].gone
    BY <1>1 DEF Letter
<1>3. Becomes(c, m, l)
    BY DEF Becomes, Raised
<1> HIDE DEF l
<1>4. PICK k \in Letter :
        /\ k.text = telegram[c][m].text + 1 /\ k.gone = telegram[c][m].gone
        /\ Becomes(c, m, k)
    BY <1>2, <1>3
<1>5. /\ telegram' \in [Chats -> Seq(Letter)] /\ Lengths
      /\ \A d \in Chats : Len(telegram'[d]) = Len(telegram[d])
      /\ \A d \in Chats : \A n \in 1 .. Len(telegram[d]) :
           telegram'[d][n] = IF d = c /\ n = m THEN k ELSE telegram[d][n]
    BY ONLY <1>4, LetterEffect, telegram \in [Chats -> Seq(Letter)], c \in Chats,
            m \in 1 .. Len(telegram[c])
<1> QED BY <1>4, <1>5

LEMMA DeleteEffect ==
  ASSUME telegram \in [Chats -> Seq(Letter)], NEW c \in Chats, NEW m \in 1 .. Len(telegram[c]),
         telegram' = [telegram EXCEPT ![c][m].gone = TRUE]
  PROVE  /\ telegram' \in [Chats -> Seq(Letter)] /\ Lengths
         /\ \A d \in Chats : Len(telegram'[d]) = Len(telegram[d])
         /\ \A d \in Chats : \A n \in 1 .. Len(telegram[d]) :
              /\ telegram'[d][n].text = telegram[d][n].text
              /\ telegram[d][n].gone => telegram'[d][n].gone
<1> DEFINE l == [telegram[c][m] EXCEPT !.gone = TRUE]
<1>1. telegram[c][m] \in Letter
    BY LetterTypes
<1>2. l \in Letter /\ l.text = telegram[c][m].text /\ l.gone
    BY <1>1 DEF Letter
<1>3. Becomes(c, m, l)
    BY DEF Becomes
<1> HIDE DEF l
<1>4. PICK k \in Letter :
        /\ k.text = telegram[c][m].text /\ k.gone
        /\ Becomes(c, m, k)
    BY <1>2, <1>3
<1>5. /\ telegram' \in [Chats -> Seq(Letter)] /\ Lengths
      /\ \A d \in Chats : Len(telegram'[d]) = Len(telegram[d])
      /\ \A d \in Chats : \A n \in 1 .. Len(telegram[d]) :
           telegram'[d][n] = IF d = c /\ n = m THEN k ELSE telegram[d][n]
    BY ONLY <1>4, LetterEffect, telegram \in [Chats -> Seq(Letter)], c \in Chats,
            m \in 1 .. Len(telegram[c])
<1> QED BY <1>4, <1>5

-----------------------------------------------------------------------------
(* The rows of the archive and of the chats.                                   *)

LEMMA NoRowType ==
  NoRow \in Row /\ NoRow \notin StoredRow /\ NoRow.text = 0 /\ ~NoRow.gone /\ NoRow.old = {}
    BY TextsAreNumbers DEF NoRow, Row, StoredRow

LEMMA NewRow ==
  ASSUME NEW t \in Versions
  PROVE  [NoRow EXCEPT !.text = t] \in StoredRow /\ [NoRow EXCEPT !.text = t].text = t
    BY TextsAreNumbers DEF NoRow, StoredRow

LEMMA InsertEffect ==
  ASSUME archive \in [Chats -> [Ids -> Row]], NEW c \in Chats,
         NEW batch \in SUBSET (Ids \X Versions), Insert(c, batch)
  PROVE  /\ archive' \in [Chats -> [Ids -> Row]]
         /\ \A d \in Chats, m \in Ids : d # c \/ archive[d][m] # NoRow \/ (\A t \in Versions : <<m, t>> \notin batch)
              => archive'[d][m] = archive[d][m]
         /\ \A m \in Ids : archive[c][m] = NoRow /\ (\E t \in Versions : <<m, t>> \in batch) =>
              /\ archive'[c][m].text \in Versions /\ <<m, archive'[c][m].text>> \in batch
              /\ archive'[c][m] \in StoredRow
<1> DEFINE T(m) == CHOOSE t \in Versions : <<m, t>> \in batch
           R(m) == IF archive[c][m] = NoRow /\ \E t \in Versions : <<m, t>> \in batch
                   THEN [NoRow EXCEPT !.text = T(m)] ELSE archive[c][m]
           rows == [m \in Ids |-> R(m)]
<1>1. archive' = [archive EXCEPT ![c] = rows]
    BY DEF Insert
<1>2. \A m \in Ids : (\E t \in Versions : <<m, t>> \in batch) =>
        T(m) \in Versions /\ <<m, T(m)>> \in batch
    OBVIOUS
<1>3. \A t \in Versions : /\ [NoRow EXCEPT !.text = t] \in StoredRow
                          /\ [NoRow EXCEPT !.text = t] \in Row
                          /\ [NoRow EXCEPT !.text = t].text = t
    BY NewRow DEF Row
<1> HIDE DEF T
<1>4. \A m \in Ids : archive[c][m] \in Row
    OBVIOUS
<1>5. \A m \in Ids : R(m) \in Row
    BY <1>2, <1>3, <1>4
<1>6. rows \in [Ids -> Row] /\ \A m \in Ids : rows[m] = R(m)
    BY <1>5
<1>7. \A m \in Ids : archive[c][m] = NoRow /\ (\E t \in Versions : <<m, t>> \in batch) =>
        /\ rows[m].text \in Versions /\ <<m, rows[m].text>> \in batch
        /\ rows[m] \in StoredRow
    BY <1>2, <1>3, <1>6
<1>8. \A m \in Ids : archive[c][m] # NoRow \/ (\A t \in Versions : <<m, t>> \notin batch)
        => rows[m] = archive[c][m]
    BY <1>6
<1> HIDE DEF rows, R
<1> QED BY <1>1, <1>6, <1>7, <1>8

LEMMA WithRowType ==
  ASSUME chat \in [Chats -> ChatRow], account \in [automatic : BOOLEAN, indexNew : BOOLEAN],
         ArchiveAssumption, NEW c \in Chats
  PROVE  /\ WithRow(c) \in ChatRow /\ WithRow(c).known
         /\ chat[c].known => WithRow(c) = chat[c]
         /\ ~chat[c].known => ~WithRow(c).synced /\ WithRow(c).cursor = 0
<1> DEFINE w == [Unknown EXCEPT !.known = TRUE, !.on = account.indexNew]
<1>1. Top \in Nat
    BY DEF ArchiveAssumption
<1>2. chat[c] \in ChatRow /\ account.indexNew \in BOOLEAN
    OBVIOUS
<1>3. w \in ChatRow /\ w.known /\ ~w.synced /\ w.cursor = 0
  <2>1. Unknown \in ChatRow /\ ~Unknown.synced /\ Unknown.cursor = 0
      BY <1>1 DEF ChatRow, Unknown
  <2>2. \A r \in ChatRow, b \in BOOLEAN : LET x == [r EXCEPT !.known = TRUE, !.on = b] IN
          x \in ChatRow /\ x.known /\ x.synced = r.synced /\ x.cursor = r.cursor
      BY DEF ChatRow
  <2> QED BY <1>2, <2>1, <2>2
<1>4. WithRow(c) = IF chat[c].known THEN chat[c] ELSE w
    BY DEF WithRow
<1> HIDE DEF w
<1>5. CASE chat[c].known
    BY <1>2, <1>4, <1>5
<1>6. CASE ~chat[c].known
    BY <1>3, <1>4, <1>6
<1> QED BY <1>5, <1>6

\* At most one row changes.
Elsewhere(c, m) == \A d \in Chats, n \in Ids : d # c \/ n # m => archive'[d][n] = archive[d][n]

LEMMA RowEffect ==
  ASSUME archive \in [Chats -> [Ids -> Row]], NEW c \in Chats, NEW m \in Ids, NEW row \in Row,
         archive' = [archive EXCEPT ![c][m] = row]
  PROVE  archive' \in [Chats -> [Ids -> Row]] /\ Elsewhere(c, m) /\ archive'[c][m] = row
<1> DEFINE rows == [archive[c] EXCEPT ![m] = row]
<1>1. archive[c] \in [Ids -> Row]
    OBVIOUS
<1>2. rows \in [Ids -> Row] /\ rows[m] = row /\ \A n \in Ids : n # m => rows[n] = archive[c][n]
    BY <1>1
<1>3. archive' = [archive EXCEPT ![c] = rows]
    OBVIOUS
<1> HIDE DEF rows
<1> QED BY <1>2, <1>3 DEF Elsewhere

LEMMA HearMessageEffect ==
  ASSUME ArchiveTypes, NEW u \in updates, HearMessage(u)
  PROVE  /\ u.kind = "new" /\ UNCHANGED <<account, telegram, archive, run, raced, left>>
         /\ chat' \in [Chats -> ChatRow]
         /\ \/ Waiting(u) /\ chat' = chat
            \/ /\ Finished(u) /\ ~(WithRow(u.chat).on /\ Indexed(u.id))
               /\ chat' = [chat EXCEPT ![u.chat] = WithRow(u.chat)]
<1>1. u \in Update /\ u.chat \in Chats /\ chat \in [Chats -> ChatRow]
      /\ account \in [automatic : BOOLEAN, indexNew : BOOLEAN]
    BY DEF ArchiveTypes, Update
<1>2. u.kind = "new" /\ UNCHANGED <<account, telegram, archive, run, raced, left>>
    BY DEF HearMessage
<1>3. CASE WithRow(u.chat).on /\ Indexed(u.id)
    BY <1>1, <1>2, <1>3, WaitsIsWaiting DEF HearMessage
<1>4. CASE ~(WithRow(u.chat).on /\ Indexed(u.id))
  <2>1. Finished(u) /\ chat' = [chat EXCEPT ![u.chat] = WithRow(u.chat)]
      BY <1>4 DEF HearMessage, Done, Finished
  <2> QED BY <1>1, <1>2, <1>4, <2>1, WithRowType, ArchiveAssumption
<1> QED BY <1>3, <1>4

LEMMA MessageEffect ==
  ASSUME ArchiveTypes, NEW u \in updates, HandleMessage(u)
  PROVE  /\ u.kind = "new" /\ Finished(u)
         /\ archive' \in [Chats -> [Ids -> Row]] /\ chat' \in [Chats -> ChatRow]
         /\ chat' = [chat EXCEPT ![u.chat] = WithRow(u.chat)]
         /\ UNCHANGED <<account, telegram, run, raced, left>>
         /\ \/ archive' = archive /\ Stored(u.chat, u.id)
            \/ /\ ~Stored(u.chat, u.id) /\ Elsewhere(u.chat, u.id)
               /\ archive'[u.chat][u.id] \in StoredRow /\ archive'[u.chat][u.id].text = u.text
<1> DEFINE row == [NoRow EXCEPT !.text = u.text]
<1>1. archive \in [Chats -> [Ids -> Row]] /\ chat \in [Chats -> ChatRow]
      /\ account \in [automatic : BOOLEAN, indexNew : BOOLEAN] /\ u \in Update
    BY DEF ArchiveTypes
<1>2. /\ u.kind = "new" /\ Finished(u) /\ chat' = [chat EXCEPT ![u.chat] = WithRow(u.chat)]
      /\ UNCHANGED <<account, telegram, run, raced, left>>
    BY DEF HandleMessage, Done, Finished
<1>3. u.chat \in Chats /\ u.id \in Ids /\ u.text \in Versions
    BY <1>1 DEF Update
<1>4. row \in StoredRow /\ row \in Row /\ row.text = u.text
    BY <1>3, NewRow DEF Row
<1>5. archive' = IF Stored(u.chat, u.id) THEN archive ELSE [archive EXCEPT ![u.chat][u.id] = row]
    BY DEF HandleMessage
<1>6. chat' \in [Chats -> ChatRow]
    BY <1>1, <1>2, <1>3, WithRowType, ArchiveAssumption
<1> HIDE DEF row
<1>7. CASE ~Stored(u.chat, u.id)
  <2>1. archive' = [archive EXCEPT ![u.chat][u.id] = row]
      BY <1>5, <1>7
  <2>2. archive' \in [Chats -> [Ids -> Row]] /\ Elsewhere(u.chat, u.id) /\ archive'[u.chat][u.id] = row
      BY <1>1, <1>3, <1>4, <2>1, RowEffect
  <2> QED BY <1>2, <1>4, <1>6, <1>7, <2>2
<1>8. CASE Stored(u.chat, u.id)
    BY <1>1, <1>2, <1>5, <1>6, <1>8
<1> QED BY <1>7, <1>8

LEMMA HearEditEffect ==
  ASSUME ArchiveTypes, NEW u \in updates, HearEdit(u)
  PROVE  /\ u.kind = "edit" /\ UNCHANGED <<account, telegram, archive, chat, run, left>>
         /\ RacedGrows
         /\ \/ Waiting(u)
            \/ Finished(u) /\ (Outdated(u) => <<u.chat, u.id>> \in raced')
<1>1. u \in Update /\ raced \in SUBSET (Chats \X Ids)
    BY DEF ArchiveTypes
<1>2. u.kind = "edit" /\ UNCHANGED <<account, telegram, archive, chat, run, left>>
    BY DEF HearEdit
<1>3. CASE chat[u.chat].on
    BY <1>1, <1>2, <1>3, WaitsIsWaiting DEF HearEdit, RacedGrows
<1>4. CASE ~chat[u.chat].on
  <2>1. Finished(u) /\ Race(u, Outdated(u))
      BY <1>4 DEF HearEdit, Done, Finished
  <2> QED BY <1>1, <1>2, <2>1, Racing
<1> QED BY <1>3, <1>4

LEMMA HandleEditEffect ==
  ASSUME ArchiveTypes, NEW u \in updates, HandleEdit(u)
  PROVE  /\ u.kind = "edit" /\ Finished(u) /\ RacedGrows
         /\ archive' \in [Chats -> [Ids -> Row]]
         /\ UNCHANGED <<account, telegram, run, left, chat>>
         /\ \/ /\ archive' = archive /\ ~Stored(u.chat, u.id)
               /\ Outdated(u) => <<u.chat, u.id>> \in raced'
            \/ /\ Stored(u.chat, u.id) /\ Elsewhere(u.chat, u.id)
               /\ archive'[u.chat][u.id] \in StoredRow
               /\ archive'[u.chat][u.id].text = u.text
               /\ archive'[u.chat][u.id].gone = archive[u.chat][u.id].gone
               /\ archive'[u.chat][u.id].old = archive[u.chat][u.id].old \cup {archive[u.chat][u.id].text}
               /\ Early(u) => <<u.chat, u.id>> \in raced'
<1> DEFINE r == archive[u.chat][u.id]
           row == [r EXCEPT !.old = @ \cup {r.text}, !.text = u.text]
<1>1. u \in Update /\ archive \in [Chats -> [Ids -> Row]] /\ raced \in SUBSET (Chats \X Ids)
    BY DEF ArchiveTypes
<1>2. u.kind = "edit" /\ Finished(u) /\ UNCHANGED <<account, telegram, run, left, chat>>
    BY DEF HandleEdit, Done, Finished
<1>4. u.chat \in Chats /\ u.id \in Ids /\ u.text \in Versions
    BY <1>1 DEF Update
<1>6. CASE Stored(u.chat, u.id)
  <2>1. r \in StoredRow
      BY <1>1, <1>4, <1>6 DEF Stored, Row
  <2>2. row \in StoredRow /\ row.text = u.text /\ row.gone = r.gone /\ row.old = r.old \cup {r.text}
      BY <2>1, <1>4 DEF StoredRow
  <2>3. archive' = [archive EXCEPT ![u.chat][u.id].old = @ \cup {r.text}, ![u.chat][u.id].text = u.text]
        /\ Race(u, Early(u))
      BY <1>6 DEF HandleEdit
  <2>4. archive' = [archive EXCEPT ![u.chat][u.id] = row]
      BY <1>1, <1>4, <2>1, <2>3 DEF StoredRow
  <2>5. row \in Row
      BY <2>2 DEF Row
  <2>6. RacedGrows /\ (Early(u) => <<u.chat, u.id>> \in raced')
      BY <1>1, <2>3, Racing
  <2> HIDE DEF row
  <2>7. archive' \in [Chats -> [Ids -> Row]] /\ Elsewhere(u.chat, u.id) /\ archive'[u.chat][u.id] = row
      BY <1>1, <1>4, <2>4, <2>5, RowEffect
  <2> QED BY <1>2, <1>6, <2>2, <2>6, <2>7
<1>7. CASE ~Stored(u.chat, u.id)
  <2>1. archive' = archive /\ Race(u, Outdated(u))
      BY <1>7 DEF HandleEdit
  <2> QED BY <1>1, <1>2, <1>7, <2>1, Racing
<1> QED BY <1>6, <1>7

\* A tombstone changes no text.
TombstonesOnly == \A d \in Chats, m \in Ids :
  \/ archive'[d][m] = archive[d][m]
  \/ /\ Stored(d, m) /\ archive'[d][m] \in StoredRow /\ archive'[d][m].gone
     /\ archive'[d][m].text = archive[d][m].text /\ archive'[d][m].old = archive[d][m].old

LEMMA HandleDeleteEffect ==
  ASSUME ArchiveTypes, NEW u \in updates, HandleDelete(u)
  PROVE  /\ u.kind = "delete" /\ Finished(u)
         /\ archive' \in [Chats -> [Ids -> Row]] /\ TombstonesOnly
         /\ UNCHANGED <<account, telegram, run, raced, left, chat>>
<1> DEFINE rows(c) == IF c \in Tombstoned(u) THEN [archive[c] EXCEPT ![u.id].gone = TRUE] ELSE archive[c]
<1>1. u \in Update /\ archive \in [Chats -> [Ids -> Row]]
    BY DEF ArchiveTypes
<1>2. archive' = [c \in Chats |-> rows(c)]
    BY DEF HandleDelete
<1>3. u.kind = "delete" /\ Finished(u)
    BY DEF HandleDelete, Done, Finished
<1>4. u.chat \in Chats /\ u.id \in Ids
    BY <1>1 DEF Update
<1>5. UNCHANGED <<account, telegram, run, raced, left, chat>>
    BY DEF HandleDelete
<1>6. Tombstoned(u) \subseteq {c \in Chats : Stored(c, u.id)}
    BY DEF Tombstoned
<1>7. ASSUME NEW c \in Tombstoned(u)
      PROVE  /\ rows(c) \in [Ids -> Row]
             /\ \A m \in Ids : m # u.id => rows(c)[m] = archive[c][m]
             /\ rows(c)[u.id] \in StoredRow /\ rows(c)[u.id].gone
             /\ rows(c)[u.id].text = archive[c][u.id].text /\ rows(c)[u.id].old = archive[c][u.id].old
  <2> DEFINE row == [archive[c][u.id] EXCEPT !.gone = TRUE]
  <2>1. archive[c] \in [Ids -> Row] /\ archive[c][u.id] \in StoredRow
      BY <1>1, <1>4, <1>6 DEF Stored, Row
  <2>2. row \in StoredRow /\ row.gone /\ row.text = archive[c][u.id].text /\ row.old = archive[c][u.id].old
      BY <2>1 DEF StoredRow
  <2>3. row \in Row
      BY <2>2 DEF Row
  <2>4. rows(c) = [archive[c] EXCEPT ![u.id] = row]
      OBVIOUS
  <2> HIDE DEF rows, row
  <2> QED BY <1>4, <2>1, <2>2, <2>3, <2>4
<1>8. \A c \in Chats : c \notin Tombstoned(u) => rows(c) = archive[c]
    OBVIOUS
<1> HIDE DEF rows
<1>9. archive' \in [Chats -> [Ids -> Row]]
    BY <1>1, <1>2, <1>6, <1>7, <1>8
<1>10. ASSUME NEW d \in Chats, NEW m \in Ids
       PROVE  \/ archive'[d][m] = archive[d][m]
              \/ /\ Stored(d, m) /\ archive'[d][m] \in StoredRow /\ archive'[d][m].gone
                 /\ archive'[d][m].text = archive[d][m].text /\ archive'[d][m].old = archive[d][m].old
  <2>1. archive'[d] = rows(d)
      BY <1>2
  <2>2. CASE d \in Tombstoned(u)
      BY <1>6, <1>7, <2>1, <2>2
  <2>3. CASE d \notin Tombstoned(u)
      BY <1>8, <2>1, <2>3
  <2> QED BY <2>2, <2>3
<1> QED BY <1>2, <1>3, <1>5, <1>9, <1>10 DEF TombstonesOnly

\* What every step of a handler has in common.
Handled(u) ==
  /\ u \in Update /\ (Waiting(u) \/ Finished(u)) /\ RacedGrows
  /\ u.kind = "edit" => \/ Waiting(u)
                        \/ <<u.chat, u.id>> \in raced'
                        \/ ~Early(u) /\ (~Outdated(u) \/ archive'[u.chat][u.id].text = u.text)
  /\ u.kind = "new" => \/ Waiting(u)
                       \/ ~(WithRow(u.chat).on /\ Indexed(u.id))
                       \/ Stored(u.chat, u.id) \/ archive'[u.chat][u.id] \in StoredRow
  /\ UNCHANGED <<account, telegram, run, left>>
  /\ archive' \in [Chats -> [Ids -> Row]] /\ chat' \in [Chats -> ChatRow]
  /\ \A d \in Chats, m \in Ids :
       \/ archive'[d][m] = archive[d][m]
       \/ /\ Stored(d, m) /\ archive'[d][m] \in StoredRow /\ archive'[d][m].gone
          /\ archive'[d][m].text = archive[d][m].text /\ archive'[d][m].old = archive[d][m].old
       \/ /\ d = u.chat /\ m = u.id /\ u.kind # "delete"
          /\ archive'[d][m] \in StoredRow /\ archive'[d][m].text = u.text
          /\ Stored(d, m) => /\ archive'[d][m].gone = archive[d][m].gone
                             /\ archive'[d][m].old = archive[d][m].old \cup {archive[d][m].text}
          /\ Stored(d, m) <=> u.kind = "edit"
          /\ u.kind = "new" => chat'[d] = WithRow(d)
  /\ \A d \in Chats : chat'[d] = chat[d] \/ (d = u.chat /\ chat'[d] = WithRow(d))

LEMMA Handling ==
  ASSUME ArchiveTypes, NEW u \in updates,
         HearMessage(u) \/ HandleMessage(u) \/ HearEdit(u) \/ HandleEdit(u) \/ HandleDelete(u)
  PROVE  Handled(u)
<1>1. u \in Update /\ raced \in SUBSET (Chats \X Ids) /\ archive \in [Chats -> [Ids -> Row]]
      /\ chat \in [Chats -> ChatRow]
    BY DEF ArchiveTypes
<1>2. raced' = raced => RacedGrows
    BY <1>1 DEF RacedGrows
<1>3. CASE HearMessage(u)
    BY <1>1, <1>2, <1>3, HearMessageEffect DEF Handled
<1>4. CASE HandleMessage(u)
    BY <1>1, <1>2, <1>4, MessageEffect DEF Handled, Elsewhere
<1>5. CASE HearEdit(u)
    BY <1>1, <1>5, HearEditEffect DEF Handled, Outdated
<1>6. CASE HandleEdit(u)
    BY <1>1, <1>6, HandleEditEffect DEF Handled, Elsewhere, Outdated
<1>7. CASE HandleDelete(u)
    BY <1>1, <1>2, <1>7, HandleDeleteEffect DEF Handled, TombstonesOnly
<1> QED BY <1>3, <1>4, <1>5, <1>6, <1>7

-----------------------------------------------------------------------------
(* The run.                                                                    *)

LEMMA Least == ASSUME NEW T \in SUBSET Nat, T # {} PROVE \E x \in T : \A y \in T : x <= y
<1>1. IsWellFoundedOn(OpToRel(<, Nat), Nat)
    BY NatLessThanWellFounded
<1>2. PICK x \in T : \A y \in T : ~ (<<y, x>> \in OpToRel(<, Nat))
    BY <1>1, WFMin
<1>3. \A y \in T : ~ (y < x)
    BY <1>2 DEF OpToRel
<1> QED BY <1>3

LEMMA Greatest ==
  ASSUME NEW n \in Nat, NEW S \in SUBSET (1 .. n), S # {}
  PROVE  Max(S) \in S /\ \A y \in S : Max(S) >= y
<1> DEFINE T == {k \in 0 .. n : \E x \in S : k = n - x}
<1>1. \A x \in S : n - x \in T
    OBVIOUS
<1>2. T # {}
    BY <1>1
<1>3. PICK t \in T : \A y \in T : t <= y
  <2>1. T \in SUBSET Nat
      OBVIOUS
  <2> HIDE DEF T
  <2> QED BY <1>2, <2>1, Least
<1>4. PICK x \in S : t = n - x
    OBVIOUS
<1>5. ASSUME NEW y \in S PROVE x >= y
  <2>1. t <= n - y
      BY <1>1, <1>3
  <2> QED BY <1>4, <2>1
<1> QED BY <1>5 DEF Max

LEMMA BelowIs ==
  ASSUME telegram \in [Chats -> Seq(Letter)], NEW c \in Chats, NEW next \in Nat \ {0}
  PROVE  Below(c, next) =
           {m \in 1 .. Len(telegram[c]) : m < next /\ ~telegram[c][m].gone /\ Indexed(m)}
<1>1. Len(telegram[c]) \in Nat
    BY LetterTypes
<1>2. \A a, b \in Nat : Min({a, b}) = IF a <= b THEN a ELSE b
  <2> SUFFICES ASSUME NEW a \in Nat, NEW b \in Nat PROVE Min({a, b}) = IF a <= b THEN a ELSE b
      OBVIOUS
  <2>1. \E x \in {a, b} : \A y \in {a, b} : x <= y
      OBVIOUS
  <2> QED BY <2>1 DEF Min
<1>3. 1 .. Min({next - 1, Len(telegram[c])}) = {m \in 1 .. Len(telegram[c]) : m < next}
    BY <1>1, <1>2
<1> QED BY <1>3 DEF Below

LEMMA RunTypes ==
  ASSUME run \in {NoRun} \cup Running, run # NoRun
  PROVE  /\ run \in Running /\ run.chat \in Chats /\ run.all \in BOOLEAN /\ run.synced \in BOOLEAN
         /\ run.next \in 1 .. Top + 1 /\ run.seen \in 0 .. Top /\ run.togo \in 0 .. Latest
         /\ run.batch \in SUBSET (Ids \X Versions)
    BY DEF Running

LEMMA NoRunIsNone == \A r \in Running : r # NoRun
    BY DEF Running, NoRun

LEMMA ReadEffect ==
  ASSUME ArchiveTypes, Read
  PROVE  /\ run \in Running /\ run' \in Running /\ run.chat \in Chats
         /\ run'.chat = run.chat /\ (run'.all <=> run.all) /\ (run'.synced <=> run.synced)
         /\ \E m \in 1 .. Len(telegram[run.chat]) :
              /\ m \in Wanted /\ (\A y \in Wanted : m >= y) /\ m < run.next
              /\ run'.next = m /\ run'.seen = m
              /\ run'.batch = run.batch \cup {<<m, telegram[run.chat][m].text>>}
         /\ UNCHANGED <<account, telegram, updates, archive, chat, raced, left>>
<1> DEFINE c == run.chat
           m == Max(Wanted)
           p == <<m, telegram[c][m].text>>
           g == IF run.all THEN run.togo ELSE run.togo - 1
           r(k, q) == [run EXCEPT !.next = k, !.seen = k, !.togo = g, !.batch = run.batch \cup {q}]
<1>1. run \in Running /\ c \in Chats /\ run.next \in 1 .. Top + 1
    BY RunTypes DEF Read, ArchiveTypes
<1>2. telegram \in [Chats -> Seq(Letter)] /\ Len(telegram[c]) \in Nat /\ Len(telegram[c]) <= Top
      /\ Top \in Nat
    BY <1>1, LetterTypes, ArchiveAssumption DEF ArchiveTypes, ArchiveAssumption
<1>3. Below(c, run.next) = {k \in 1 .. Len(telegram[c]) : k < run.next /\ ~telegram[c][k].gone /\ Indexed(k)}
    BY <1>1, <1>2, BelowIs
<1>4. Wanted \subseteq 1 .. Len(telegram[c]) /\ Wanted # {} /\ \A k \in Wanted : k < run.next
    BY <1>3 DEF Wanted, Read
<1>5. m \in Wanted /\ \A y \in Wanted : m >= y
    BY <1>2, <1>4, Greatest
<1>6. m \in 1 .. Len(telegram[c]) /\ m < run.next
    BY <1>4, <1>5
<1>7. p \in Ids \X Versions
    BY <1>1, <1>2, <1>6, LetterTypes DEF Ids
<1>8. run' = r(m, p)
    BY DEF Read
<1>15. g \in 0 .. Latest
  <2>1. run.togo \in 0 .. Latest /\ Latest \in Nat
      BY <1>1, ArchiveAssumption DEF Running, ArchiveAssumption
  <2>2. run.all \/ run.togo # 0
      BY DEF Read, Wanted
  <2> QED BY <2>1, <2>2
<1>9. ASSUME NEW k \in 1 .. Top, NEW q \in Ids \X Versions
      PROVE  /\ r(k, q) \in Running /\ r(k, q).chat = run.chat /\ (r(k, q).all <=> run.all)
             /\ (r(k, q).synced <=> run.synced) /\ r(k, q).next = k /\ r(k, q).seen = k
             /\ r(k, q).batch = run.batch \cup {q}
  <2> DEFINE B == run.batch \cup {q}
             s == [run EXCEPT !.next = k, !.seen = k, !.togo = g, !.batch = B]
  <2>1. B \in SUBSET (Ids \X Versions)
      BY <1>1 DEF Running
  <2>2. r(k, q) = s
      OBVIOUS
  <2>3. k \in 1 .. Top + 1 /\ k \in 0 .. Top
      BY <1>2
  <2> HIDE DEF B, r, g
  <2>4. s \in Running
      BY <1>1, <1>15, <2>1, <2>3 DEF Running
  <2>5. s.chat = run.chat /\ (s.all <=> run.all) /\ (s.synced <=> run.synced) /\ s.next = k
        /\ s.seen = k /\ s.batch = B
      BY <1>1 DEF Running
  <2> QED BY <2>2, <2>4, <2>5 DEF B
<1>10. m \in 1 .. Top
    BY <1>2, <1>6
<1>11. UNCHANGED <<account, telegram, updates, archive, chat, raced, left>>
    BY DEF Read
<1>12. p = <<m, telegram[run.chat][m].text>>
    OBVIOUS
<1> HIDE DEF m, r, p, g
<1>13. /\ run' \in Running /\ run'.chat = run.chat /\ (run'.all <=> run.all)
       /\ (run'.synced <=> run.synced) /\ run'.next = m /\ run'.seen = m
       /\ run'.batch = run.batch \cup {<<m, telegram[run.chat][m].text>>}
    BY <1>7, <1>8, <1>9, <1>10, <1>12
<1> QED BY <1>1, <1>5, <1>6, <1>11, <1>13

LEMMA StartEffect ==
  ASSUME ArchiveTypes, NEW c \in Chats, NEW all \in BOOLEAN, Start(c, all)
  PROVE  /\ run = NoRun /\ chat[c].on /\ LeftFalls
         /\ run' \in Running /\ run'.chat = c /\ (run'.all <=> all) /\ run'.batch = {}
         /\ (run'.synced <=> chat[c].synced) /\ run'.next = First(c, all)
         /\ UNCHANGED <<account, telegram, updates, archive, chat, raced>>
<1>1. chat[c] \in ChatRow /\ left \in [Events \cup {"all"} -> Nat] /\ Top \in Nat
      /\ Len(telegram[c]) \in Nat /\ Len(telegram[c]) <= Top
    BY LetterTypes, ArchiveAssumption DEF ArchiveTypes, ArchiveAssumption
<1>2. First(c, all) \in 1 .. Top + 1
    BY <1>1 DEF First, ChatRow
<1> DEFINE f == First(c, all)
           s == [at |-> "reading", chat |-> c, all |-> all, togo |-> Latest, batch |-> {},
                 synced |-> chat[c].synced, seen |-> chat[c].cursor, next |-> f]
<1>3. run' = s
    BY DEF Start
<1>4. LeftFalls
    BY <1>1, Spending DEF Start, Events
<1> HIDE DEF f
<1>5. chat[c].synced \in BOOLEAN /\ chat[c].cursor \in 0 .. Top /\ f \in 1 .. Top + 1
    BY <1>1, <1>2 DEF ChatRow, f
<1>6. s \in Running
  <2>1. Latest \in 0 .. Latest
      BY ArchiveAssumption DEF ArchiveAssumption
  <2> QED BY <1>5, <2>1 DEF Running
<1>7. s.chat = c /\ (s.all <=> all) /\ s.batch = {} /\ (s.synced <=> chat[c].synced) /\ s.next = f
    OBVIOUS
<1> HIDE DEF s
<1>8. run = NoRun /\ chat[c].on /\ UNCHANGED <<account, telegram, updates, archive, chat, raced>>
    BY DEF Start
<1> QED BY <1>3, <1>4, <1>6, <1>7, <1>8 DEF f

LEMMA FullIsNotEmpty == Full => run.batch # {}
    BY FS_EmptySet, ArchiveAssumption DEF Full, ArchiveAssumption

\* The batch of a run is stored: what is stored already stays.
Inserted ==
  /\ archive' \in [Chats -> [Ids -> Row]]
  /\ \A d \in Chats, m \in Ids :
       \/ archive'[d][m] = archive[d][m] /\ (d = run.chat /\ ~Stored(d, m) => ~Held(m))
       \/ /\ d = run.chat /\ ~Stored(d, m)
          /\ archive'[d][m] \in StoredRow /\ <<m, archive'[d][m].text>> \in run.batch

LEMMA Inserting ==
  ASSUME ArchiveTypes, run # NoRun, Insert(run.chat, run.batch)
  PROVE  Inserted
<1>1. archive \in [Chats -> [Ids -> Row]] /\ run.chat \in Chats /\ run.batch \in SUBSET (Ids \X Versions)
    BY RunTypes DEF ArchiveTypes
<1>2. /\ archive' \in [Chats -> [Ids -> Row]]
      /\ \A d \in Chats, m \in Ids :
           d # run.chat \/ archive[d][m] # NoRow \/ (\A t \in Versions : <<m, t>> \notin run.batch)
             => archive'[d][m] = archive[d][m]
      /\ \A m \in Ids : archive[run.chat][m] = NoRow /\ (\E t \in Versions : <<m, t>> \in run.batch) =>
           /\ archive'[run.chat][m].text \in Versions /\ <<m, archive'[run.chat][m].text>> \in run.batch
           /\ archive'[run.chat][m] \in StoredRow
    BY <1>1, InsertEffect
<1> QED BY <1>1, <1>2 DEF Inserted, Stored, Held

LEMMA SaveEffect ==
  ASSUME ArchiveTypes, Save
  PROVE  /\ run \in Running /\ run.chat \in Chats /\ run.batch # {} /\ Inserted
         /\ chat' \in [Chats -> ChatRow]
         /\ \A d \in Chats : /\ d # run.chat => chat'[d] = chat[d]
                             /\ chat'[d].on <=> chat[d].on
                             /\ chat'[d].known <=> chat[d].known
                             /\ chat'[d].synced <=> chat[d].synced
         /\ chat'[run.chat].cursor =
              IF run.all /\ ~run.synced THEN run.seen ELSE chat[run.chat].cursor
         /\ \/ run' = NoRun
            \/ /\ run' \in Running /\ run'.chat = run.chat /\ (run'.all <=> run.all) /\ run'.batch = {}
               /\ run'.next = run.next /\ (run'.synced <=> chat[run.chat].synced)
         /\ UNCHANGED <<account, telegram, updates, raced, left>>
<1> DEFINE c == run.chat
           moved == IF run.all /\ ~run.synced THEN [chat[c] EXCEPT !.cursor = run.seen] ELSE chat[c]
           again == [run EXCEPT !.batch = {}, !.synced = moved.synced]
<1>1. run \in Running /\ c \in Chats /\ run.seen \in 0 .. Top /\ chat[c] \in ChatRow
      /\ chat \in [Chats -> ChatRow] /\ run # NoRun
    BY RunTypes DEF Save, ArchiveTypes
<1>2. run.batch # {} /\ Inserted
    BY <1>1, FullIsNotEmpty, Inserting DEF Save
<1>3. /\ moved \in ChatRow /\ (moved.on <=> chat[c].on) /\ (moved.known <=> chat[c].known)
      /\ (moved.synced <=> chat[c].synced)
      /\ moved.cursor = IF run.all /\ ~run.synced THEN run.seen ELSE chat[c].cursor
    BY <1>1, <1>2 DEF ChatRow
<1>4. chat' = [chat EXCEPT ![c] = moved] /\ run' = IF moved.on THEN again ELSE NoRun
    BY DEF Save
<1>5. moved.synced \in BOOLEAN
    BY <1>3 DEF ChatRow
<1> HIDE DEF moved
<1>6. /\ again \in Running /\ again.chat = c /\ (again.all <=> run.all) /\ again.batch = {}
      /\ again.next = run.next /\ (again.synced <=> moved.synced)
    BY <1>1, <1>5 DEF Running
<1>7. UNCHANGED <<account, telegram, updates, raced, left>>
    BY DEF Save
<1> HIDE DEF again
<1>8. /\ chat' \in [Chats -> ChatRow] /\ chat'[c] = moved
      /\ \A d \in Chats : d # c => chat'[d] = chat[d]
    BY <1>1, <1>3, <1>4
<1> QED BY <1>1, <1>2, <1>3, <1>4, <1>6, <1>7, <1>8

LEMMA FinishEffect ==
  ASSUME ArchiveTypes, Finish
  PROVE  /\ run \in Running /\ run.chat \in Chats /\ Inserted /\ run' = NoRun /\ Wanted = {}
         /\ chat' \in [Chats -> ChatRow]
         /\ \A d \in Chats : /\ d # run.chat \/ ~run.all => chat'[d] = chat[d]
                             /\ chat'[d].on <=> chat[d].on
                             /\ chat'[d].known <=> chat[d].known
         /\ UNCHANGED <<account, telegram, updates, raced, left>>
<1> DEFINE c == run.chat
           ended == [chat[c] EXCEPT !.synced = TRUE, !.cursor = 0]
<1>1. run \in Running /\ c \in Chats /\ run.seen \in 0 .. Top /\ chat[c] \in ChatRow
      /\ chat \in [Chats -> ChatRow] /\ run # NoRun /\ run.all \in BOOLEAN
    BY RunTypes DEF Finish, ArchiveTypes
<1>2. Inserted
    BY <1>1, Inserting DEF Finish
<1>3. ended \in ChatRow /\ (ended.on <=> chat[c].on) /\ (ended.known <=> chat[c].known)
  <2>1. \A b \in BOOLEAN, n \in 0 .. Top : LET e == [chat[c] EXCEPT !.synced = b, !.cursor = n] IN
          e \in ChatRow /\ (e.on <=> chat[c].on) /\ (e.known <=> chat[c].known)
      BY <1>1 DEF ChatRow
  <2>2. 0 \in 0 .. Top
      BY ArchiveAssumption DEF ArchiveAssumption
  <2> QED BY <2>1, <2>2
<1>4. chat' = IF run.all THEN [chat EXCEPT ![c] = ended] ELSE chat
    BY <1>1 DEF Finish
<1>5. run' = NoRun /\ Wanted = {} /\ UNCHANGED <<account, telegram, updates, raced, left>>
    BY DEF Finish
<1> HIDE DEF ended
<1>6. /\ chat' \in [Chats -> ChatRow]
      /\ \A d \in Chats : /\ d # run.chat \/ ~run.all => chat'[d] = chat[d]
                          /\ chat'[d].on <=> chat[d].on
                          /\ chat'[d].known <=> chat[d].known
    BY <1>1, <1>3, <1>4
<1> QED BY <1>1, <1>2, <1>5, <1>6

-----------------------------------------------------------------------------
(* The selection.                                                              *)

Overlapped == left["overlap"] \in Nat /\ left'["overlap"] < left["overlap"]

LEMMA ChatRowExcept ==
  ASSUME NEW r \in ChatRow, NEW on \in BOOLEAN
  PROVE  LET s == [r EXCEPT !.on = on] IN
         /\ s \in ChatRow /\ (s.on <=> on) /\ (s.known <=> r.known) /\ (s.synced <=> r.synced)
         /\ s.cursor = r.cursor
    BY DEF ChatRow

LEMMA SyncChatsEffect ==
  ASSUME ArchiveTypes, SyncChats
  PROVE  /\ run = NoRun /\ LeftFalls /\ chat' \in [Chats -> ChatRow]
         /\ \A c \in Chats :
              /\ chat'[c].known
              /\ chat[c].known /\ chat[c].on => chat'[c].on
              /\ chat[c].known => (chat'[c].synced <=> chat[c].synced) /\ chat'[c].cursor = chat[c].cursor
              /\ ~chat[c].known => ~chat'[c].synced /\ chat'[c].cursor = 0
              /\ chat[c].known /\ chat'[c].on => chat[c].on \/ Overlapped
         /\ UNCHANGED <<account, telegram, updates, archive, run, raced>>
<1> DEFINE row(c) == [WithRow(c) EXCEPT !.on = WithRow(c).on \/ account.automatic]
           reopened == {c \in Chats : account.automatic /\ chat[c].known /\ ~chat[c].on}
<1>1. chat \in [Chats -> ChatRow] /\ account \in [automatic : BOOLEAN, indexNew : BOOLEAN]
      /\ left \in [Events \cup {"all"} -> Nat]
    BY DEF ArchiveTypes
<1>2. ASSUME NEW c \in Chats
      PROVE  /\ row(c) \in ChatRow /\ row(c).known /\ (row(c).synced <=> WithRow(c).synced)
             /\ row(c).cursor = WithRow(c).cursor
             /\ (row(c).on <=> WithRow(c).on \/ account.automatic)
  <2>1. WithRow(c) \in ChatRow /\ WithRow(c).known
      BY <1>1, WithRowType, ArchiveAssumption
  <2>2. (WithRow(c).on \/ account.automatic) \in BOOLEAN
      OBVIOUS
  <2> QED BY <2>1, <2>2, ChatRowExcept
<1>3. chat' = [c \in Chats |-> row(c)]
    BY DEF SyncChats
<1>4. run = NoRun /\ UNCHANGED <<account, telegram, updates, archive, run, raced>>
    BY DEF SyncChats
<1>5. IF reopened = {} THEN left' = left ELSE Spend({"overlap"})
    BY DEF SyncChats
<1>6. LeftFalls /\ (reopened # {} => Overlapped)
    BY <1>1, <1>5, Spending, NothingSpent DEF Overlapped, Events
<1> HIDE DEF row
<1>7. chat' \in [Chats -> ChatRow] /\ \A c \in Chats : chat'[c] = row(c)
    BY <1>2, <1>3
<1>8. ASSUME NEW c \in Chats
      PROVE  /\ chat'[c].known
             /\ chat[c].on => chat'[c].on \/ ~chat[c].known
             /\ chat[c].known => (chat'[c].synced <=> chat[c].synced) /\ chat'[c].cursor = chat[c].cursor
             /\ ~chat[c].known => ~chat'[c].synced /\ chat'[c].cursor = 0
             /\ chat[c].known /\ chat'[c].on => chat[c].on \/ Overlapped
  <2>1. /\ chat[c].known => WithRow(c) = chat[c]
        /\ ~chat[c].known => ~WithRow(c).synced /\ WithRow(c).cursor = 0
      BY <1>1, WithRowType, ArchiveAssumption
  <2>2. chat[c].known /\ ~chat[c].on /\ account.automatic => Overlapped
      BY <1>6
  <2> HIDE DEF reopened
  <2> QED BY <1>2, <1>7, <2>1, <2>2
<1> QED BY <1>4, <1>6, <1>7, <1>8

LEMMA SelectEffect ==
  ASSUME ArchiveTypes, NEW picked \in SUBSET Chats, Select(picked)
  PROVE  /\ LeftFalls /\ chat' \in [Chats -> ChatRow]
         /\ \A c \in Chats :
              /\ chat'[c].known <=> chat[c].known
              /\ chat'[c].on <=> c \in picked
              /\ chat'[c].on => chat[c].known
              /\ chat'[c].on /\ ~chat[c].on => ~chat'[c].synced /\ chat'[c].cursor = 0
              /\ chat[c].on => (chat'[c].synced <=> chat[c].synced) /\ chat'[c].cursor = chat[c].cursor
              /\ Loads(c) => (chat'[c].on <=> chat[c].on) \/ Overlapped
         /\ UNCHANGED <<account, telegram, updates, archive, run, raced>>
<1> DEFINE row(c) == IF c \in picked /\ ~chat[c].on
                     THEN [chat[c] EXCEPT !.on = TRUE, !.synced = FALSE, !.cursor = 0]
                     ELSE [chat[c] EXCEPT !.on = c \in picked]
           changed == {c \in Chats : chat[c].on # (c \in picked)}
           met == \E c \in changed : Loads(c)
<1>1. chat \in [Chats -> ChatRow] /\ left \in [Events \cup {"all"} -> Nat] /\ Top \in Nat
    BY ArchiveAssumption DEF ArchiveTypes, ArchiveAssumption
<1>2. chat' = [c \in Chats |-> row(c)]
    BY DEF Select
<1>3. picked \subseteq {c \in Chats : chat[c].known} /\ UNCHANGED <<account, telegram, updates, archive, run, raced>>
    BY DEF Select
<1>4. Spend({"select"} \cup IF met THEN {"overlap"} ELSE {})
    BY DEF Select
<1>5. {"select"} \cup (IF met THEN {"overlap"} ELSE {}) \in SUBSET Events
    BY DEF Events
<1>6. LeftFalls /\ (met => Overlapped)
  <2>1. "overlap" \in Events
      BY DEF Events
  <2> HIDE DEF met
  <2> QED BY <1>1, <1>4, <1>5, <2>1, Spending DEF Overlapped
<1>7. ASSUME NEW c \in Chats
      PROVE  /\ row(c) \in ChatRow /\ (row(c).known <=> chat[c].known) /\ (row(c).on <=> c \in picked)
             /\ c \in picked /\ ~chat[c].on => ~row(c).synced /\ row(c).cursor = 0
             /\ chat[c].on => (row(c).synced <=> chat[c].synced) /\ row(c).cursor = chat[c].cursor
  <2>1. chat[c] \in ChatRow
      BY <1>1
  <2>2. CASE c \in picked /\ ~chat[c].on
    <3>1. \A a, b \in BOOLEAN, n \in 0 .. Top :
            LET e == [chat[c] EXCEPT !.on = a, !.synced = b, !.cursor = n] IN
              /\ e \in ChatRow /\ (e.on <=> a) /\ (e.synced <=> b) /\ e.cursor = n
              /\ (e.known <=> chat[c].known)
        BY <2>1 DEF ChatRow
    <3>2. 0 \in 0 .. Top
        BY <1>1
    <3> QED BY <2>2, <3>1, <3>2
  <2>3. CASE ~(c \in picked /\ ~chat[c].on)
    <3> DEFINE b == c \in picked
    <3>1. row(c) = [chat[c] EXCEPT !.on = b]
        BY <2>3
    <3>2. b \in BOOLEAN /\ (b <=> c \in picked)
        OBVIOUS
    <3> HIDE DEF row, b
    <3> QED BY <2>1, <2>3, <3>1, <3>2, ChatRowExcept
  <2> QED BY <2>2, <2>3
<1> HIDE DEF row
<1>8. chat' \in [Chats -> ChatRow] /\ \A c \in Chats : chat'[c] = row(c)
    BY <1>2, <1>7
<1>9. \A c \in Chats : Loads(c) /\ ~(c \in picked <=> chat[c].on) => met
  <2> SUFFICES ASSUME NEW c \in Chats, Loads(c), ~(c \in picked <=> chat[c].on) PROVE met
      OBVIOUS
  <2>1. chat[c].on \in BOOLEAN
      BY <1>1 DEF ChatRow
  <2>2. c \in changed
      BY <2>1
  <2> QED BY <2>2
<1> HIDE DEF met, changed
<1> QED BY <1>3, <1>6, <1>7, <1>8, <1>9

-----------------------------------------------------------------------------
(* The types.                                                                  *)

LEMMA TypesInit == ASSUME Init PROVE ArchiveTypes
<1>1. \A c \in Chats : Len(telegram[c]) = 0 /\ telegram[c] = <<>>
    BY DEF Init
<1>2. telegram \in [Chats -> Seq(Letter)] /\ updates \in SUBSET Update
      /\ raced \in SUBSET (Chats \X Ids)
    BY DEF Init
<1>3. archive \in [Chats -> [Ids -> Row]]
    BY NoRowType DEF Init
<1>4. Unknown \in ChatRow
    BY ArchiveAssumption DEF Unknown, ChatRow, ArchiveAssumption
<1>5. chat \in [Chats -> ChatRow] /\ run = NoRun /\ left = Budget
      /\ account \in [automatic : BOOLEAN, indexNew : BOOLEAN]
    BY <1>4 DEF Init
<1>6. left \in [Events \cup {"all"} -> Nat] /\ \A e \in Events : left[e] <= Budget[e]
    BY <1>5, ArchiveAssumption DEF ArchiveAssumption
<1>7. \A c \in Chats : Len(telegram[c]) <= Top /\ 1 .. Len(telegram[c]) = {}
    BY <1>1, ArchiveAssumption DEF ArchiveAssumption
<1> QED BY <1>2, <1>3, <1>5, <1>6, <1>7 DEF ArchiveTypes

LEMMA LeftStaysBounded ==
  ASSUME ArchiveTypes, LeftFalls
  PROVE  /\ left' \in [Events \cup {"all"} -> Nat] /\ (\A e \in Events : left'[e] <= Budget[e])
         /\ left'["edit"] <= left["edit"] /\ left["edit"] \in Nat /\ left'["edit"] \in Nat
  <1>1. \A e \in Events : left[e] \in Nat /\ left'[e] \in Nat /\ Budget[e] \in Nat /\ left'[e] <= left[e]
                          /\ left[e] <= Budget[e]
      BY BudgetIsNat DEF ArchiveTypes, LeftFalls
  <1>2. "edit" \in Events
      BY DEF Events
  <1> QED BY <1>1, <1>2 DEF LeftFalls

LEMMA PostBudget ==
  ASSUME ArchiveTypes, NEW c \in Chats, Post(c)
  PROVE  /\ updates' \in SUBSET Update /\ RacedGrows /\ LeftFalls
         /\ Len(telegram[c]) + 1 \in Ids
         /\ Told([kind |-> "new", chat |-> c, id |-> Len(telegram[c]) + 1, text |-> 1, at |-> "sent"])
<1> DEFINE n == Len(telegram[c]) + 1
<1>1. Len(telegram[c]) \in Nat /\ Len(telegram[c]) < Top /\ Top \in Nat
      /\ updates \in SUBSET Update /\ raced \in SUBSET (Chats \X Ids) /\ left \in [Events \cup {"all"} -> Nat]
    BY LetterTypes, ArchiveAssumption DEF ArchiveTypes, Post, ArchiveAssumption
<1>2. n \in Ids /\ 1 \in Versions /\ "post" \in Events
    BY <1>1, TextsAreNumbers DEF Ids, Events
<1>3. Happens(c, "new", n, 1, "post")
    BY DEF Post
<1> HIDE DEF n
<1>4. /\ updates' \in SUBSET Update /\ RacedGrows /\ LeftFalls
      /\ Told([kind |-> "new", chat |-> c, id |-> n, text |-> 1, at |-> "sent"])
    BY <1>1, <1>2, <1>3, Happening
<1> QED BY <1>2, <1>4 DEF n

LEMMA TypesPost == ASSUME ArchiveTypes, NEW c \in Chats, Post(c) PROVE ArchiveTypes'
<1>1. telegram \in [Chats -> Seq(Letter)] /\ Len(telegram[c]) \in Nat /\ Len(telegram[c]) < Top /\ Top \in Nat
    BY LetterTypes, ArchiveAssumption DEF ArchiveTypes, Post, ArchiveAssumption
<1>3. updates' \in SUBSET Update /\ RacedGrows /\ LeftFalls
    BY PostBudget
<1>4. /\ telegram' \in [Chats -> Seq(Letter)]
      /\ \A d \in Chats : Len(telegram'[d]) = IF d = c THEN Len(telegram[d]) + 1 ELSE Len(telegram[d])
      /\ \A d \in Chats : \A m \in 1 .. Len(telegram[d]) : Same(d, m)
      /\ telegram'[c][Len(telegram[c]) + 1].text = 1
    BY <1>1, PostEffect
<1>5. "edit" \in Events /\ left["edit"] <= Budget["edit"] /\ Budget["edit"] \in Nat
    BY BudgetIsNat DEF Events, ArchiveTypes
<1>6. ASSUME NEW d \in Chats, NEW m \in 1 .. Len(telegram'[d])
      PROVE  telegram'[d][m].text + left'["edit"] <= Budget["edit"] + 1
  <2>1. Len(telegram[d]) \in Nat
      BY <1>1, LetterTypes
  <2>2. CASE m \in 1 .. Len(telegram[d])
    <3>1. telegram[d][m].text + left["edit"] <= Budget["edit"] + 1 /\ telegram[d][m].text \in Nat
        BY <1>1, <2>2, LetterTypes DEF ArchiveTypes
    <3>2. telegram'[d][m].text = telegram[d][m].text
        BY <1>4, <2>2 DEF Same
    <3>3. left'["edit"] <= left["edit"] /\ left["edit"] \in Nat /\ left'["edit"] \in Nat
        BY <1>3, LeftStaysBounded
    <3> QED BY <1>5, <3>1, <3>2, <3>3
  <2>3. CASE m \notin 1 .. Len(telegram[d])
    <3>1. d = c /\ m = Len(telegram[c]) + 1
        BY <1>4, <2>1, <2>3
    <3> QED BY <1>3, <1>4, <1>5, <3>1, LeftStaysBounded
  <2> QED BY <2>2, <2>3
<1>7. \A d \in Chats : Len(telegram'[d]) <= Top
    BY <1>1, <1>4 DEF ArchiveTypes
<1>8. UNCHANGED <<account, archive, chat, run>>
    BY DEF Post
<1> QED BY <1>3, <1>4, <1>6, <1>7, <1>8, LeftStaysBounded DEF ArchiveTypes, RacedGrows

LEMMA EditBudget ==
  ASSUME ArchiveTypes, NEW c \in Chats, NEW m \in 1 .. Len(telegram[c]), EditText(c, m)
  PROVE  /\ updates' \in SUBSET Update /\ RacedGrows /\ LeftFalls /\ m \in Ids
         /\ telegram[c][m].text \in Nat /\ telegram[c][m].text + 1 \in Versions
         /\ Told([kind |-> "edit", chat |-> c, id |-> m, text |-> telegram[c][m].text + 1, at |-> "sent"])
         /\ left'["edit"] = left["edit"] - 1
<1>1. telegram \in [Chats -> Seq(Letter)] /\ updates \in SUBSET Update /\ raced \in SUBSET (Chats \X Ids)
      /\ left \in [Events \cup {"all"} -> Nat] /\ Len(telegram[c]) \in Nat /\ Len(telegram[c]) <= Top
      /\ Top \in Nat /\ telegram[c][m].text \in Nat
    BY LetterTypes, ArchiveAssumption DEF ArchiveTypes, ArchiveAssumption
<1>2. Happens(c, "edit", m, telegram[c][m].text + 1, "edit") /\ "edit" \in Events
    BY DEF EditText, Events
<1>3. left["edit"] > 0 /\ left["edit"] \in Nat
  <2>1. Spend({"edit"}) \/ Spend({"edit", "miss"})
      BY <1>2 DEF Happens
  <2> QED BY <1>1, <1>2, <2>1 DEF Spend
<1>4. telegram[c][m].text + left["edit"] <= Budget["edit"] + 1 /\ Budget["edit"] \in Nat
    BY <1>2, BudgetIsNat DEF ArchiveTypes
<1>5. telegram[c][m].text + 1 \in Versions
    BY <1>1, <1>3, <1>4 DEF Versions
<1>6. m \in Ids
    BY <1>1 DEF Ids
<1>7. /\ updates' \in SUBSET Update /\ RacedGrows /\ LeftFalls
      /\ Told([kind |-> "edit", chat |-> c, id |-> m, text |-> telegram[c][m].text + 1, at |-> "sent"])
      /\ left'["edit"] = left["edit"] - 1
    BY <1>1, <1>2, <1>5, <1>6, Happening
<1> QED BY <1>1, <1>5, <1>6, <1>7

LEMMA TypesEditText ==
  ASSUME ArchiveTypes, NEW c \in Chats, NEW m \in 1 .. Len(telegram[c]), EditText(c, m)
  PROVE  ArchiveTypes'
<1>1. telegram \in [Chats -> Seq(Letter)] /\ Raised(c, m)
      /\ UNCHANGED <<account, archive, chat, run>>
    BY DEF ArchiveTypes, EditText, Raised
<1>2. /\ telegram' \in [Chats -> Seq(Letter)] /\ Lengths
      /\ \A d \in Chats : Len(telegram'[d]) = Len(telegram[d])
      /\ \A d \in Chats : \A n \in 1 .. Len(telegram[d]) :
              /\ telegram'[d][n].gone <=> telegram[d][n].gone
              /\ telegram'[d][n].text =
                   IF d = c /\ n = m THEN telegram[d][n].text + 1 ELSE telegram[d][n].text
  <2>1. telegram[c][m].text + 1 \in Versions
      BY EditBudget
  <2> QED BY ONLY <1>1, <2>1, EditEffect, c \in Chats, m \in 1 .. Len(telegram[c])
<1>3. ASSUME NEW d \in Chats, NEW n \in 1 .. Len(telegram'[d])
      PROVE  telegram'[d][n].text + left'["edit"] <= Budget["edit"] + 1
  <2>1. n \in 1 .. Len(telegram[d]) /\ Budget["edit"] \in Nat
      BY <1>2, BudgetIsNat DEF Events
  <2>2. telegram[d][n].text + left["edit"] <= Budget["edit"] + 1 /\ telegram[d][n].text \in Nat
      BY <1>1, <2>1, LetterTypes DEF ArchiveTypes
  <2>3. left["edit"] \in Nat /\ left'["edit"] = left["edit"] - 1
      BY EditBudget, LeftStaysBounded
  <2>4. telegram'[d][n].text = telegram[d][n].text \/ telegram'[d][n].text = telegram[d][n].text + 1
      BY <1>2, <2>1
  <2>5. \A t, e, b \in Nat : t + e <= b + 1 => t + (e - 1) <= b + 1 /\ t + 1 + (e - 1) <= b + 1
      OBVIOUS
  <2> QED BY ONLY <2>1, <2>2, <2>3, <2>4, <2>5
<1>4. \A d \in Chats : Len(telegram'[d]) <= Top
    BY <1>2 DEF ArchiveTypes
<1> QED BY <1>1, <1>2, <1>3, <1>4, EditBudget, LeftStaysBounded DEF ArchiveTypes, RacedGrows

LEMMA DeleteBudget ==
  ASSUME ArchiveTypes, NEW c \in Chats, NEW m \in 1 .. Len(telegram[c]), Delete(c, m)
  PROVE  /\ updates' \in SUBSET Update /\ RacedGrows /\ LeftFalls /\ m \in Ids
         /\ Told([kind |-> "delete", chat |-> c, id |-> m, text |-> 1, at |-> "sent"])
<1>1. updates \in SUBSET Update /\ raced \in SUBSET (Chats \X Ids) /\ Len(telegram[c]) \in Nat /\ Len(telegram[c]) <= Top /\ Top \in Nat
      /\ left \in [Events \cup {"all"} -> Nat]
    BY LetterTypes, ArchiveAssumption DEF ArchiveTypes, ArchiveAssumption
<1>2. Happens(c, "delete", m, 1, "delete") /\ "delete" \in Events
    BY DEF Delete, Events
<1>3. m \in Ids /\ 1 \in Versions
    BY <1>1, TextsAreNumbers DEF Ids
<1> QED BY <1>1, <1>2, <1>3, Happening

LEMMA TypesDelete ==
  ASSUME ArchiveTypes, NEW c \in Chats, NEW m \in 1 .. Len(telegram[c]), Delete(c, m)
  PROVE  ArchiveTypes'
<1>1. telegram \in [Chats -> Seq(Letter)] /\ telegram' = [telegram EXCEPT ![c][m].gone = TRUE]
      /\ UNCHANGED <<account, archive, chat, run>>
    BY DEF ArchiveTypes, Delete
<1>2. /\ telegram' \in [Chats -> Seq(Letter)]
      /\ \A d \in Chats : Len(telegram'[d]) = Len(telegram[d])
      /\ \A d \in Chats : \A n \in 1 .. Len(telegram[d]) :
              telegram'[d][n].text = telegram[d][n].text
    BY <1>1, DeleteEffect
<1>3. ASSUME NEW d \in Chats, NEW n \in 1 .. Len(telegram'[d])
      PROVE  telegram'[d][n].text + left'["edit"] <= Budget["edit"] + 1
  <2>1. n \in 1 .. Len(telegram[d]) /\ Budget["edit"] \in Nat
      BY <1>2, BudgetIsNat DEF Events
  <2>2. telegram[d][n].text + left["edit"] <= Budget["edit"] + 1 /\ telegram[d][n].text \in Nat
      BY <1>1, <2>1, LetterTypes DEF ArchiveTypes
  <2>3. left["edit"] \in Nat /\ left'["edit"] \in Nat /\ left'["edit"] <= left["edit"]
      BY DeleteBudget, LeftStaysBounded
  <2>4. telegram'[d][n].text = telegram[d][n].text
      BY <1>2, <2>1
  <2> QED BY <2>1, <2>2, <2>3, <2>4
<1>4. \A d \in Chats : Len(telegram'[d]) <= Top
    BY <1>2 DEF ArchiveTypes
<1> QED BY <1>1, <1>2, <1>3, <1>4, DeleteBudget, LeftStaysBounded DEF ArchiveTypes, RacedGrows

\* The rest leaves Telegram alone.
LEMMA TypesOthers ==
  ASSUME ArchiveTypes, UNCHANGED <<account, telegram>>, LeftFalls, updates' \in SUBSET Update,
         raced' \in SUBSET (Chats \X Ids),
         archive' \in [Chats -> [Ids -> Row]], chat' \in [Chats -> ChatRow], run' \in {NoRun} \cup Running
  PROVE  ArchiveTypes'
<1>1. ASSUME NEW c \in Chats, NEW m \in 1 .. Len(telegram[c])
      PROVE  telegram[c][m].text + left'["edit"] <= Budget["edit"] + 1
  <2>1. telegram[c][m].text + left["edit"] <= Budget["edit"] + 1 /\ telegram[c][m].text \in Nat
      BY LetterTypes DEF ArchiveTypes
  <2>2. Budget["edit"] \in Nat
      BY BudgetIsNat DEF Events
  <2> QED BY <2>1, <2>2, LeftStaysBounded
<1> QED BY <1>1, LeftStaysBounded DEF ArchiveTypes

LEMMA TypesNext == ASSUME ArchiveTypes, [Next]_vars PROVE ArchiveTypes'
<1>0. /\ account \in [automatic : BOOLEAN, indexNew : BOOLEAN] /\ telegram \in [Chats -> Seq(Letter)]
      /\ updates \in SUBSET Update /\ raced \in SUBSET (Chats \X Ids) /\ archive \in [Chats -> [Ids -> Row]] /\ chat \in [Chats -> ChatRow]
      /\ run \in {NoRun} \cup Running /\ left \in [Events \cup {"all"} -> Nat]
    BY DEF ArchiveTypes
<1>1. ASSUME NEW c \in Chats, Post(c) PROVE ArchiveTypes'
    BY <1>1, TypesPost
<1>2. ASSUME NEW c \in Chats, NEW m \in DOMAIN telegram[c], EditText(c, m) \/ Delete(c, m)
      PROVE  ArchiveTypes'
  <2>1. m \in 1 .. Len(telegram[c])
      BY <1>0, LetterTypes
  <2> QED BY <1>2, <2>1, TypesEditText, TypesDelete
<1>3. ASSUME NEW u \in updates,
             \/ HearMessage(u) \/ HandleMessage(u) \/ HearEdit(u) \/ HandleEdit(u) \/ HandleDelete(u)
      PROVE  ArchiveTypes'
  <2>1. Handled(u)
      BY <1>3, Handling
  <2>2. updates' \in SUBSET Update
      BY <1>0, <2>1 DEF Handled, Waiting, Finished
  <2> QED BY <1>0, <2>1, <2>2, NothingSpent, TypesOthers DEF Handled, RacedGrows
<1>6. CASE SyncChats
    BY <1>0, <1>6, SyncChatsEffect, TypesOthers
<1>7. ASSUME NEW c \in Chats, NEW all \in BOOLEAN, Start(c, all) PROVE ArchiveTypes'
  <2>1. /\ LeftFalls /\ run' \in Running /\ UNCHANGED <<account, telegram, updates, archive, chat, raced>>
      BY <1>7, StartEffect
  <2> QED BY <1>0, <2>1, TypesOthers
<1>8. CASE Read
  <2>1. run' \in Running /\ UNCHANGED <<account, telegram, updates, archive, chat, raced, left>>
      BY <1>8, ReadEffect
  <2> QED BY <1>0, <2>1, NothingSpent, TypesOthers
<1>9. CASE Save
  <2>1. /\ archive' \in [Chats -> [Ids -> Row]] /\ chat' \in [Chats -> ChatRow]
        /\ run' \in {NoRun} \cup Running /\ UNCHANGED <<account, telegram, updates, raced, left>>
      BY <1>9, SaveEffect DEF Inserted
  <2> QED BY <1>0, <2>1, NothingSpent, TypesOthers
<1>10. CASE Finish
  <2>1. /\ archive' \in [Chats -> [Ids -> Row]] /\ chat' \in [Chats -> ChatRow]
        /\ run' \in {NoRun} \cup Running /\ UNCHANGED <<account, telegram, updates, raced, left>>
      BY <1>10, FinishEffect DEF Inserted
  <2> QED BY <1>0, <2>1, NothingSpent, TypesOthers
<1>11. CASE Fail
  <2>1. LeftFalls
      BY <1>0, <1>11, Spending DEF Fail, Events
  <2> QED BY <1>0, <1>11, <2>1, TypesOthers DEF Fail
<1>12. ASSUME NEW picked \in SUBSET Chats, Select(picked) PROVE ArchiveTypes'
  <2>1. LeftFalls /\ chat' \in [Chats -> ChatRow] /\ UNCHANGED <<account, telegram, updates, archive, run, raced>>
      BY <1>12, SelectEffect
  <2> QED BY <1>0, <2>1, TypesOthers
<1>13. CASE UNCHANGED vars
    BY <1>0, <1>13, NothingSpent, TypesOthers DEF vars
<1> QED BY <1>1, <1>2, <1>3, <1>6, <1>7, <1>8, <1>9, <1>10, <1>11, <1>12, <1>13 DEF Next

LEMMA TypesAlways == Spec => []ArchiveTypes
    BY TypesInit, TypesNext, PTL DEF Spec

LEMMA TypesGiveTypeOK == ASSUME ArchiveTypes PROVE TypeOK
<1>1. updates \subseteq Update /\ raced \subseteq Chats \X Ids
    BY DEF ArchiveTypes
<1>2. Row \subseteq [text : Versions \cup {0}, gone : BOOLEAN, old : SUBSET Versions]
  <2>1. NoRow \in [text : Versions \cup {0}, gone : BOOLEAN, old : SUBSET Versions]
      BY DEF NoRow
  <2>2. StoredRow \subseteq [text : Versions \cup {0}, gone : BOOLEAN, old : SUBSET Versions]
      BY DEF StoredRow
  <2> QED BY <2>1, <2>2 DEF Row
<1>3. archive \in [Chats -> [Ids -> [text : Versions \cup {0}, gone : BOOLEAN, old : SUBSET Versions]]]
  <2>1. \A c \in Chats : archive[c] \in [Ids -> Row]
      BY DEF ArchiveTypes
  <2>2. \A c \in Chats : archive[c] \in [Ids -> [text : Versions \cup {0}, gone : BOOLEAN, old : SUBSET Versions]]
      BY <1>2, <2>1
  <2> QED BY <2>2 DEF ArchiveTypes
<1> QED BY <1>1, <1>3 DEF ArchiveTypes, TypeOK, Letter, Update, ChatRow, Running

\* Every variable keeps its type, and the budget bounds how far texts go.
THEOREM ArchiveTypesAlways == Spec => []TypeOK
    BY TypesAlways, TypesGiveTypeOK, PTL

-----------------------------------------------------------------------------
(* The order of texts.                                                         *)

\* What a post, an edit and a deletion have in common.
Says(u) ==
  /\ u \in Update /\ Told(u) /\ RacedGrows /\ LeftFalls /\ Lengths
  /\ \A d \in Chats : \A n \in 1 .. Len(telegram[d]) :
       /\ telegram[d][n].gone => telegram'[d][n].gone
       /\ telegram[d][n].text \in Nat /\ telegram'[d][n].text \in Nat
       /\ telegram'[d][n].text >= telegram[d][n].text
       /\ telegram'[d][n].text = telegram[d][n].text \/ (u.kind = "edit" /\ d = u.chat /\ n = u.id)
  /\ \A d \in Chats : \A n \in 1 .. Len(telegram'[d]) :
       n \in 1 .. Len(telegram[d]) \/ (u.kind = "new" /\ d = u.chat /\ n = u.id)
  /\ u.id <= Len(telegram'[u.chat])
  /\ u.kind # "delete" => u.text = telegram'[u.chat][u.id].text
  /\ u.kind = "edit" =>
       /\ u.id \in 1 .. Len(telegram[u.chat])
       /\ telegram'[u.chat][u.id].text > telegram[u.chat][u.id].text
  /\ UNCHANGED <<account, archive, chat, run>>

LEMMA PostSays ==
  ASSUME ArchiveTypes, NEW c \in Chats, Post(c)
  PROVE  \E u : Says(u)
<1> DEFINE k == Len(telegram[c]) + 1
           u == [kind |-> "new", chat |-> c, id |-> k, text |-> 1, at |-> "sent"]
<1>1. telegram \in [Chats -> Seq(Letter)]
    BY DEF ArchiveTypes
<1>2. LeftFalls /\ RacedGrows /\ Told(u) /\ k \in Ids
    BY PostBudget
<1>3. u \in Update /\ u.kind = "new" /\ u.chat = c /\ u.id = k /\ u.text = 1
    BY <1>2, TextsAreNumbers DEF Update
<1>4. /\ telegram' \in [Chats -> Seq(Letter)] /\ Lengths
      /\ \A d \in Chats : Len(telegram'[d]) = IF d = c THEN Len(telegram[d]) + 1 ELSE Len(telegram[d])
      /\ \A d \in Chats : \A m \in 1 .. Len(telegram[d]) : Same(d, m)
      /\ telegram'[c][k].text = 1
    BY <1>1, PostEffect
<1>5. \A d \in Chats : Len(telegram[d]) \in Nat /\ \A n \in 1 .. Len(telegram[d]) : telegram[d][n].text \in Nat
    BY <1>1, LetterTypes
<1>6. UNCHANGED <<account, archive, chat, run>>
    BY DEF Post
<1> HIDE DEF u
<1>7. \A d \in Chats : \A n \in 1 .. Len(telegram'[d]) :
       n \in 1 .. Len(telegram[d]) \/ (u.kind = "new" /\ d = u.chat /\ n = u.id)
    BY <1>3, <1>4, <1>5
<1>8. u.id <= Len(telegram'[u.chat])
    BY <1>3, <1>4, <1>5
<1> HIDE DEF k
<1>9. Says(u)
    BY <1>2, <1>3, <1>4, <1>5, <1>6, <1>7, <1>8 DEF Says, Same
<1> QED BY <1>9

LEMMA EditSays ==
  ASSUME ArchiveTypes, NEW c \in Chats, NEW m \in 1 .. Len(telegram[c]), EditText(c, m)
  PROVE  \E u : Says(u)
<1> DEFINE t == telegram[c][m].text + 1
           u == [kind |-> "edit", chat |-> c, id |-> m, text |-> t, at |-> "sent"]
<1>1. telegram \in [Chats -> Seq(Letter)] /\ Raised(c, m) /\ UNCHANGED <<account, archive, chat, run>>
    BY DEF ArchiveTypes, EditText, Raised
<1>2. LeftFalls /\ RacedGrows /\ Told(u) /\ m \in Ids /\ t \in Versions
    BY EditBudget
<1>3. u \in Update /\ u.kind = "edit" /\ u.chat = c /\ u.id = m /\ u.text = t
    BY <1>2 DEF Update
<1>4. /\ telegram' \in [Chats -> Seq(Letter)] /\ Lengths
      /\ \A d \in Chats : Len(telegram'[d]) = Len(telegram[d])
      /\ \A d \in Chats : \A n \in 1 .. Len(telegram[d]) :
              /\ telegram'[d][n].gone <=> telegram[d][n].gone
              /\ telegram'[d][n].text =
                   IF d = c /\ n = m THEN telegram[d][n].text + 1 ELSE telegram[d][n].text
  <2>1. telegram[c][m].text + 1 \in Versions
      BY EditBudget
  <2> QED BY ONLY <1>1, <2>1, EditEffect, c \in Chats, m \in 1 .. Len(telegram[c])
<1>5. \A d \in Chats : Len(telegram[d]) \in Nat /\ \A n \in 1 .. Len(telegram[d]) : telegram[d][n].text \in Nat
    BY <1>1, LetterTypes
<1>6. \A d \in Chats : \A n \in 1 .. Len(telegram[d]) :
        /\ telegram'[d][n].text \in Nat /\ telegram'[d][n].text >= telegram[d][n].text
        /\ telegram'[d][n].text = telegram[d][n].text \/ (d = c /\ n = m)
    BY <1>4, <1>5
<1>7. telegram'[c][m].text > telegram[c][m].text
    BY <1>4, <1>5
<1>8. m <= Len(telegram'[c]) /\ telegram'[c][m].text = t
    BY <1>4, <1>5
<1> HIDE DEF u, t
<1>9. Says(u)
    BY <1>1, <1>2, <1>3, <1>4, <1>5, <1>6, <1>7, <1>8 DEF Says
<1> QED BY <1>9

LEMMA DeleteSays ==
  ASSUME ArchiveTypes, NEW c \in Chats, NEW m \in 1 .. Len(telegram[c]), Delete(c, m)
  PROVE  \E u : Says(u)
<1> DEFINE u == [kind |-> "delete", chat |-> c, id |-> m, text |-> 1, at |-> "sent"]
<1>1. telegram \in [Chats -> Seq(Letter)] /\ telegram' = [telegram EXCEPT ![c][m].gone = TRUE]
      /\ UNCHANGED <<account, archive, chat, run>>
    BY DEF ArchiveTypes, Delete
<1>2. LeftFalls /\ RacedGrows /\ Told(u) /\ m \in Ids
    BY DeleteBudget
<1>3. u \in Update /\ u.kind = "delete" /\ u.chat = c /\ u.id = m
    BY <1>2, TextsAreNumbers DEF Update
<1>4. /\ telegram' \in [Chats -> Seq(Letter)] /\ Lengths
      /\ \A d \in Chats : Len(telegram'[d]) = Len(telegram[d])
      /\ \A d \in Chats : \A n \in 1 .. Len(telegram[d]) :
              /\ telegram'[d][n].text = telegram[d][n].text
              /\ telegram[d][n].gone => telegram'[d][n].gone
    BY <1>1, DeleteEffect
<1>5. \A d \in Chats : Len(telegram[d]) \in Nat /\ \A n \in 1 .. Len(telegram[d]) : telegram[d][n].text \in Nat
    BY <1>1, LetterTypes
<1>6. m <= Len(telegram'[c])
    BY <1>4, <1>5
<1> HIDE DEF u
<1>7. Says(u)
    BY <1>1, <1>2, <1>3, <1>4, <1>5, <1>6 DEF Says
<1> QED BY <1>7

LEMMA UnusedBefore ==
  ASSUME ArchiveTypes, LeftFalls, NEW S \in SUBSET Events, Unused(S)'
  PROVE  Unused(S) /\ \A e \in S : left'[e] = left[e] /\ left[e] \in Nat
<1> SUFFICES ASSUME NEW e \in S PROVE left[e] = Budget[e] /\ left'[e] = left[e] /\ left[e] \in Nat
    BY DEF Unused
<1>1. left'[e] = Budget[e] /\ left'[e] <= left[e] /\ left[e] <= Budget[e]
    BY DEF Unused, LeftFalls, ArchiveTypes
<1>2. left[e] \in Nat /\ Budget[e] \in Nat
    BY BudgetIsNat DEF ArchiveTypes
<1> QED BY <1>1, <1>2

LEMMA UpdateTypes ==
  ASSUME ArchiveTypes, NEW u \in updates
  PROVE  /\ u \in Update /\ u.kind \in {"new", "edit", "delete"} /\ u.chat \in Chats
         /\ u.id \in Ids /\ u.id \in Nat \ {0} /\ u.text \in Versions /\ u.text \in Nat \ {0}
<1>1. u \in Update
    BY DEF ArchiveTypes
<1> QED BY <1>1, TextsAreNumbers DEF Update

\* An update is of a message of Telegram.
LEMMA UpdateLetter ==
  ASSUME ArchiveTypes, UpdatesAreBehind, NEW u \in updates
  PROVE  /\ u.id \in 1 .. Len(telegram[u.chat]) /\ Newest(u.chat, u.id) \in Nat
<1>1. u.chat \in Chats /\ u.id \in Nat \ {0} /\ u.id <= Len(telegram[u.chat])
    BY UpdateTypes DEF UpdatesAreBehind
<1>2. telegram \in [Chats -> Seq(Letter)]
    BY DEF ArchiveTypes
<1>3. Len(telegram[u.chat]) \in Nat
    BY <1>1, <1>2, LetterTypes
<1>4. u.id \in 1 .. Len(telegram[u.chat])
    BY <1>1, <1>3
<1> QED BY <1>1, <1>2, <1>4, LetterTypes DEF Newest

\* A text of Telegram changes only with the edit that the listener is told of.
LEMMA SaysNewest ==
  ASSUME ArchiveTypes, NEW u, Says(u), NEW c \in Chats, NEW m \in 1 .. Len(telegram[c])
  PROVE  /\ Newest(c, m) \in Nat /\ Newest(c, m)' \in Nat /\ Newest(c, m)' >= Newest(c, m)
         /\ m <= Len(telegram'[c])
         /\ \/ Newest(c, m)' = Newest(c, m)
            \/ /\ u.kind = "edit" /\ c = u.chat /\ m = u.id /\ u.text = Newest(c, m)'
               /\ Newest(c, m)' > Newest(c, m)
<1>1. Len(telegram[c]) \in Nat /\ Len(telegram'[c]) \in Nat /\ Len(telegram'[c]) >= Len(telegram[c])
    BY LetterTypes DEF ArchiveTypes, Says, Lengths
<1>2. /\ telegram[c][m].text \in Nat /\ telegram'[c][m].text \in Nat
      /\ telegram'[c][m].text >= telegram[c][m].text
      /\ telegram'[c][m].text = telegram[c][m].text \/ (u.kind = "edit" /\ c = u.chat /\ m = u.id)
    BY DEF Says
<1>3. u.kind = "edit" => /\ u.text = telegram'[u.chat][u.id].text
                         /\ telegram'[u.chat][u.id].text > telegram[u.chat][u.id].text
    BY DEF Says
<1> QED BY <1>1, <1>2, <1>3 DEF Newest

\* An edit on its way stays on its way, or a newer one is told or lost.
LEMMA SaysComing ==
  ASSUME ArchiveTypes, NEW u, Says(u), NEW c \in Chats, NEW m \in 1 .. Len(telegram[c]),
         <<c, m>> \notin raced', NEW t \in Nat, t <= Newest(c, m),
         t = Newest(c, m) \/ Coming(c, m)
  PROVE  \/ t = Newest(c, m)' \/ Coming(c, m)'
         \/ updates' = updates /\ u.kind = "edit" /\ c = u.chat /\ m = u.id /\ ~Outdated(u) /\ t < u.text
<1>1. updates' = updates \/ updates' = updates \cup {u}
    BY DEF Says, Told
<1>2. CASE Newest(c, m)' = Newest(c, m)
    BY <1>1, <1>2 DEF Coming
<1>3. CASE u.kind = "edit" /\ c = u.chat /\ m = u.id /\ u.text = Newest(c, m)'
           /\ Newest(c, m)' > Newest(c, m)
  <2>1. CASE updates' = updates \cup {u}
      BY <1>3, <2>1 DEF Coming
  <2>2. CASE updates' = updates /\ (Outdated(u) => <<u.chat, u.id>> \in raced')
    <3>1. Newest(c, m) \in Nat /\ u.text \in Nat
        BY <1>3, SaysNewest
    <3> QED BY <1>3, <2>2, <3>1
  <2> QED BY <1>3, <2>1, <2>2 DEF Says, Told
<1> QED BY <1>2, <1>3, SaysNewest

LEMMA OrderSaysUpdates ==
  ASSUME ArchiveTypes, ArchiveTypes', OrderInv, NEW u, Says(u)
  PROVE  UpdatesAreBehind' /\ NewestLast'
<1>0. u \in Update /\ (updates' = updates \/ updates' = updates \cup {u}) /\ archive' = archive
      /\ raced \subseteq raced'
    BY DEF Says, Told, RacedGrows
<1>1. /\ u.id <= Len(telegram'[u.chat]) /\ u.text \in Nat
      /\ u.kind # "delete" => u.text = Newest(u.chat, u.id)'
    BY <1>0, TextsAreNumbers DEF Says, Newest, Update
<1>2. ASSUME NEW v \in updates
      PROVE  /\ v.id <= Len(telegram'[v.chat])
             /\ v.kind # "delete" => v.text <= Newest(v.chat, v.id)'
             /\ v.kind # "delete" /\ <<v.chat, v.id>> \notin raced' =>
                  \/ v.text = Newest(v.chat, v.id)' \/ Coming(v.chat, v.id)'
                  \/ v.kind = "new" /\ Stored(v.chat, v.id)
  <2>1. /\ v.kind \in {"new", "edit", "delete"} /\ v.chat \in Chats
        /\ v.text \in Nat /\ v.id \in 1 .. Len(telegram[v.chat])
      BY UpdateTypes, UpdateLetter DEF OrderInv
  <2>2. /\ Newest(v.chat, v.id) \in Nat /\ Newest(v.chat, v.id)' \in Nat
        /\ Newest(v.chat, v.id)' >= Newest(v.chat, v.id) /\ v.id <= Len(telegram'[v.chat])
      BY <2>1, SaysNewest
  <2>3. v.kind # "delete" => v.text <= Newest(v.chat, v.id)
      BY DEF OrderInv, UpdatesAreBehind
  <2>4. ASSUME v.kind # "delete", <<v.chat, v.id>> \notin raced', ~(v.kind = "new" /\ Stored(v.chat, v.id))
        PROVE  v.text = Newest(v.chat, v.id)' \/ Coming(v.chat, v.id)'
    <3>1. v.text = Newest(v.chat, v.id) \/ Coming(v.chat, v.id)
        BY <1>0, <2>4 DEF OrderInv, NewestLast
    <3>2. CASE u.kind = "edit" /\ v.chat = u.chat /\ v.id = u.id /\ ~Outdated(u) /\ v.text < u.text
      <4>1. Early(u)
          BY <2>1, <2>4, <3>2 DEF Early
      <4> QED BY <3>2, <4>1 DEF Outdated
    <3> QED BY <2>1, <2>3, <2>4, <3>1, <3>2, SaysComing
  <2>5. v.kind # "delete" => v.text <= Newest(v.chat, v.id)'
      BY <2>1, <2>2, <2>3
  <2> QED BY <2>2, <2>4, <2>5
<1>3. UpdatesAreBehind'
  <2> SUFFICES ASSUME NEW v \in updates'
               PROVE  /\ v.id <= Len(telegram'[v.chat])
                      /\ v.kind # "delete" => v.text <= Newest(v.chat, v.id)'
      BY DEF UpdatesAreBehind, Newest
  <2>1. CASE v \in updates
      BY <1>2, <2>1
  <2>2. CASE v = u
      BY <1>1, <2>2
  <2> QED BY <1>0, <2>1, <2>2
<1>4. NewestLast'
    BY <1>0, <1>1, <1>2 DEF NewestLast, Stored
<1> QED BY <1>3, <1>4

LEMMA ArchiveRows ==
  ASSUME ArchiveTypes, NEW c \in Chats, NEW m \in Ids
  PROVE  /\ archive[c][m] \in Row /\ (Stored(c, m) <=> archive[c][m] \in StoredRow)
         /\ archive[c][m].text \in Nat /\ (Stored(c, m) => archive[c][m].text \in Versions)
<1>1. archive[c][m] \in Row
    BY DEF ArchiveTypes
<1>2. \A r \in StoredRow : r.text \in Versions /\ r # NoRow /\ r.text \in Nat
    BY NoRowType, TextsAreNumbers DEF StoredRow
<1> QED BY <1>1, <1>2, NoRowType DEF Stored, Row

LEMMA OrderSays ==
  ASSUME ArchiveTypes, ArchiveTypes', OrderInv, NEW u, Says(u)
  PROVE  OrderInv'
<1>1. UpdatesAreBehind' /\ NewestLast'
    BY OrderSaysUpdates
<1>2. archive' = archive /\ run' = run
    BY DEF Says
<1>3. ASSUME NEW c \in Chats, NEW m \in Ids, m <= Len(telegram[c])
      PROVE  /\ m <= Len(telegram'[c])
             /\ Newest(c, m) \in Nat /\ Newest(c, m)' \in Nat /\ Newest(c, m)' >= Newest(c, m)
  <2>1. Len(telegram[c]) \in Nat /\ m \in Nat \ {0}
      BY LetterTypes, TextsAreNumbers DEF ArchiveTypes
  <2>2. m \in 1 .. Len(telegram[c])
      BY <1>3, <2>1
  <2> QED BY <2>2, SaysNewest
<1>4. ASSUME NEW c \in Chats, NEW m \in Ids, Stored(c, m)
      PROVE  m <= Len(telegram'[c]) /\ archive[c][m].text \in 1 .. Newest(c, m)'
  <2>1. m <= Len(telegram[c]) /\ archive[c][m].text \in 1 .. Newest(c, m)
      BY <1>4 DEF OrderInv, StoredIsBehind
  <2>2. /\ m <= Len(telegram'[c])
        /\ Newest(c, m) \in Nat /\ Newest(c, m)' \in Nat /\ Newest(c, m)' >= Newest(c, m)
      BY <1>3, <2>1
  <2> QED BY ONLY <2>1, <2>2
<1>5. ASSUME run # NoRun, NEW p \in run.batch
      PROVE  p[1] <= Len(telegram'[run.chat]) /\ p[2] <= Newest(run.chat, p[1])'
  <2>1. run.chat \in Chats /\ p[1] \in Ids /\ p[2] \in Nat
      BY <1>5, RunTypes, TextsAreNumbers DEF ArchiveTypes
  <2>2. p[1] <= Len(telegram[run.chat]) /\ p[2] <= Newest(run.chat, p[1])
      BY <1>5 DEF OrderInv, BatchIsBehind
  <2>3. /\ p[1] <= Len(telegram'[run.chat])
        /\ telegram[run.chat][p[1]].text \in Nat /\ telegram'[run.chat][p[1]].text \in Nat
        /\ telegram'[run.chat][p[1]].text >= telegram[run.chat][p[1]].text
      BY <1>3, <2>1, <2>2 DEF Newest
  <2>4. \A a, b, d \in Nat : a <= b /\ d >= b => a <= d
      OBVIOUS
  <2>5. p[2] <= telegram[run.chat][p[1]].text
      BY <2>2 DEF Newest
  <2>6. p[2] <= telegram'[run.chat][p[1]].text
      BY ONLY <2>1, <2>3, <2>4, <2>5
  <2> QED BY <1>2, <2>3, <2>6 DEF Newest
<1>6. StoredIsBehind'
    BY <1>2, <1>4 DEF StoredIsBehind, Stored
<1>7. BatchIsBehind'
    BY <1>2, <1>5 DEF BatchIsBehind, Newest
<1> QED BY <1>1, <1>6, <1>7 DEF OrderInv

\* Every update left is like one that was there before.
LEMMA StillTold ==
  ASSUME NEW u \in updates, Handled(u), NEW v \in updates'
  PROVE  /\ \E w \in updates : Like(w, v)
         /\ Finished(u) => v \in updates /\ v # u
    BY DEF Handled, Waiting, Finished, Like

\* An edit on its way still is, unless it was this one.
LEMMA EditStillComes ==
  ASSUME NEW u \in updates, Handled(u), NEW c, NEW m, Coming(c, m)
  PROVE  \/ Coming(c, m)'
         \/ ~Waiting(u) /\ u.kind = "edit" /\ u.chat = c /\ u.id = m /\ u.text = Newest(c, m)
<1>1. PICK v \in updates : v.kind = "edit" /\ v.chat = c /\ v.id = m /\ v.text = Newest(c, m)
    BY DEF Coming
<1>2. Newest(c, m)' = Newest(c, m)
    BY DEF Handled, Newest
<1>3. CASE v # u
  <2>1. v \in updates'
      BY <1>3 DEF Handled, Waiting, Finished
  <2> QED BY <1>1, <1>2, <2>1 DEF Coming
<1>4. CASE v = u /\ Waiting(u)
    BY <1>1, <1>2, <1>4 DEF Waiting, Like, Coming
<1> QED BY <1>1, <1>3, <1>4

\* What is left of a message whose newest edit is done with is not older.
LEMMA LeftIsNewest ==
  ASSUME ArchiveTypes, OrderInv, NEW u \in updates, Handled(u), ~Waiting(u), u.kind = "edit",
         <<u.chat, u.id>> \notin raced', u.text = Newest(u.chat, u.id),
         NEW v \in updates, v.kind # "delete", v.chat = u.chat, v.id = u.id
  PROVE  v.text = u.text \/ (v.kind = "new" /\ Stored(v.chat, v.id))
<1>1. v.text \in Nat /\ u.text \in Nat /\ v.kind \in {"new", "edit", "delete"}
    BY UpdateTypes
<1>2. v.text <= u.text
    BY DEF OrderInv, UpdatesAreBehind
<1>3. ~Early(u)
    BY DEF Handled
<1> QED BY <1>1, <1>2, <1>3 DEF Early

LEMMA OrderInit == ASSUME Init PROVE OrderInv
<1>1. updates = {} /\ run = NoRun /\ \A c \in Chats, m \in Ids : ~Stored(c, m)
    BY DEF Init, Stored
<1> QED BY <1>1 DEF OrderInv, UpdatesAreBehind, NewestLast, StoredIsBehind, BatchIsBehind

LEMMA StoredInserted ==
  ASSUME ArchiveTypes, OrderInv, Inserted, run # NoRun, telegram' = telegram
  PROVE  StoredIsBehind'
<1> SUFFICES ASSUME NEW c \in Chats, NEW m \in Ids, archive'[c][m] # NoRow
             PROVE  m <= Len(telegram[c]) /\ archive'[c][m].text \in 1 .. telegram[c][m].text
    BY DEF StoredIsBehind, Stored, Newest
<1>1. CASE archive'[c][m] = archive[c][m]
    BY <1>1 DEF OrderInv, StoredIsBehind, Stored, Newest
<1>2. CASE c = run.chat /\ archive'[c][m] \in StoredRow /\ <<m, archive'[c][m].text>> \in run.batch
  <2> DEFINE t == archive'[c][m].text
  <2>1. m <= Len(telegram[c]) /\ t <= telegram[c][m].text
      BY <1>2 DEF OrderInv, BatchIsBehind, Newest
  <2>2. t \in Nat \ {0}
      BY <1>2, TextsAreNumbers DEF StoredRow
  <2>3. Len(telegram[c]) \in Nat /\ m \in Nat \ {0}
      BY LetterTypes, TextsAreNumbers DEF ArchiveTypes
  <2>4. telegram[c][m].text \in Nat
    <3>1. m \in 1 .. Len(telegram[c])
        BY <2>1, <2>3
    <3> QED BY <3>1, LetterTypes DEF ArchiveTypes
  <2> QED BY <2>1, <2>2, <2>4
<1> QED BY <1>1, <1>2 DEF Inserted

\* A row stays stored, whoever writes.
LEMMA StoredStays ==
  ASSUME ArchiveTypes, Inserted \/ (\E u \in updates : Handled(u)) \/ archive' = archive,
         NEW c \in Chats, NEW m \in Ids, Stored(c, m)
  PROVE  Stored(c, m)'
<1>1. archive[c][m] \in StoredRow /\ \A r \in StoredRow : r # NoRow
    BY ArchiveRows, NoRowType
<1>2. archive'[c][m] \in StoredRow
    BY <1>1 DEF Inserted, Handled
<1> QED BY <1>1, <1>2 DEF Stored

LEMMA OrderHandled ==
  ASSUME ArchiveTypes, OrderInv, NEW u \in updates, Handled(u)
  PROVE  OrderInv'
<1>0. /\ UNCHANGED <<telegram, run>> /\ raced \subseteq raced'
      /\ \A c \in Chats, m \in Ids : Stored(c, m) => Stored(c, m)'
    BY StoredStays DEF Handled, RacedGrows
<1>1. ASSUME NEW v \in updates'
      PROVE  /\ v.id <= Len(telegram[v.chat])
             /\ v.kind # "delete" => v.text <= Newest(v.chat, v.id)
             /\ v.kind # "delete" /\ <<v.chat, v.id>> \notin raced' =>
                  \/ v.text = Newest(v.chat, v.id)' \/ Coming(v.chat, v.id)'
                  \/ v.kind = "new" /\ Stored(v.chat, v.id)'
  <2>1. PICK w \in updates : Like(w, v)
      BY StillTold
  <2>2. v.id <= Len(telegram[v.chat]) /\ (v.kind # "delete" => v.text <= Newest(v.chat, v.id))
        /\ v.chat \in Chats /\ v.id \in Ids
      BY <2>1, UpdateTypes DEF OrderInv, UpdatesAreBehind, Like
  <2>3. ASSUME v.kind # "delete", <<v.chat, v.id>> \notin raced'
        PROVE  \/ v.text = Newest(v.chat, v.id)' \/ Coming(v.chat, v.id)'
               \/ v.kind = "new" /\ Stored(v.chat, v.id)'
    <3>1. \/ v.text = Newest(v.chat, v.id) \/ Coming(v.chat, v.id)
          \/ v.kind = "new" /\ Stored(v.chat, v.id)
        BY <1>0, <2>1, <2>3 DEF OrderInv, NewestLast, Like
    <3>2. Newest(v.chat, v.id)' = Newest(v.chat, v.id)
        BY <1>0 DEF Newest
    <3>3. CASE Coming(v.chat, v.id)
      <4>1. CASE Coming(v.chat, v.id)'
          BY <4>1
      <4>2. CASE ~Waiting(u) /\ u.kind = "edit" /\ u.chat = v.chat /\ u.id = v.id
                 /\ u.text = Newest(v.chat, v.id)
        <5>1. w.text = u.text \/ (w.kind = "new" /\ Stored(w.chat, w.id))
            BY <2>1, <2>3, <4>2, LeftIsNewest DEF Like
        <5> QED BY <1>0, <2>1, <2>2, <3>2, <4>2, <5>1 DEF Like
      <4> QED BY <3>3, <4>1, <4>2, EditStillComes
    <3> QED BY <1>0, <2>2, <3>1, <3>2, <3>3
  <2> QED BY <2>2, <2>3
<1>2. UpdatesAreBehind' /\ NewestLast'
    BY <1>0, <1>1 DEF UpdatesAreBehind, NewestLast, Newest
<1>3. ASSUME NEW c \in Chats, NEW m \in Ids, archive'[c][m] # NoRow
      PROVE  m <= Len(telegram[c]) /\ archive'[c][m].text \in 1 .. Newest(c, m)
  <2>1. CASE Stored(c, m) /\ archive'[c][m].text = archive[c][m].text
      BY <2>1 DEF OrderInv, StoredIsBehind
  <2>2. CASE c = u.chat /\ m = u.id /\ u.kind # "delete" /\ archive'[c][m].text = u.text
      BY <2>2, UpdateTypes, UpdateLetter DEF OrderInv, UpdatesAreBehind
  <2> QED BY <1>3, <2>1, <2>2 DEF Handled, Stored
<1>4. StoredIsBehind'
    BY <1>0, <1>3 DEF StoredIsBehind, Stored, Newest
<1>5. BatchIsBehind'
    BY <1>0 DEF OrderInv, BatchIsBehind, Newest
<1> QED BY <1>2, <1>4, <1>5 DEF OrderInv

\* The worker and the user leave the updates alone.
LEMMA UpdatesKept ==
  ASSUME ArchiveTypes, OrderInv, UNCHANGED <<telegram, updates, raced>>,
         Inserted \/ archive' = archive
  PROVE  UpdatesAreBehind' /\ NewestLast'
<1>1. \A c \in Chats, m \in Ids : Stored(c, m) => Stored(c, m)'
    BY StoredStays
<1>2. \A v \in updates : v.chat \in Chats /\ v.id \in Ids
    BY UpdateTypes
<1>3. UpdatesAreBehind'
    BY DEF OrderInv, UpdatesAreBehind, Newest
<1>4. ASSUME NEW v \in updates', v.kind # "delete", <<v.chat, v.id>> \notin raced'
      PROVE  \/ v.text = Newest(v.chat, v.id)' \/ Coming(v.chat, v.id)'
             \/ v.kind = "new" /\ Stored(v.chat, v.id)'
  <2>1. \/ v.text = Newest(v.chat, v.id) \/ Coming(v.chat, v.id)
        \/ v.kind = "new" /\ Stored(v.chat, v.id)
      BY <1>4 DEF OrderInv, NewestLast
  <2>2. Newest(v.chat, v.id)' = Newest(v.chat, v.id) /\ (Coming(v.chat, v.id) => Coming(v.chat, v.id)')
      BY DEF Newest, Coming
  <2> QED BY <1>1, <1>2, <1>4, <2>1, <2>2
<1> QED BY <1>3, <1>4 DEF NewestLast

LEMMA OrderNext == ASSUME ArchiveTypes, OrderInv, [Next]_vars PROVE OrderInv'
<1>0. /\ telegram \in [Chats -> Seq(Letter)] /\ left \in [Events \cup {"all"} -> Nat]
      /\ ArchiveTypes' /\ StoredIsBehind /\ BatchIsBehind
    BY TypesNext DEF ArchiveTypes, OrderInv
<1>1. ASSUME NEW c \in Chats, Post(c) PROVE OrderInv'
    BY <1>0, <1>1, PostSays, OrderSays
<1>2. ASSUME NEW c \in Chats, NEW m \in DOMAIN telegram[c], EditText(c, m) \/ Delete(c, m)
      PROVE  OrderInv'
  <2>1. m \in 1 .. Len(telegram[c])
      BY <1>0, LetterTypes
  <2>2. \E u : Says(u)
      BY <1>2, <2>1, EditSays, DeleteSays
  <2> QED BY <1>0, <2>2, OrderSays
<1>3. ASSUME NEW u \in updates,
             \/ HearMessage(u) \/ HandleMessage(u) \/ HearEdit(u) \/ HandleEdit(u) \/ HandleDelete(u)
      PROVE  OrderInv'
    BY <1>3, Handling, OrderHandled
\* Only the run's batch and what it inserts matter from here on.
<1>5. ASSUME UNCHANGED <<telegram, updates, raced>>, archive' = archive \/ (Inserted /\ run # NoRun),
             run' # NoRun => \/ run'.batch = {}
                             \/ run # NoRun /\ run'.chat = run.chat /\ run'.batch = run.batch
      PROVE  OrderInv'
  <2>1. UpdatesAreBehind' /\ NewestLast'
      BY <1>5, UpdatesKept
  <2>2. StoredIsBehind'
      BY <1>0, <1>5, StoredInserted DEF StoredIsBehind, Stored, Newest
  <2>3. BatchIsBehind'
      BY <1>0, <1>5 DEF BatchIsBehind, Newest
  <2> QED BY <2>1, <2>2, <2>3 DEF OrderInv
<1>6. CASE SyncChats
    BY <1>5, <1>6, SyncChatsEffect
<1>7. ASSUME NEW c \in Chats, NEW all \in BOOLEAN, Start(c, all) PROVE OrderInv'
  <2>1. run'.batch = {} /\ UNCHANGED <<telegram, updates, archive, raced>>
      BY <1>7, StartEffect
  <2> QED BY <1>5, <2>1
<1>8. CASE Read
  <2>1. /\ run \in Running /\ run'.chat = run.chat /\ UNCHANGED <<telegram, updates, archive, raced, left>>
        /\ \E m \in 1 .. Len(telegram[run.chat]) :
             run'.batch = run.batch \cup {<<m, telegram[run.chat][m].text>>}
      BY <1>8, ReadEffect
  <2>2. PICK m \in 1 .. Len(telegram[run.chat]) :
          run'.batch = run.batch \cup {<<m, telegram[run.chat][m].text>>}
      BY <2>1
  <2>3. run # NoRun /\ run.chat \in Chats /\ Len(telegram[run.chat]) \in Nat
        /\ telegram[run.chat][m].text \in Nat
      BY <1>0, <2>1, NoRunIsNone, RunTypes, LetterTypes DEF Running
  <2>4. ASSUME NEW p \in run'.batch
        PROVE  p[1] <= Len(telegram[run.chat]) /\ p[2] <= telegram[run.chat][p[1]].text
    <3>1. CASE p \in run.batch
        BY <1>0, <2>3, <3>1 DEF BatchIsBehind, Newest
    <3>2. CASE p = <<m, telegram[run.chat][m].text>>
        BY <2>3, <3>2
    <3> QED BY <2>2, <3>1, <3>2
  <2>5. BatchIsBehind'
      BY <2>1, <2>4 DEF BatchIsBehind, Newest
  <2>6. UpdatesAreBehind' /\ NewestLast' /\ StoredIsBehind'
      BY <1>0, <2>1, UpdatesKept DEF StoredIsBehind, Stored, Newest
  <2> QED BY <2>5, <2>6 DEF OrderInv
<1>9. CASE Save
  <2>1. /\ Inserted /\ run # NoRun /\ UNCHANGED <<telegram, updates, raced>>
        /\ run' # NoRun => run'.batch = {}
      BY <1>9, SaveEffect, NoRunIsNone
  <2> QED BY <1>5, <2>1
<1>10. CASE Finish
  <2>1. Inserted /\ run # NoRun /\ UNCHANGED <<telegram, updates, raced>> /\ run' = NoRun
      BY <1>10, FinishEffect, NoRunIsNone
  <2> QED BY <1>5, <2>1
<1>11. CASE Fail
    BY <1>5, <1>11 DEF Fail
<1>12. ASSUME NEW picked \in SUBSET Chats, Select(picked) PROVE OrderInv'
  <2>1. UNCHANGED <<telegram, updates, archive, run, raced>>
      BY <1>12, SelectEffect
  <2> QED BY <1>5, <2>1
<1>13. CASE UNCHANGED vars
    BY <1>5, <1>13 DEF vars
<1> QED BY <1>1, <1>2, <1>3, <1>6, <1>7, <1>8, <1>9, <1>10, <1>11, <1>12, <1>13 DEF Next

-----------------------------------------------------------------------------
(* Nothing is forgotten.                                                       *)

Remembers(c, m) ==
  /\ archive[c][m].old \cup {archive[c][m].text} \subseteq
       archive'[c][m].old \cup {archive'[c][m].text}
  /\ archive[c][m].gone => archive'[c][m].gone
  /\ \/ archive'[c][m].text >= archive[c][m].text
     \/ EditComes(updates', c, m, archive[c][m].text)
     \/ <<c, m>> \in raced'

LEMMA SameRowRemembers ==
  ASSUME ArchiveTypes, NEW c \in Chats, NEW m \in Ids, archive'[c][m] = archive[c][m]
  PROVE  Remembers(c, m)
    BY ArchiveRows DEF Remembers

LEMMA HandledRemembers ==
  ASSUME ArchiveTypes, OrderInv, NEW u \in updates, Handled(u), NEW c \in Chats, NEW m \in Ids,
         Stored(c, m)
  PROVE  Remembers(c, m)
<1>1. CASE archive'[c][m] = archive[c][m]
    BY <1>1, SameRowRemembers
<1>2. CASE archive'[c][m].gone /\ archive'[c][m].text = archive[c][m].text
           /\ archive'[c][m].old = archive[c][m].old
    BY <1>2, ArchiveRows DEF Remembers
<1>3. CASE /\ c = u.chat /\ m = u.id /\ u.kind = "edit" /\ archive'[c][m].text = u.text
           /\ archive'[c][m].gone = archive[c][m].gone
           /\ archive'[c][m].old = archive[c][m].old \cup {archive[c][m].text}
  <2>1. ASSUME <<c, m>> \notin raced'
        PROVE  \/ u.text >= archive[c][m].text
               \/ EditComes(updates', c, m, archive[c][m].text)
    <3>1. archive[c][m].text \in 1 .. Newest(c, m) /\ Newest(c, m) \in Nat
        BY <1>3, UpdateLetter DEF OrderInv, StoredIsBehind
    <3>2. u.text = Newest(c, m) \/ Coming(c, m)
        BY <1>3, <2>1 DEF OrderInv, NewestLast, Handled, RacedGrows
    <3>3. u.text = Newest(c, m) \/ Coming(c, m)'
        BY <3>2, EditStillComes
    <3>4. Newest(c, m)' = Newest(c, m)
        BY DEF Handled, Newest
    <3>5. CASE Coming(c, m)'
        BY <3>1, <3>4, <3>5 DEF Coming, EditComes
    <3> QED BY <3>1, <3>3, <3>5
  <2> QED BY <1>3, <2>1 DEF Remembers
<1> QED BY <1>1, <1>2, <1>3 DEF Handled

LEMMA StepRemembers ==
  ASSUME ArchiveTypes, OrderInv, Next, NEW c \in Chats, NEW m \in Ids, Stored(c, m)
  PROVE  Remembers(c, m)
<1>1. CASE archive' = archive
    BY <1>1, SameRowRemembers
<1>2. ASSUME NEW u \in updates,
             \/ HearMessage(u) \/ HandleMessage(u) \/ HearEdit(u) \/ HandleEdit(u) \/ HandleDelete(u)
      PROVE  Remembers(c, m)
    BY <1>2, Handling, HandledRemembers
<1>5. CASE Save \/ Finish
  <2>1. Inserted
      BY <1>5, SaveEffect, FinishEffect
  <2>2. archive'[c][m] = archive[c][m]
      BY <2>1 DEF Inserted
  <2> QED BY <2>2, SameRowRemembers
<1>6. ASSUME NEW d \in Chats, Post(d) \/ \E n \in DOMAIN telegram[d] : EditText(d, n) \/ Delete(d, n)
      PROVE  archive' = archive
    BY <1>6 DEF Post, EditText, Delete
<1>7. ASSUME NEW d \in Chats, NEW all \in BOOLEAN, Start(d, all) PROVE archive' = archive
    BY <1>7 DEF Start
<1>8. ASSUME NEW picked \in SUBSET Chats, Select(picked) PROVE archive' = archive
    BY <1>8 DEF Select
<1>9. SyncChats \/ Read \/ Fail => archive' = archive
    BY DEF SyncChats, Read, Fail
<1> QED BY <1>1, <1>2, <1>5, <1>6, <1>7, <1>8, <1>9 DEF Next

LEMMA OrderAlways == Spec => [](ArchiveTypes /\ OrderInv)
<1>1. Init => ArchiveTypes /\ OrderInv
    BY TypesInit, OrderInit
<1>2. ArchiveTypes /\ OrderInv /\ [Next]_vars => (ArchiveTypes /\ OrderInv)'
    BY TypesNext, OrderNext
<1> QED BY <1>1, <1>2, PTL DEF Spec

\* The archive never forgets a text or a tombstone, however handlers and batches
\* interleave; it goes back to an older text only while the edit with the newer one is on
\* its way, unless an edit of the message was lost or handled before an older one:
\* _insert_message_batch and _handle_message leave stored messages alone, _handle_edit
\* keeps what it replaces.
THEOREM TheArchiveRemembers == Spec => NothingForgotten
<1>1. ArchiveTypes /\ OrderInv /\ [Next]_vars =>
        [\A c \in Chats, m \in Ids : Stored(c, m) =>
          /\ archive[c][m].old \cup {archive[c][m].text} \subseteq
               archive'[c][m].old \cup {archive'[c][m].text}
          /\ archive[c][m].gone => archive'[c][m].gone
          /\ \/ archive'[c][m].text >= archive[c][m].text
             \/ EditComes(updates', c, m, archive[c][m].text)
             \/ <<c, m>> \in raced']_vars
    BY StepRemembers DEF Remembers
<1> QED BY <1>1, OrderAlways, PTL DEF Spec, NothingForgotten

-----------------------------------------------------------------------------
(* Known chats.                                                                *)

LEMMA KnownInit == ASSUME Init PROVE KnownInv
    BY DEF Init, KnownInv, Unknown, Stored

\* Chats stay known and rows appear only in known chats.
LEMMA KnownStep ==
  ASSUME KnownInv, \A c \in Chats : chat[c].known => chat'[c].known,
         \A c \in Chats : chat'[c].on => chat'[c].known,
         run' # NoRun => run'.chat \in Chats /\ chat[run'.chat].known,
         \A c \in Chats, m \in Ids : archive'[c][m] = archive[c][m] \/ Stored(c, m) \/ chat'[c].known
  PROVE  KnownInv'
    BY DEF KnownInv, Stored

LEMMA KnownNext == ASSUME ArchiveTypes, KnownInv, [Next]_vars PROVE KnownInv'
<1>0. /\ \A c \in Chats : chat[c].on => chat[c].known
      /\ run # NoRun => chat[run.chat].known /\ run.chat \in Chats
    BY RunTypes DEF KnownInv, ArchiveTypes
<1>1. CASE UNCHANGED <<archive, chat, run>>
    BY <1>0, <1>1, KnownStep
<1>2. ASSUME NEW u \in updates,
             \/ HearMessage(u) \/ HandleMessage(u) \/ HearEdit(u) \/ HandleEdit(u) \/ HandleDelete(u)
      PROVE  KnownInv'
  <2>1. Handled(u)
      BY <1>2, Handling
  <2>2. \A c \in Chats : WithRow(c).known
      BY WithRowType, ArchiveAssumption DEF ArchiveTypes
  <2>3. \A c \in Chats : chat'[c] = chat[c] \/ chat'[c].known
      BY <2>1, <2>2 DEF Handled
  <2>4. ASSUME NEW c \in Chats, NEW m \in Ids
        PROVE  archive'[c][m] = archive[c][m] \/ Stored(c, m) \/ chat'[c].known
    <3>1. u.kind \in {"new", "edit", "delete"}
        BY UpdateTypes
    <3>2. \/ archive'[c][m] = archive[c][m] \/ Stored(c, m)
          \/ u.kind # "delete" /\ u.kind # "edit" /\ (u.kind = "new" => chat'[c] = WithRow(c))
        BY <2>1 DEF Handled
    <3> QED BY <2>2, <3>1, <3>2
  <2>5. run' = run
      BY <2>1 DEF Handled
  <2> QED BY <1>0, <2>3, <2>4, <2>5, KnownStep
<1>4. CASE SyncChats
  <2>1. (\A c \in Chats : chat'[c].known) /\ UNCHANGED <<archive, run>>
      BY <1>4, SyncChatsEffect
  <2> QED BY <1>0, <2>1, KnownStep
<1>5. ASSUME NEW c \in Chats, NEW all \in BOOLEAN, Start(c, all) PROVE KnownInv'
  <2>1. chat[c].on /\ run'.chat = c /\ UNCHANGED <<archive, chat>>
      BY <1>5, StartEffect
  <2> QED BY <1>0, <2>1, KnownStep
<1>6. CASE Read
  <2>1. run \in Running /\ run'.chat = run.chat /\ UNCHANGED <<archive, chat>>
      BY <1>6, ReadEffect
  <2>2. run # NoRun
      BY <2>1, NoRunIsNone
  <2> QED BY <1>0, <2>1, <2>2, KnownStep
<1>7. CASE Save \/ Finish
  <2>1. /\ run \in Running /\ run.chat \in Chats /\ Inserted
        /\ \A d \in Chats : (chat'[d].on <=> chat[d].on) /\ (chat'[d].known <=> chat[d].known)
        /\ run' # NoRun => run'.chat = run.chat
      BY <1>7, SaveEffect, FinishEffect
  <2>2. run # NoRun
      BY <2>1, NoRunIsNone
  <2>3. \A c \in Chats, m \in Ids : archive'[c][m] = archive[c][m] \/ c = run.chat
      BY <2>1 DEF Inserted
  <2> QED BY <1>0, <2>1, <2>2, <2>3, KnownStep
<1>8. CASE Fail
    BY <1>0, <1>8, KnownStep DEF Fail
<1>9. ASSUME NEW picked \in SUBSET Chats, Select(picked) PROVE KnownInv'
  <2>1. /\ \A c \in Chats : (chat'[c].known <=> chat[c].known) /\ (chat'[c].on => chat[c].known)
        /\ UNCHANGED <<archive, run>>
      BY <1>9, SelectEffect
  <2> QED BY <1>0, <2>1, KnownStep
<1>10. ASSUME NEW c \in Chats, Post(c) \/ \E m \in DOMAIN telegram[c] : EditText(c, m) \/ Delete(c, m)
       PROVE  UNCHANGED <<archive, chat, run>>
    BY <1>10 DEF Post, EditText, Delete
<1> QED BY <1>1, <1>2, <1>4, <1>5, <1>6, <1>7, <1>8, <1>9, <1>10 DEF Next, vars

-----------------------------------------------------------------------------
(* Complete histories.                                                         *)

LEMMA UndisturbedBefore ==
  ASSUME ArchiveTypes, LeftFalls, Undisturbed'
  PROVE  Undisturbed /\ ~Overlapped /\ ~(left'["miss"] < left["miss"])
<1>1. {"miss", "overlap"} \in SUBSET Events
    BY DEF Events
<1>2. Unused({"miss", "overlap"})'
    BY DEF Undisturbed
<1>3. /\ Unused({"miss", "overlap"})
      /\ \A e \in {"miss", "overlap"} : left'[e] = left[e] /\ left[e] \in Nat
    BY <1>1, <1>2, UnusedBefore
<1> QED BY <1>3 DEF Undisturbed, Overlapped

LEMMA MessagesAreIds == ASSUME ArchiveTypes, NEW c \in Chats PROVE 1 .. Len(telegram[c]) \subseteq Ids
<1>1. Len(telegram[c]) \in Nat /\ Len(telegram[c]) <= Top /\ Top \in Nat
    BY LetterTypes, ArchiveAssumption DEF ArchiveTypes, ArchiveAssumption
<1> QED BY <1>1 DEF Ids

LEMMA SafeSays ==
  ASSUME NEW u, Says(u), NEW c \in Chats, NEW m \in 1 .. Len(telegram[c]), Safe(c, m)
  PROVE  Safe(c, m)'
    BY DEF Says, Told, Safe, Announced, Stored, Indexed

LEMMA NewIsSafe ==
  ASSUME NEW u, Says(u), ~(left'["miss"] < left["miss"]),
         NEW c \in Chats, NEW m \in 1 .. Len(telegram'[c]), m \notin 1 .. Len(telegram[c])
  PROVE  Safe(c, m)'
    BY DEF Says, Told, Safe, Announced

\* A message that the listener has done with is stored, or its chat is off.
LEMMA SafeHandled ==
  ASSUME ArchiveTypes, KnownInv, NEW u \in updates, Handled(u),
         NEW c \in Chats, NEW m \in 1 .. Len(telegram[c]), chat[c].on, Safe(c, m)
  PROVE  Safe(c, m)'
<1>1. m \in Ids /\ \A r \in StoredRow : r # NoRow
    BY MessagesAreIds, NoRowType
<1>2. Stored(c, m) => Stored(c, m)'
    BY <1>1, StoredStays
<1>3. (telegram[c][m].gone \/ ~Indexed(m)) => (telegram[c][m].gone \/ ~Indexed(m))'
    BY DEF Handled, Indexed
<1>4. CASE Announced(c, m)
  <2>1. PICK v \in updates : v.chat = c /\ v.id = m /\ v.kind = "new"
      BY <1>4 DEF Announced
  <2>2. CASE v # u
    <3>1. v \in updates'
        BY <2>2 DEF Handled, Waiting, Finished
    <3> QED BY <2>1, <3>1 DEF Safe, Announced
  <2>3. CASE v = u /\ Waiting(u)
      BY <2>1, <2>3 DEF Waiting, Like, Safe, Announced
  <2>4. CASE v = u /\ ~Waiting(u)
    <3>1. WithRow(c).on
        BY DEF KnownInv, WithRow
    <3>2. ~Indexed(m) \/ Stored(c, m) \/ archive'[c][m] \in StoredRow
        BY <2>1, <2>4, <3>1 DEF Handled
    <3> QED BY <1>1, <1>2, <1>3, <3>2 DEF Safe, Stored
  <2> QED BY <2>2, <2>3, <2>4
<1> QED BY <1>2, <1>3, <1>4 DEF Safe

LEMMA SafeKept ==
  ASSUME UNCHANGED <<account, telegram, updates>>, NEW c, NEW m, Safe(c, m),
         Stored(c, m) => Stored(c, m)'
  PROVE  Safe(c, m)'
    BY DEF Safe, Announced, Indexed

\* What the run holds becomes stored, and stored messages stay.
LEMMA InsertedIsStored ==
  ASSUME ArchiveTypes, run # NoRun, Inserted, NEW m \in Ids
  PROVE  /\ \A c \in Chats : Stored(c, m) => Stored(c, m)'
         /\ \A c \in Chats : c = run.chat /\ Held(m) => Stored(c, m)'
<1>1. run.chat \in Chats
    BY RunTypes DEF ArchiveTypes
<1>2. \A r \in StoredRow : r # NoRow
    BY NoRowType
<1> QED BY <1>1, <1>2 DEF Inserted, Stored

LEMMA HistoryInit == ASSUME Init PROVE HistoryInv
    BY DEF Init, HistoryInv, Covered, RunCovers, Unknown

LEMMA HistorySays ==
  ASSUME ArchiveTypes, HistoryInv, NEW u, Says(u)
  PROVE  HistoryInv'
<1> SUFFICES ASSUME Undisturbed' PROVE Covered' /\ RunCovers'
    BY DEF HistoryInv
<1>1. LeftFalls /\ UNCHANGED <<chat, run, archive, account>>
    BY DEF Says
<1>2. Undisturbed /\ ~(left'["miss"] < left["miss"])
    BY <1>1, UndisturbedBefore
<1>3. Covered /\ RunCovers
    BY <1>2 DEF HistoryInv
<1>4. ASSUME NEW c \in Chats, NEW m \in 1 .. Len(telegram'[c])
      PROVE  Safe(c, m)' \/ (m \in 1 .. Len(telegram[c]) /\ ~Safe(c, m))
    BY <1>2, <1>4, SafeSays, NewIsSafe
<1>5. Covered'
    BY <1>1, <1>3, <1>4 DEF Covered
<1>6. ASSUME run # NoRun
      PROVE  run.chat \in Chats
    BY <1>6, RunTypes DEF ArchiveTypes
<1>7. RunCovers'
    BY <1>1, <1>3, <1>4, <1>6 DEF RunCovers, Held
<1> QED BY <1>5, <1>7

\* Steps that leave the chats alone and keep what is safe.
LEMMA HistorySame ==
  ASSUME ArchiveTypes, HistoryInv, LeftFalls, telegram' = telegram, run' = NoRun \/ run' = run,
         \A c \in Chats : chat[c].on /\ chat'[c].on =>
           (chat'[c].synced <=> chat[c].synced) /\ chat'[c].cursor = chat[c].cursor,
         Undisturbed' => \A c \in Chats :
           ~chat[c].on /\ chat'[c].on => ~chat'[c].synced /\ chat'[c].cursor = 0,
         Undisturbed' /\ run' # NoRun => chat'[run.chat].on,
         \A c \in Chats : \A m \in 1 .. Len(telegram[c]) :
           chat[c].on /\ chat'[c].on /\ Safe(c, m) => Safe(c, m)'
  PROVE  HistoryInv'
<1> SUFFICES ASSUME Undisturbed' PROVE Covered' /\ RunCovers'
    BY DEF HistoryInv
<1>1. Covered /\ RunCovers
    BY UndisturbedBefore DEF HistoryInv
<1>2. Covered'
    BY <1>1 DEF Covered
<1>3. ASSUME run # NoRun
      PROVE  run.chat \in Chats
    BY <1>3, RunTypes DEF ArchiveTypes
<1>4. RunCovers'
    BY <1>1, <1>3 DEF RunCovers, Held
<1> QED BY <1>2, <1>4

LEMMA HistoryHandled ==
  ASSUME ArchiveTypes, KnownInv, HistoryInv, NEW u \in updates, Handled(u)
  PROVE  HistoryInv'
<1>1. UNCHANGED <<account, telegram, run, left>>
    BY DEF Handled
<1>2. \A c \in Chats :
        /\ chat[c].known => WithRow(c) = chat[c]
        /\ ~chat[c].known => ~WithRow(c).synced /\ WithRow(c).cursor = 0
    BY WithRowType, ArchiveAssumption DEF ArchiveTypes
<1>3. \A c \in Chats : chat[c].on => chat'[c] = chat[c]
    BY <1>2 DEF KnownInv, Handled
<1>4. \A c \in Chats : ~chat[c].on /\ chat'[c].on => ~chat'[c].synced /\ chat'[c].cursor = 0
    BY <1>2 DEF Handled
<1>5. \A c \in Chats : \A m \in 1 .. Len(telegram[c]) : chat[c].on /\ Safe(c, m) => Safe(c, m)'
    BY SafeHandled
<1>6. ASSUME Undisturbed', run' # NoRun PROVE chat'[run.chat].on
  <2>1. Undisturbed /\ run # NoRun
      BY <1>1, <1>6 DEF Undisturbed, Unused
  <2>2. chat[run.chat].on /\ run.chat \in Chats
      BY <2>1, RunTypes DEF HistoryInv, RunCovers, ArchiveTypes
  <2> QED BY <1>3, <2>2
<1>7. LeftFalls
    BY <1>1, NothingSpent DEF ArchiveTypes
<1> QED BY <1>1, <1>3, <1>4, <1>5, <1>6, <1>7, HistorySame

\* What a refresh of the dialogs and a selection do to the chats.
Reselects ==
  /\ LeftFalls /\ UNCHANGED <<account, telegram, updates, archive, run, raced>>
  /\ \A c \in Chats :
       /\ chat[c].on /\ chat'[c].on =>
            (chat'[c].synced <=> chat[c].synced) /\ chat'[c].cursor = chat[c].cursor
       /\ ~chat[c].on /\ chat'[c].on => (~chat'[c].synced /\ chat'[c].cursor = 0) \/ Overlapped
       /\ Loads(c) => (chat'[c].on <=> chat[c].on) \/ Overlapped

LEMMA SelectionReselects ==
  ASSUME ArchiveTypes, KnownInv, SyncChats \/ \E picked \in SUBSET Chats : Select(picked)
  PROVE  Reselects
<1>1. CASE SyncChats
    BY <1>1, SyncChatsEffect DEF KnownInv, Reselects, Loads
<1>2. ASSUME NEW picked \in SUBSET Chats, Select(picked)
      PROVE  Reselects
    BY <1>2, SelectEffect DEF Reselects
<1> QED BY <1>1, <1>2

LEMMA HistorySelection ==
  ASSUME ArchiveTypes, HistoryInv, Reselects
  PROVE  HistoryInv'
<1>1. Undisturbed' => Undisturbed /\ ~Overlapped
    BY UndisturbedBefore DEF Reselects
<1>2. \A c \in Chats : \A m \in 1 .. Len(telegram[c]) : Safe(c, m) => Safe(c, m)'
    BY SafeKept DEF Reselects, Stored
<1>3. ASSUME Undisturbed', run # NoRun PROVE chat'[run.chat].on
  <2>1. run.chat \in Chats /\ chat[run.chat].on
      BY <1>1, <1>3, RunTypes DEF HistoryInv, RunCovers, ArchiveTypes
  <2>2. Loads(run.chat)
      BY <1>3 DEF Loads
  <2> QED BY <1>1, <1>3, <2>1, <2>2 DEF Reselects
<1> QED BY <1>1, <1>2, <1>3, HistorySame DEF Reselects

LEMMA HistoryRunEnds ==
  ASSUME ArchiveTypes, HistoryInv, LeftFalls, UNCHANGED <<account, telegram, updates, archive, chat>>,
         run' = NoRun \/ run' = run
  PROVE  HistoryInv'
<1>1. \A c \in Chats : \A m \in 1 .. Len(telegram[c]) : Safe(c, m) => Safe(c, m)'
    BY SafeKept DEF Stored
<1>2. Undisturbed' => Undisturbed
    BY UndisturbedBefore
<1>3. Undisturbed' /\ run' # NoRun => chat'[run.chat].on
    BY <1>2 DEF HistoryInv, RunCovers
<1> QED BY <1>1, <1>3, HistorySame

LEMMA HistoryStart ==
  ASSUME ArchiveTypes, HistoryInv, NEW c \in Chats, NEW all \in BOOLEAN, Start(c, all)
  PROVE  HistoryInv'
<1> SUFFICES ASSUME Undisturbed' PROVE Covered' /\ RunCovers'
    BY DEF HistoryInv
<1>1. /\ chat[c].on /\ LeftFalls /\ run' \in Running /\ run'.chat = c /\ (run'.all <=> all)
      /\ run'.batch = {} /\ (run'.synced <=> chat[c].synced) /\ run'.next = First(c, all)
      /\ UNCHANGED <<account, telegram, updates, archive, chat>>
    BY StartEffect
<1>2. Covered
    BY <1>1, UndisturbedBefore DEF HistoryInv
<1>3. \A d \in Chats : \A m \in 1 .. Len(telegram[d]) : Safe(d, m) => Safe(d, m)'
    BY <1>1, SafeKept DEF Stored
<1>4. Covered'
    BY <1>1, <1>2, <1>3 DEF Covered
<1>5. ASSUME all, NEW m \in 1 .. Len(telegram[c]), m >= First(c, all)
      PROVE  Safe(c, m)'
  <2>1. Len(telegram[c]) \in Nat
      BY LetterTypes DEF ArchiveTypes
  <2>2. ~chat[c].synced /\ chat[c].cursor # 0 /\ First(c, all) = chat[c].cursor
      BY <1>5, <2>1 DEF First
  <2>3. m >= chat[c].cursor => Safe(c, m)
      BY <1>1, <1>2, <2>2 DEF Covered
  <2> QED BY <1>3, <1>5, <2>2, <2>3
<1>6. RunCovers'
    BY <1>1, <1>5 DEF RunCovers
<1> QED BY <1>4, <1>6

\* The run goes through every message of its way that is to be indexed.
LEMMA WantedOfAll ==
  ASSUME ArchiveTypes, run # NoRun, run.all
  PROVE  Wanted = {m \in 1 .. Len(telegram[run.chat]) :
                     m < run.next /\ ~telegram[run.chat][m].gone /\ Indexed(m)}
<1>1. run.chat \in Chats /\ run.next \in Nat \ {0} /\ telegram \in [Chats -> Seq(Letter)]
    BY RunTypes, ArchiveAssumption DEF ArchiveTypes, ArchiveAssumption
<1> QED BY <1>1, BelowIs DEF Wanted

LEMMA HistoryRead ==
  ASSUME ArchiveTypes, HistoryInv, Read
  PROVE  HistoryInv'
<1> SUFFICES ASSUME Undisturbed' PROVE Covered' /\ RunCovers'
    BY DEF HistoryInv
<1>0. PICK c \in Chats : c = run.chat
    BY ReadEffect
<1>1. /\ run \in Running /\ run' \in Running /\ c = run.chat
      /\ run'.chat = c /\ (run'.all <=> run.all) /\ (run'.synced <=> run.synced)
      /\ UNCHANGED <<account, telegram, updates, archive, chat, left>>
      /\ \E m \in 1 .. Len(telegram[c]) :
           /\ m \in Wanted /\ (\A y \in Wanted : m >= y) /\ m < run.next
           /\ run'.next = m /\ run'.seen = m
           /\ run'.batch = run.batch \cup {<<m, telegram[c][m].text>>}
    BY <1>0, ReadEffect
<1>2. PICK m \in 1 .. Len(telegram[c]) :
           /\ m \in Wanted /\ (\A y \in Wanted : m >= y) /\ m < run.next
           /\ run'.next = m /\ run'.seen = m
           /\ run'.batch = run.batch \cup {<<m, telegram[c][m].text>>}
    BY <1>1
<1>3. Covered /\ RunCovers /\ run # NoRun
    BY <1>1, NoRunIsNone DEF HistoryInv, Undisturbed, Unused
<1>4. \A d \in Chats : \A n \in 1 .. Len(telegram[d]) : Safe(d, n) => Safe(d, n)'
    BY <1>1, SafeKept DEF Stored
<1>5. Covered'
    BY <1>1, <1>3, <1>4 DEF Covered
<1>6. \A n \in Ids : Held(n) => Held(n)'
    BY <1>2 DEF Held
<1>7. ASSUME run.all, NEW n \in 1 .. Len(telegram[c]), n >= m
      PROVE  Safe(c, n)' \/ Held(n)'
  <2>1. Len(telegram[c]) \in Nat /\ telegram[c][m].text \in Versions /\ n \in Ids /\ run.next \in Nat
    <3>1. telegram \in [Chats -> Seq(Letter)] /\ run.next \in 1 .. Top + 1 /\ Top \in Nat
        BY <1>1, ArchiveAssumption DEF ArchiveTypes, Running, ArchiveAssumption
    <3> QED BY <3>1, LetterTypes, MessagesAreIds
  <2>2. CASE n >= run.next
      BY <1>1, <1>3, <1>4, <1>6, <1>7, <2>1, <2>2 DEF RunCovers
  <2>3. CASE n = m
    <3>1. <<n, telegram[c][m].text>> \in run'.batch
        BY <1>2, <2>3
    <3> QED BY <2>1, <3>1 DEF Held
  <2>4. CASE m < n /\ n < run.next
    <3>1. n \notin Wanted
        BY <1>2, <1>7, <2>4
    <3>2. telegram[c][n].gone \/ ~Indexed(n)
        BY <1>0, <1>3, <1>7, <2>4, <3>1, WantedOfAll
    <3> QED BY <1>1, <1>4, <3>2 DEF Safe
  <2> QED BY <1>7, <2>1, <2>2, <2>3, <2>4
<1>8. /\ chat'[c].on /\ (run'.synced <=> chat'[c].synced) /\ run'.seen = run'.next
      /\ run.all => \A n \in 1 .. Len(telegram[c]) : n >= m => Safe(c, n)' \/ Held(n)'
    BY <1>1, <1>2, <1>3, <1>7 DEF RunCovers
<1>9. RunCovers'
    BY <1>1, <1>2, <1>8 DEF RunCovers
<1> QED BY <1>5, <1>9

LEMMA HistorySave ==
  ASSUME ArchiveTypes, HistoryInv, Save
  PROVE  HistoryInv'
<1> SUFFICES ASSUME Undisturbed' PROVE Covered' /\ RunCovers'
    BY DEF HistoryInv
<1>0. PICK c \in Chats : c = run.chat
    BY SaveEffect
<1>1. /\ run \in Running /\ run.batch # {} /\ Inserted
      /\ \A d \in Chats : /\ d # c => chat'[d] = chat[d]
                          /\ chat'[d].on <=> chat[d].on
                          /\ chat'[d].synced <=> chat[d].synced
      /\ chat'[c].cursor = IF run.all /\ ~run.synced THEN run.seen ELSE chat[c].cursor
      /\ \/ run' = NoRun
         \/ /\ run' \in Running /\ run'.chat = c /\ (run'.all <=> run.all) /\ run'.batch = {}
            /\ run'.next = run.next /\ (run'.synced <=> chat[c].synced)
      /\ UNCHANGED <<account, telegram, updates, left>>
    BY <1>0, SaveEffect
<1>2. run # NoRun
    BY <1>1, NoRunIsNone
<1>3. Covered /\ RunCovers
    BY <1>1 DEF HistoryInv, Undisturbed, Unused
<1>4. ASSUME NEW d \in Chats, NEW n \in 1 .. Len(telegram[d]), Safe(d, n) \/ (d = c /\ Held(n))
      PROVE  Safe(d, n)'
  <2>1. n \in Ids
      BY MessagesAreIds
  <2>2. (Stored(d, n) => Stored(d, n)') /\ (d = c /\ Held(n) => Stored(d, n)')
      BY <1>0, <1>1, <1>2, <2>1, InsertedIsStored
  <2>3. CASE Safe(d, n)
      BY <1>1, <2>2, <2>3, SafeKept
  <2>4. CASE d = c /\ Held(n)
      BY <2>2, <2>4 DEF Safe
  <2> QED BY <1>4, <2>3, <2>4
<1>5. run.all => \A n \in 1 .. Len(telegram[c]) : n >= run.next => Safe(c, n)'
    BY <1>0, <1>1, <1>2, <1>3, <1>4 DEF RunCovers
<1>6. chat[c].on /\ (run.synced <=> chat[c].synced) /\ run.seen = run.next
    BY <1>0, <1>1, <1>2, <1>3 DEF RunCovers
<1>7. Covered'
  <2> SUFFICES ASSUME NEW d \in Chats, chat[d].on
               PROVE  /\ chat'[d].synced => \A n \in 1 .. Len(telegram[d]) : Safe(d, n)'
                      /\ ~chat'[d].synced /\ chat'[d].cursor # 0 =>
                           \A n \in 1 .. Len(telegram[d]) : n >= chat'[d].cursor => Safe(d, n)'
      BY <1>1 DEF Covered
  <2>1. CASE d # c
      BY <1>1, <1>3, <1>4, <2>1 DEF Covered
  <2>2. CASE d = c /\ (chat[c].synced \/ ~run.all)
      BY <1>1, <1>3, <1>4, <2>2 DEF Covered
  <2>3. CASE d = c /\ ~chat[c].synced /\ run.all
      BY <1>1, <1>5, <1>6, <2>3
  <2> QED BY <2>1, <2>2, <2>3
<1>8. RunCovers'
    BY <1>1, <1>5, <1>6 DEF RunCovers
<1> QED BY <1>7, <1>8

LEMMA HistoryFinish ==
  ASSUME ArchiveTypes, HistoryInv, Finish
  PROVE  HistoryInv'
<1> SUFFICES ASSUME Undisturbed' PROVE Covered' /\ RunCovers'
    BY DEF HistoryInv
<1>0. PICK c \in Chats : c = run.chat
    BY FinishEffect
<1>1. /\ run \in Running /\ Inserted /\ run' = NoRun /\ Wanted = {}
      /\ \A d \in Chats : /\ d # c \/ ~run.all => chat'[d] = chat[d]
                          /\ chat'[d].on <=> chat[d].on
      /\ UNCHANGED <<account, telegram, updates, left>>
    BY <1>0, FinishEffect
<1>2. run # NoRun
    BY <1>1, NoRunIsNone
<1>3. Covered /\ RunCovers
    BY <1>1 DEF HistoryInv, Undisturbed, Unused
<1>4. ASSUME NEW d \in Chats, NEW n \in 1 .. Len(telegram[d]), Safe(d, n) \/ (d = c /\ Held(n))
      PROVE  Safe(d, n)'
  <2>1. n \in Ids
      BY MessagesAreIds
  <2>2. (Stored(d, n) => Stored(d, n)') /\ (d = c /\ Held(n) => Stored(d, n)')
      BY <1>0, <1>1, <1>2, <2>1, InsertedIsStored
  <2>3. CASE Safe(d, n)
      BY <1>1, <2>2, <2>3, SafeKept
  <2>4. CASE d = c /\ Held(n)
      BY <2>2, <2>4 DEF Safe
  <2> QED BY <1>4, <2>3, <2>4
<1>5. ASSUME run.all, NEW n \in 1 .. Len(telegram[c])
      PROVE  Safe(c, n)'
  <2>1. CASE n >= run.next
      BY <1>0, <1>2, <1>3, <1>4, <1>5, <2>1 DEF RunCovers
  <2>2. CASE n < run.next
    <3>1. telegram[c][n].gone \/ ~Indexed(n)
        BY <1>0, <1>1, <1>2, <1>5, <2>2, WantedOfAll
    <3> QED BY <1>4, <3>1 DEF Safe
  <2>3. n \in Int /\ run.next \in Int
    <3>1. Len(telegram[c]) \in Nat /\ run.next \in 1 .. Top + 1 /\ Top \in Nat
        BY <1>1, LetterTypes, ArchiveAssumption DEF Running, ArchiveTypes, ArchiveAssumption
    <3> QED BY <3>1
  <2> QED BY <2>1, <2>2, <2>3
<1>6. Covered'
  <2> SUFFICES ASSUME NEW d \in Chats, chat[d].on
               PROVE  /\ chat'[d].synced => \A n \in 1 .. Len(telegram[d]) : Safe(d, n)'
                      /\ ~chat'[d].synced /\ chat'[d].cursor # 0 =>
                           \A n \in 1 .. Len(telegram[d]) : n >= chat'[d].cursor => Safe(d, n)'
      BY <1>1 DEF Covered
  <2>1. CASE d # c \/ ~run.all
      BY <1>1, <1>3, <1>4, <2>1 DEF Covered
  <2>2. CASE d = c /\ run.all
      BY <1>5, <2>2
  <2>3. run.all \in BOOLEAN
      BY <1>1 DEF Running
  <2> QED BY <2>1, <2>2, <2>3
<1>7. RunCovers'
    BY <1>1 DEF RunCovers
<1> QED BY <1>6, <1>7

LEMMA HistoryNext == ASSUME ArchiveTypes, KnownInv, HistoryInv, [Next]_vars PROVE HistoryInv'
<1>0. telegram \in [Chats -> Seq(Letter)] /\ left \in [Events \cup {"all"} -> Nat]
    BY DEF ArchiveTypes
<1>1. ASSUME NEW c \in Chats, Post(c) PROVE HistoryInv'
    BY <1>1, PostSays, HistorySays
<1>2. ASSUME NEW c \in Chats, NEW m \in DOMAIN telegram[c], EditText(c, m) \/ Delete(c, m)
      PROVE  HistoryInv'
  <2>1. m \in 1 .. Len(telegram[c])
      BY <1>0, LetterTypes
  <2>2. \E u : Says(u)
      BY <1>2, <2>1, EditSays, DeleteSays
  <2> QED BY <2>2, HistorySays
<1>3. ASSUME NEW u \in updates,
             \/ HearMessage(u) \/ HandleMessage(u) \/ HearEdit(u) \/ HandleEdit(u) \/ HandleDelete(u)
      PROVE  HistoryInv'
    BY <1>3, Handling, HistoryHandled
<1>4. CASE SyncChats \/ \E picked \in SUBSET Chats : Select(picked)
    BY <1>4, SelectionReselects, HistorySelection
<1>5. ASSUME NEW c \in Chats, NEW all \in BOOLEAN, Start(c, all) PROVE HistoryInv'
    BY <1>5, HistoryStart
<1>6. CASE Read \/ Save \/ Finish
    BY <1>6, HistoryRead, HistorySave, HistoryFinish
<1>7. CASE Fail
  <2>1. LeftFalls
      BY <1>0, <1>7, Spending DEF Fail, Events
  <2> QED BY <1>7, <2>1, HistoryRunEnds DEF Fail
<1>8. CASE UNCHANGED vars
    BY <1>0, <1>8, NothingSpent, HistoryRunEnds DEF vars
<1> QED BY <1>1, <1>2, <1>3, <1>4, <1>5, <1>6, <1>7, <1>8 DEF Next

LEMMA HistoryAlways == Spec => [](ArchiveTypes /\ KnownInv /\ HistoryInv)
<1>1. Init => ArchiveTypes /\ KnownInv /\ HistoryInv
    BY TypesInit, KnownInit, HistoryInit
<1>2. ArchiveTypes /\ KnownInv /\ HistoryInv /\ [Next]_vars => (ArchiveTypes /\ KnownInv /\ HistoryInv)'
    BY TypesNext, KnownNext, HistoryNext
<1> QED BY <1>1, <1>2, PTL DEF Spec

LEMMA HistoryGivesComplete == ASSUME ArchiveTypes, HistoryInv PROVE CompleteWhenSynced
<1> SUFFICES ASSUME Undisturbed, NEW c \in Chats, chat[c].on /\ chat[c].synced, NEW m \in DOMAIN telegram[c]
             PROVE  telegram[c][m].gone \/ ~Indexed(m) \/ Stored(c, m)
                      \/ \E u \in updates : u.chat = c /\ u.id = m /\ u.kind = "new"
    BY DEF CompleteWhenSynced, Complete, Undisturbed
<1>1. DOMAIN telegram[c] = 1 .. Len(telegram[c])
    BY LetterTypes DEF ArchiveTypes
<1>2. Safe(c, m)
    BY <1>1 DEF HistoryInv, Covered
<1> QED BY <1>1, <1>2 DEF Safe, Announced

\* A history that counts as complete has no hole, however runs of sync_messages are
\* interrupted, resumed below their cursor, limited and repeated and chats reselected:
\* every message from the cursor or the run's position on is stored, held or announced.
THEOREM SyncedHistoriesAreComplete == Spec => []CompleteWhenSynced
    BY HistoryAlways, HistoryGivesComplete, PTL

-----------------------------------------------------------------------------
(* Fresh texts.                                                                *)

LEMMA FreshInit == ASSUME Init PROVE FreshInv
<1>1. run = NoRun /\ \A c \in Chats, m \in Ids : ~Stored(c, m)
    BY DEF Init, Stored
<1> QED BY <1>1 DEF FreshInv, Current, BatchCurrent

\* A message that a batch holds.
LEMMA HeldLetter ==
  ASSUME ArchiveTypes, OrderInv, run # NoRun, NEW p \in run.batch
  PROVE  /\ run.chat \in Chats /\ p[1] \in Ids /\ p[2] \in Versions /\ p[2] \in Nat
         /\ p = <<p[1], p[2]>> /\ p[1] \in 1 .. Len(telegram[run.chat])
         /\ Newest(run.chat, p[1]) \in Nat /\ p[2] <= Newest(run.chat, p[1])
<1>1. run.chat \in Chats /\ p \in Ids \X Versions
    BY RunTypes DEF ArchiveTypes
<1>2. p[1] <= Len(telegram[run.chat]) /\ p[2] <= Newest(run.chat, p[1])
    BY DEF OrderInv, BatchIsBehind
<1>3. telegram \in [Chats -> Seq(Letter)]
    BY DEF ArchiveTypes
<1>4. Len(telegram[run.chat]) \in Nat /\ p[1] \in Nat \ {0} /\ p[2] \in Nat
    BY <1>1, <1>3, LetterTypes, TextsAreNumbers
<1>5. p[1] \in 1 .. Len(telegram[run.chat])
    BY <1>2, <1>4
<1> QED BY <1>1, <1>2, <1>3, <1>4, <1>5, LetterTypes DEF Newest

LEMMA StoredLetter ==
  ASSUME ArchiveTypes, OrderInv, NEW c \in Chats, NEW m \in Ids, Stored(c, m)
  PROVE  /\ m \in 1 .. Len(telegram[c]) /\ archive[c][m].text \in Versions
         /\ archive[c][m].text \in Nat /\ Newest(c, m) \in Nat /\ archive[c][m].text <= Newest(c, m)
<1>1. m <= Len(telegram[c]) /\ archive[c][m].text \in 1 .. Newest(c, m)
    BY DEF OrderInv, StoredIsBehind
<1>2. telegram \in [Chats -> Seq(Letter)] /\ archive[c][m].text \in Versions /\ archive[c][m].text \in Nat
    BY ArchiveRows DEF ArchiveTypes
<1>3. m \in 1 .. Len(telegram[c])
    BY <1>1, <1>2, LetterTypes, TextsAreNumbers
<1> QED BY <1>1, <1>2, <1>3, LetterTypes DEF Newest

\* A new text comes with its edit, or the edit is lost and no older text counts.
LEMMA FreshSays ==
  ASSUME ArchiveTypes, OrderInv, FreshInv, NEW u, Says(u)
  PROVE  FreshInv'
<1>1. UNCHANGED <<archive, run>> /\ raced \subseteq raced'
    BY DEF Says, RacedGrows
<1>2. ASSUME NEW c \in Chats, NEW m \in Ids, Stored(c, m), <<c, m>> \notin raced'
      PROVE  archive[c][m].text = Newest(c, m)' \/ Coming(c, m)'
  <2>1. archive[c][m].text = Newest(c, m) \/ Coming(c, m)
      BY <1>1, <1>2 DEF FreshInv, Current
  <2>2. /\ m \in 1 .. Len(telegram[c]) /\ archive[c][m].text \in Nat
        /\ archive[c][m].text <= Newest(c, m)
      BY <1>2, StoredLetter
  <2>3. c = u.chat /\ m = u.id /\ archive[c][m].text < u.text => Outdated(u)
      BY <1>2 DEF Outdated
  <2> QED BY <1>2, <2>1, <2>2, <2>3, SaysComing
<1>3. ASSUME run # NoRun, NEW p \in run.batch, <<run.chat, p[1]>> \notin raced'
      PROVE  \/ p[2] = Newest(run.chat, p[1])' \/ Coming(run.chat, p[1])'
             \/ Stored(run.chat, p[1])
  <2>1. \/ p[2] = Newest(run.chat, p[1]) \/ Coming(run.chat, p[1])
        \/ Stored(run.chat, p[1])
      BY <1>1, <1>3 DEF FreshInv, BatchCurrent
  <2>2. /\ run.chat \in Chats /\ p[2] \in Versions /\ p[2] \in Nat /\ p = <<p[1], p[2]>>
        /\ p[1] \in 1 .. Len(telegram[run.chat]) /\ p[2] <= Newest(run.chat, p[1])
      BY <1>3, HeldLetter
  <2>3. run.chat = u.chat /\ p[1] = u.id /\ p[2] < u.text => Outdated(u)
      BY <1>3, <2>2 DEF Outdated, Loads
  <2>4. CASE p[2] = Newest(run.chat, p[1]) \/ Coming(run.chat, p[1])
    <3>1. PICK c \in Chats : c = run.chat
        BY <2>2
    <3>4. PICK m \in 1 .. Len(telegram[c]) : m = p[1]
        BY <2>2, <3>1
    <3>2. \/ p[2] = Newest(c, m)' \/ Coming(c, m)'
          \/ u.kind = "edit" /\ c = u.chat /\ m = u.id /\ ~Outdated(u) /\ p[2] < u.text
        BY <1>3, <2>2, <2>4, <3>1, <3>4, SaysComing
    <3>3. Newest(c, m)' = Newest(run.chat, p[1])' /\ (Coming(c, m)' <=> Coming(run.chat, p[1])')
        BY <1>1, <3>1, <3>4 DEF Newest, Coming
    <3> QED BY <2>3, <3>1, <3>2, <3>3, <3>4
  <2> QED BY <2>1, <2>4
<1>4. Current'
    BY <1>1, <1>2 DEF Current, Stored
<1>5. BatchCurrent'
    BY <1>1, <1>3 DEF BatchCurrent, Stored
<1> QED BY <1>4, <1>5 DEF FreshInv

\* A handler stores a text with nothing older behind it, or marks the message.
LEMMA FreshHandled ==
  ASSUME ArchiveTypes, OrderInv, FreshInv, NEW u \in updates, Handled(u)
  PROVE  FreshInv'
<1>1. UNCHANGED <<telegram, run>> /\ raced \subseteq raced'
      /\ (\A c \in Chats, m \in Ids : Stored(c, m) => Stored(c, m)')
      /\ \A c, m : Newest(c, m)' = Newest(c, m)
    BY StoredStays DEF Handled, RacedGrows, Newest
<1>2. u.chat \in Chats /\ u.id \in Ids /\ u.text \in Nat \ {0}
    BY UpdateTypes
\* The edit is done with: what is older was stored or held, or the row has its text.
<1>3. ASSUME ~Waiting(u), u.kind = "edit", <<u.chat, u.id>> \notin raced'
      PROVE  ~Outdated(u) \/ archive'[u.chat][u.id].text = u.text
    BY <1>3 DEF Handled
<1>4. ASSUME NEW c \in Chats, NEW m \in Ids, archive'[c][m] # NoRow, <<c, m>> \notin raced'
      PROVE  archive'[c][m].text = Newest(c, m) \/ Coming(c, m)'
  <2>1. CASE Stored(c, m) /\ archive'[c][m].text = archive[c][m].text
    <3>1. archive[c][m].text = Newest(c, m) \/ Coming(c, m)
        BY <1>1, <1>4, <2>1 DEF FreshInv, Current
    <3>2. CASE ~Waiting(u) /\ u.kind = "edit" /\ u.chat = c /\ u.id = m /\ u.text = Newest(c, m)
      <4>1. archive[c][m].text \in Nat /\ archive[c][m].text <= Newest(c, m)
          BY <2>1, StoredLetter
      <4>2. CASE ~Outdated(u)
          BY <1>2, <2>1, <3>2, <4>1, <4>2 DEF Outdated
      <4> QED BY <1>3, <1>4, <3>2, <4>2
    <3> QED BY <2>1, <3>1, <3>2, EditStillComes
  <2>2. CASE c = u.chat /\ m = u.id /\ u.kind # "delete" /\ archive'[c][m].text = u.text
             /\ (Stored(c, m) <=> u.kind = "edit")
    <3>1. u.text = Newest(c, m) \/ Coming(c, m)
        BY <1>1, <1>4, <2>2, UpdateTypes DEF OrderInv, NewestLast
    <3> QED BY <2>2, <3>1, EditStillComes
  <2> QED BY <1>4, <2>1, <2>2 DEF Handled, Stored
<1>5. ASSUME run # NoRun, NEW p \in run.batch, <<run.chat, p[1]>> \notin raced'
      PROVE  \/ p[2] = Newest(run.chat, p[1]) \/ Coming(run.chat, p[1])'
             \/ Stored(run.chat, p[1])'
  <2>1. /\ run.chat \in Chats /\ p[1] \in Ids /\ p[2] \in Versions /\ p[2] \in Nat
        /\ p = <<p[1], p[2]>> /\ p[2] <= Newest(run.chat, p[1])
      BY <1>5, HeldLetter
  <2>2. \/ p[2] = Newest(run.chat, p[1]) \/ Coming(run.chat, p[1])
        \/ Stored(run.chat, p[1])
      BY <1>1, <1>5 DEF FreshInv, BatchCurrent
  <2>3. CASE ~Waiting(u) /\ u.kind = "edit" /\ u.chat = run.chat /\ u.id = p[1]
             /\ u.text = Newest(run.chat, p[1])
    <3>1. CASE ~Outdated(u)
      <4>1. ~(p[2] < u.text)
          BY <1>5, <2>1, <2>3, <3>1 DEF Outdated, Loads
      <4> QED BY <1>2, <2>1, <2>3, <4>1
    <3>2. CASE archive'[u.chat][u.id].text = u.text
      <4>1. archive'[u.chat][u.id] # NoRow
          BY <1>2, <3>2 DEF NoRow
      <4>2. Stored(u.chat, u.id)'
          BY <4>1 DEF Stored
      <4> QED BY <1>1, <2>3, <4>2 DEF Stored
    <3> QED BY <1>3, <1>5, <2>3, <3>1, <3>2
  <2> QED BY <1>1, <2>1, <2>2, <2>3, EditStillComes
<1>6. Current'
    BY <1>1, <1>4 DEF Current, Stored
<1>7. BatchCurrent'
    BY <1>1, <1>5 DEF BatchCurrent
<1> QED BY <1>6, <1>7 DEF FreshInv

\* The selection, and a run that begins or ends.
LEMMA FreshOthers ==
  ASSUME FreshInv, UNCHANGED <<telegram, updates, archive, raced>>,
         run' = NoRun \/ run' = run \/ run'.batch = {}
  PROVE  FreshInv'
<1>1. Current'
    BY DEF FreshInv, Current, Stored, Coming, Newest
<1>2. BatchCurrent'
    BY DEF FreshInv, BatchCurrent, Stored, Coming, Newest
<1> QED BY <1>1, <1>2 DEF FreshInv

LEMMA FreshRead ==
  ASSUME ArchiveTypes, FreshInv, Read
  PROVE  FreshInv'
<1>0. PICK c \in Chats : c = run.chat
    BY ReadEffect
<1>1. /\ run \in Running /\ run'.chat = c
      /\ UNCHANGED <<telegram, updates, archive, raced>>
      /\ \E m \in 1 .. Len(telegram[c]) :
           run'.batch = run.batch \cup {<<m, telegram[c][m].text>>}
    BY <1>0, ReadEffect
<1>2. Current /\ BatchCurrent /\ run # NoRun
    BY <1>1, NoRunIsNone DEF FreshInv
<1>3. PICK m \in 1 .. Len(telegram[c]) :
        run'.batch = run.batch \cup {<<m, telegram[c][m].text>>}
    BY <1>1
<1>4. \A p \in run'.batch : <<c, p[1]>> \notin raced =>
        p[2] = Newest(c, p[1]) \/ Coming(c, p[1]) \/ Stored(c, p[1])
    BY <1>0, <1>2, <1>3 DEF BatchCurrent, Newest
<1>5. BatchCurrent'
    BY <1>1, <1>4 DEF BatchCurrent, Stored, Coming, Newest
<1>6. Current'
    BY <1>1, <1>2 DEF Current, Stored, Coming, Newest
<1> QED BY <1>5, <1>6 DEF FreshInv

LEMMA FreshInserted ==
  ASSUME ArchiveTypes, FreshInv, Save \/ Finish
  PROVE  FreshInv'
<1>1. /\ run \in Running /\ Inserted /\ (run' = NoRun \/ run'.batch = {})
      /\ UNCHANGED <<telegram, updates, raced>>
    BY SaveEffect, FinishEffect
<1>2. Current /\ BatchCurrent /\ run # NoRun
    BY <1>1, NoRunIsNone DEF FreshInv
<1>3. BatchCurrent'
    BY <1>1 DEF BatchCurrent
<1>4. ASSUME NEW d \in Chats, NEW m \in Ids, archive'[d][m] # NoRow, <<d, m>> \notin raced
      PROVE  archive'[d][m].text = Newest(d, m) \/ Coming(d, m)
  <2>1. CASE archive'[d][m] = archive[d][m]
      BY <1>2, <1>4, <2>1 DEF Current, Stored
  <2>2. CASE d = run.chat /\ ~Stored(d, m) /\ <<m, archive'[d][m].text>> \in run.batch
    <3> DEFINE p == <<m, archive'[d][m].text>>
    <3>1. p \in run.batch /\ p[1] = m /\ p[2] = archive'[d][m].text
        BY <2>2
    <3> HIDE DEF p
    <3> QED BY <1>2, <1>4, <2>2, <3>1 DEF BatchCurrent
  <2> QED BY <1>1, <2>1, <2>2 DEF Inserted
<1>5. Current'
    BY <1>1, <1>4 DEF Current, Stored, Coming, Newest
<1> QED BY <1>3, <1>5 DEF FreshInv

LEMMA FreshNext ==
  ASSUME ArchiveTypes, OrderInv, FreshInv, [Next]_vars
  PROVE  FreshInv'
<1>0. telegram \in [Chats -> Seq(Letter)]
    BY DEF ArchiveTypes
<1>1. ASSUME NEW c \in Chats, Post(c) PROVE FreshInv'
    BY <1>1, PostSays, FreshSays
<1>2. ASSUME NEW c \in Chats, NEW m \in DOMAIN telegram[c], EditText(c, m) \/ Delete(c, m)
      PROVE  FreshInv'
  <2>1. m \in 1 .. Len(telegram[c])
      BY <1>0, LetterTypes
  <2>2. \E u : Says(u)
      BY <1>2, <2>1, EditSays, DeleteSays
  <2> QED BY <2>2, FreshSays
<1>3. ASSUME NEW u \in updates,
             \/ HearMessage(u) \/ HandleMessage(u) \/ HearEdit(u) \/ HandleEdit(u) \/ HandleDelete(u)
      PROVE  FreshInv'
    BY <1>3, Handling, FreshHandled
<1>4. ASSUME NEW picked \in SUBSET Chats, Select(picked) PROVE FreshInv'
    BY <1>4, FreshOthers DEF Select
<1>5. ASSUME NEW c \in Chats, NEW all \in BOOLEAN, Start(c, all) PROVE FreshInv'
  <2>1. run'.batch = {} /\ UNCHANGED <<telegram, updates, archive, raced>>
      BY <1>5, StartEffect
  <2> QED BY <2>1, FreshOthers
<1>6. CASE Read \/ Save \/ Finish
    BY <1>6, FreshRead, FreshInserted
<1>7. CASE Fail \/ SyncChats
    BY <1>7, FreshOthers DEF Fail, SyncChats
<1>8. CASE UNCHANGED vars
    BY <1>8, FreshOthers DEF vars
<1> QED BY <1>1, <1>2, <1>3, <1>4, <1>5, <1>6, <1>7, <1>8 DEF Next

LEMMA FreshAlways == Spec => [](ArchiveTypes /\ OrderInv /\ FreshInv)
<1> DEFINE I == ArchiveTypes /\ OrderInv /\ FreshInv
<1>1. Init => I
    BY TypesInit, OrderInit, FreshInit
<1>2. I /\ [Next]_vars => I'
    BY TypesNext, OrderNext, FreshNext
<1> QED BY <1>1, <1>2, PTL DEF Spec

LEMMA FreshInvGivesFresh == ASSUME ArchiveTypes, OrderInv, FreshInv PROVE Fresh
<1> SUFFICES ASSUME NEW c \in Chats, NEW m \in DOMAIN telegram[c], Stored(c, m),
                    <<c, m>> \notin raced, ~EditComes(updates, c, m, 1)
             PROVE  archive[c][m].text = telegram[c][m].text
    BY DEF Fresh
<1>1. m \in 1 .. Len(telegram[c]) /\ m \in Ids
    BY LetterTypes, MessagesAreIds DEF ArchiveTypes
<1>2. ~Coming(c, m)
    BY UpdateTypes DEF Coming, EditComes
<1> QED BY <1>1, <1>2 DEF FreshInv, Current, Newest

\* However concurrent handlers, runs and selections interleave, a stored text is what
\* Telegram holds once no edit of the message is on its way, unless an edit of it was
\* lost, ignored or handled while an older text was stored, held or on its way: what is
\* older counts only as long as the newest edit is still to be handled.
THEOREM StoredTextsAreFresh == Spec => []Fresh
    BY FreshAlways, FreshInvGivesFresh, PTL
=============================================================================
