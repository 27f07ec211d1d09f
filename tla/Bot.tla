-------------------------------- MODULE Bot --------------------------------
(***************************************************************************)
(* The bot (api/v1/bot_webhook.py and services/agent): Telegram posts the  *)
(* owner's updates to the webhook and posts them again until it is         *)
(* answered 200.  A request works on its update until it has replied; the  *)
(* requests of one owner run side by side and share, in the memory of the  *)
(* process, the updates seen and the conversation, and in Redis the last   *)
(* site and document of the chat.  What the tools of a turn read or note   *)
(* is left out.                                                            *)
(***************************************************************************)
EXTENDS Naturals, Sequences, SequencesExt, FiniteSets

CONSTANTS
    MaxUpdates,   \* updates of the owner
    UpdateKinds,  \* what they may be
    Requests,     \* webhook requests at work at a time
    MaxSeen,      \* _MAX_SEEN
    MaxHistory,   \* MAX_HISTORY
    MaxTroubles,  \* bound on failed calls, lost answers, logouts and restarts, together
    EarlyRetry    \* whether Telegram retries an update that is still being processed

\* A message, a command that only reads, /clear, the commands on skills, on sites, and on
\* documents; /slides and /table.
Kinds == {"talk", "ask", "clear", "skill", "call", "build", "edit", "doc", "docedit", "slides"}
Shelves == {"site", "document"}

ASSUME BotConstants ==
    /\ MaxUpdates \in Nat /\ MaxSeen \in Nat /\ MaxHistory \in Nat
    /\ MaxTroubles \in Nat /\ EarlyRetry \in BOOLEAN
    /\ UpdateKinds \subseteq Kinds

VARIABLES
    kind,      \* what the owner sent: the kind of each update, "acked" when Telegram was
               \* answered 200
    seen,      \* _seen_updates
    request,   \* each request: where it stands, its update and the update's kind
    history,   \* _conversations: pairs of role and update
    page,      \* what is stored for the chat: a site, a document
    done,      \* how often each update took effect
    excused,   \* how often an attempt ended so that Telegram has to try again
    answered,  \* updates the owner got an answer to, of whatever kind
    troubles   \* troubles so far

botVars == <<kind, seen, request, history, page, done, excused, answered, troubles>>

Updates == 1..MaxUpdates
Acked == {u \in Updates : kind[u] = "acked"}
Waiting == [at |-> "idle", update |-> 0, kind |-> "acked"]
Roles == {"user", "assistant"}

BotTypeOK ==
    /\ kind \in [Updates -> UpdateKinds \cup {"unsent", "acked"}]
    /\ seen \subseteq Updates /\ answered \subseteq Updates
    /\ request \in [Requests -> [at : {"idle", "arrived", "starting", "thinking", "making",
                                       "deployed", "replying", "reporting",
                                       "apologising"},
                                 update : 0..MaxUpdates, kind : UpdateKinds \cup {"acked"}]]
    /\ history \in Seq(Roles \X Updates) /\ Len(history) <= MaxHistory
    /\ page \subseteq Shelves
    /\ done \in [Updates -> Nat] /\ excused \in [Updates -> Nat]
    /\ troubles \in 0..MaxTroubles

InitBot ==
    /\ kind = [u \in Updates |-> "unsent"]
    /\ seen = {} /\ answered = {}
    /\ request = [r \in Requests |-> Waiting]
    /\ history = <<>>
    /\ page = {}
    /\ done = [u \in Updates |-> 0] /\ excused = [u \in Updates |-> 0]
    /\ troubles = 0

Trouble == troubles < MaxTroubles /\ troubles' = troubles + 1
Stage(r, place) == request[r].at = place
Proceeds(r, place) == request' = [request EXCEPT ![r].at = place]
InWork(u) == \E r \in Requests : request[r].update = u
TakesEffect(r) == done' = [done EXCEPT ![request[r].update] = @ + 1]

(***************************************************************************)
(* Telegram and the webhook.                                               *)
(***************************************************************************)

\* The update is remembered; when there are too many, the lower half is forgotten.
Remembered(u) ==
    LET all == seen \cup {u}
        low == {v \in all : Cardinality({o \in all : o < v}) < MaxSeen \div 2}
    IN  IF Cardinality(all) > MaxSeen THEN all \ low ELSE all

\* Telegram posts the next new update, or one that was not answered 200.
Comes(u, k) ==
    /\ k = kind[u] \/ (kind[u] = "unsent" /\ \A v \in 1..(u - 1) : kind[v] # "unsent")
    /\ EarlyRetry \/ ~ InWork(u)

\* A bug: an update counts as seen when it has been processed.
RemembersLate(r, u, k) ==
    /\ Stage(r, "idle") /\ Comes(u, k)
    /\ kind' = [kind EXCEPT ![u] = k]
    /\ request' = [request EXCEPT ![r] = [Waiting EXCEPT !.at = "arrived", !.update = u,
                                                        !.kind = k]]
    /\ UNCHANGED <<seen, history, page, done, excused, answered, troubles>>

\* bot_webhook: an update that was seen is answered at once.
Delivered(r, u, k) ==
    /\ Stage(r, "idle") /\ Comes(u, k)
    /\ \/ /\ u \in seen
          /\ kind' = [kind EXCEPT ![u] = "acked"]
          /\ UNCHANGED <<seen, request, excused>>
       \/ /\ u \notin seen
          /\ kind' = [kind EXCEPT ![u] = k]
          /\ seen' = Remembered(u)
          /\ excused' = [v \in Updates |-> IF v \in (seen \cup {u}) \ Remembered(u)
                                           THEN excused[v] + 1 ELSE excused[v]]
          /\ request' = [request EXCEPT ![r] = [Waiting EXCEPT !.at = "arrived",
                                                               !.update = u, !.kind = k]]
    /\ UNCHANGED <<history, page, done, answered, troubles>>

\* The request ends with 200 ...
Answers(r) ==
    /\ kind' = [kind EXCEPT ![request[r].update] = "acked"]
    /\ request' = [request EXCEPT ![r] = Waiting]

\* A bug: a failed update stays in the set.
FailsSeen(r) ==
    /\ Trouble
    /\ excused' = [excused EXCEPT ![request[r].update] = @ + 1]
    /\ request' = [request EXCEPT ![r] = Waiting]
    /\ UNCHANGED seen

\* ... or, after an exception, with 503: the update may come again.
Fails(r) ==
    /\ Trouble
    /\ seen' = seen \ {request[r].update}
    /\ excused' = [excused EXCEPT ![request[r].update] = @ + 1]
    /\ request' = [request EXCEPT ![r] = Waiting]

(***************************************************************************)
(* _process_update.                                                        *)
(***************************************************************************)

\* _resolve_user: no active session of this sender (nothing is answered), or an error
\* (two of them).
Unresolved(r) ==
    /\ Stage(r, "arrived")
    /\ \/ /\ Trouble /\ Answers(r)
          /\ answered' = answered \cup {request[r].update}    \* ignored on purpose
          /\ UNCHANGED <<seen, excused>>
       \/ Fails(r) /\ UNCHANGED <<kind, answered>>
    /\ UNCHANGED <<history, page, done>>

\* check_rate_limit counts whatever else came within the minute and the hour; and a
\* command without what it needs is told how it is used.
Refused(r) ==
    /\ Proceeds(r, "reporting")
    /\ UNCHANGED <<history, done>>

\* Commands that only read, forwards, photos, files and voices: an error of what they
\* ask, or of their reply, goes to Telegram.
Asks(r) ==
    /\ request[r].kind = "ask" /\ Proceeds(r, "reporting")
    /\ UNCHANGED <<history, done>>

\* /web and /summarize catch it.
AsksModel(r) ==
    /\ request[r].kind = "ask" /\ Proceeds(r, "replying")
    /\ UNCHANGED <<history, done>>

\* /clear.
Clears(r) ==
    /\ request[r].kind = "clear"
    /\ history' = <<>>
    /\ Proceeds(r, "reporting") /\ TakesEffect(r)

\* /skill run and /skill delete of a skill that is there: queued, or committed.
CallsSkill(r) ==
    /\ request[r].kind = "call"
    /\ Proceeds(r, "reporting") /\ TakesEffect(r)
    /\ UNCHANGED history

\* A message, up to recall and classification.
Talks(r) ==
    /\ request[r].kind = "talk" /\ Proceeds(r, "starting")
    /\ UNCHANGED <<history, done>>

\* Something is generated, to be deployed and stored.
Generates(r) == Proceeds(r, "making") /\ UNCHANGED <<history, done>>

\* An edit reads what is stored for the chat, and says so if there is nothing, if it has
\* expired, or if Redis does not answer.
Redrafts(r, shelf) ==
    \/ shelf \in page /\ Generates(r)
    \/ Proceeds(r, "reporting") /\ UNCHANGED <<history, done>>

build_site(r) == request[r].kind = "build" /\ Generates(r)
build_document(r) == request[r].kind = "doc" /\ Generates(r)
build_presentation(r) == request[r].kind = "slides" /\ Generates(r)
build_table(r) == request[r].kind = "slides" /\ Generates(r)
edit_site(r) == request[r].kind = "edit" /\ Redrafts(r, "site")
edit_document(r) == request[r].kind = "docedit" /\ Redrafts(r, "document")
create_skill(r) == request[r].kind = "skill" /\ Generates(r)

Dispatched(r) ==
    /\ Stage(r, "arrived")
    /\ \/ Refused(r) \/ Asks(r) \/ AsksModel(r) \/ Clears(r) \/ CallsSkill(r) \/ Talks(r)
       \/ build_site(r) \/ build_document(r) \/ build_presentation(r) \/ build_table(r)
       \/ edit_site(r) \/ edit_document(r) \/ create_skill(r)
    /\ UNCHANGED <<kind, seen, page, excused, answered, troubles>>

\* A forwarded voice message is answered as a forward first, then as a voice.
Forwarded(r) ==
    /\ Stage(r, "arrived") /\ request[r].kind = "ask"
    /\ answered' = answered \cup {request[r].update}
    /\ Proceeds(r, "reporting")
    /\ UNCHANGED <<kind, seen, history, page, done, excused, troubles>>

\* Recall and the classification of the message are behind: it edits the stored site, or
\* the model is asked.
TurnBegins(r) ==
    /\ Stage(r, "starting")
    /\ \/ "site" \in page /\ Generates(r)
       \/ Proceeds(r, "thinking") /\ UNCHANGED <<history, done>>
    /\ UNCHANGED <<kind, seen, page, excused, answered, troubles>>

\* The classification fails: it is outside of the turn's error recovery.
TurnFails(r) ==
    /\ Stage(r, "starting")
    /\ Fails(r)
    /\ UNCHANGED <<kind, history, page, done, answered>>

\* Generation or deployment fails; the reply will say so.
MakingFails(r) ==
    /\ Stage(r, "making") /\ Trouble
    /\ Proceeds(r, IF request[r].kind = "skill" THEN "apologising" ELSE "reporting")
    /\ UNCHANGED <<kind, seen, history, page, done, excused, answered>>

\* The skill is committed.
SkillCreated(r) ==
    /\ Stage(r, "making") /\ request[r].kind = "skill"
    /\ Proceeds(r, "replying") /\ TakesEffect(r)
    /\ UNCHANGED <<kind, seen, history, page, excused, answered, troubles>>

\* The page is published.
Deployed(r) ==
    /\ Stage(r, "making") /\ request[r].kind # "skill"
    /\ Proceeds(r, "deployed") /\ TakesEffect(r)
    /\ UNCHANGED <<kind, seen, history, page, excused, answered, troubles>>

\* store_site and store_document fail silently.
Stores(r, shelf) ==
    \/ page' = page \cup {shelf} /\ UNCHANGED troubles
    \/ Trouble /\ UNCHANGED page

SiteBuilt(r) == request[r].kind = "build" /\ Stores(r, "site")
SiteEdited(r) == request[r].kind \in {"edit", "talk"} /\ Stores(r, "site")
DocumentBuilt(r) == request[r].kind = "doc" /\ Stores(r, "document")
DocumentEdited(r) == request[r].kind = "docedit" /\ Stores(r, "document")
SlidesBuilt(r) == request[r].kind = "slides" /\ UNCHANGED <<page, troubles>>   \* not stored

StoresPage(r) ==
    /\ Stage(r, "deployed")
    /\ \/ SiteBuilt(r) \/ SiteEdited(r) \/ DocumentBuilt(r) \/ DocumentEdited(r)
       \/ SlidesBuilt(r)
    /\ Proceeds(r, "reporting")
    /\ UNCHANGED <<kind, seen, history, done, excused, answered>>

\* A bug: one more is kept.
KeptMore(h) ==
    SubSeq(h, IF Len(h) > MaxHistory + 1 THEN Len(h) - MaxHistory ELSE 1, Len(h))

\* add_message: the oldest go.
Kept(h) == SubSeq(h, IF Len(h) > MaxHistory THEN Len(h) - MaxHistory + 1 ELSE 1, Len(h))
Added2(h, u) == Kept(Append(Kept(Append(h, <<"user", u>>)), <<"assistant", u>>))

\* run_agent comes to its answer, and both messages enter the conversation.
Thinks(r) ==
    /\ Stage(r, "thinking")
    /\ history' = Added2(history, request[r].update)
    /\ TakesEffect(r) /\ Proceeds(r, "replying")
    /\ UNCHANGED <<kind, seen, page, excused, answered, troubles>>

\* run_agent raises: a failed generation, no text, too many turns.
ThinkingFails(r) ==
    /\ Stage(r, "thinking") /\ Trouble
    /\ Proceeds(r, "apologising")
    /\ UNCHANGED <<kind, seen, history, page, done, excused, answered>>

\* The reply is sent, and Telegram hears the answer to the webhook or not.
Replies(r) ==
    /\ request[r].at \in {"replying", "reporting", "apologising"}
    /\ answered' = answered \cup {request[r].update}
    /\ \/ Answers(r) /\ UNCHANGED troubles
       \/ request' = [request EXCEPT ![r] = Waiting] /\ Trouble /\ UNCHANGED kind
    /\ UNCHANGED <<seen, history, page, done, excused>>

\* A turn and the creation of a skill report any error, that of their own reply too.
ReplyCaught(r) ==
    /\ Stage(r, "replying") /\ Trouble
    /\ Proceeds(r, "apologising")
    /\ UNCHANGED <<kind, seen, history, page, done, excused, answered>>

\* Elsewhere the error of a reply, or of the service that was asked, is not caught.
ReplyFails(r) ==
    /\ request[r].at \in {"reporting", "apologising"}
    /\ Fails(r)
    /\ UNCHANGED <<kind, history, page, done, answered>>

(***************************************************************************)
(* Time and restarts.                                                      *)
(***************************************************************************)

\* What is in memory is gone; Telegram's connections break.
BotRestarts ==
    /\ Trouble
    /\ request' = [r \in Requests |-> Waiting]
    /\ seen' = {} /\ history' = <<>>
    /\ excused' = [u \in Updates |-> IF u \in seen \ Acked THEN excused[u] + 1 ELSE excused[u]]
    /\ UNCHANGED <<kind, page, done, answered>>

RequestStep(r) ==
    \/ \E u \in Updates, k \in UpdateKinds : Delivered(r, u, k)
    \/ Unresolved(r) \/ Dispatched(r) \/ Forwarded(r)
    \/ TurnBegins(r) \/ TurnFails(r)
    \/ MakingFails(r) \/ SkillCreated(r) \/ Deployed(r) \/ StoresPage(r)
    \/ Thinks(r) \/ ThinkingFails(r)
    \/ Replies(r) \/ ReplyCaught(r) \/ ReplyFails(r)

NextBot ==
    \/ \E r \in Requests : RequestStep(r)
    \/ BotRestarts

BotSpec == InitBot /\ [][NextBot]_botVars

(***************************************************************************)
(* Properties.                                                             *)
(***************************************************************************)

\* An update Telegram will not send again was answered to the owner, or is being
\* worked on: a failure never swallows it.
AckedIsHandled == \A u \in Acked : u \in answered \/ InWork(u)

\* However often Telegram sends an update, it takes effect a second time only after an
\* attempt that failed, a restart, or its eviction from the set.
DoneOnce == \A u \in Updates : done[u] <= 1 + excused[u]
=============================================================================
