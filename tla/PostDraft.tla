----------------------------- MODULE PostDraft ------------------------------
(***************************************************************************)
(* Post drafts (services/post_draft_service.py and its endpoints): a draft *)
(* is stored once under the identifier the caller chose, and publishing    *)
(* sends it to Telegram.  The requests run side by side, each stops at     *)
(* every await, and may end there (a crash, a cancelled request).          *)
(***************************************************************************)
EXTENDS Naturals

CONSTANTS
    Drafts,     \* identifiers chosen by the callers
    Contents,   \* chat, caption, file name and digest of a draft, as one value
    NoContent,  \* the content of a draft that is not stored
    DraftCalls  \* requests the server has in progress

ASSUME DraftConstants == NoContent \notin Contents /\ Drafts # {}

VARIABLES
    draft,    \* the committed row of each identifier: its status and its content
    call,     \* each request: where it stands, its draft and its content
    posted,   \* how often Telegram accepted the post of each draft
    wire,     \* what it accepted
    told,     \* drafts somebody was told are published
    stored,   \* what somebody was told is stored
    lost      \* ... by a request whose transaction was lost after its answer

draftVars == <<draft, call, posted, wire, told, stored, lost>>

DraftStatuses == {"none", "draft", "publishing", "published", "unknown"}
CallPlaces == {"idle", "new", "written", "answered", "loaded", "claimed", "sent"}

DraftTypeOK ==
    /\ draft \in [Drafts -> [status : DraftStatuses,
                             content : Contents \cup {NoContent}]]
    /\ call \in [DraftCalls -> [at : CallPlaces, id : Drafts,
                                content : Contents \cup {NoContent}]]
    /\ posted \in [Drafts -> Nat]
    /\ wire \subseteq Drafts \X Contents
    /\ told \subseteq Drafts
    /\ stored \subseteq Drafts \X Contents
    /\ lost \subseteq Drafts \X Contents

Quiet == [at |-> "idle", id |-> CHOOSE d \in Drafts : TRUE, content |-> NoContent]

InitDrafts ==
    /\ draft = [d \in Drafts |-> [status |-> "none", content |-> NoContent]]
    /\ call = [r \in DraftCalls |-> Quiet]
    /\ posted = [d \in Drafts |-> 0]
    /\ wire = {}
    /\ told = {}
    /\ stored = {}
    /\ lost = {}

Stored(d) == draft[d].status # "none"
Goes(r, place) == call' = [call EXCEPT ![r].at = place]
Ends(r) == call' = [call EXCEPT ![r] = Quiet]
Becomes(d, status) == draft' = [draft EXCEPT ![d].status = status]

(***************************************************************************)
(* Saving.                                                                 *)
(***************************************************************************)

\* existing(): the stored draft answers for a request with the same content, any
\* other content is refused (409).
Existing(d, c) ==
    stored' = IF draft[d].content = c THEN stored \cup {<<d, c>>} ELSE stored

\* A save request up to its look for the identifier, which sees committed rows.
SaveLooks(r, d, c) ==
    /\ call[r].at = "idle"
    /\ \/ /\ Stored(d) /\ Existing(d, c)
          /\ UNCHANGED call
       \/ /\ ~ Stored(d)
          /\ call' = [call EXCEPT ![r] = [at |-> "new", id |-> d, content |-> c]]
          /\ UNCHANGED stored
    /\ UNCHANGED <<draft, posted, wire, told, lost>>

\* The request has inserted its row and not committed it.
Inserted(r) == call[r].at \in {"written", "answered"}

\* A bug: the insert writes over what the row holds by now.
SaveStoresOver(r) ==
    /\ call[r].at = "new"
    /\ \A s \in DraftCalls : Inserted(s) => call[s].id # call[r].id
    /\ Goes(r, "written")
    /\ UNCHANGED <<draft, posted, wire, told, stored, lost>>

\* The insert waits for another open transaction with the same identifier; when
\* that, or an earlier one, has committed its row, the savepoint is rolled back and
\* the row answers.
SaveStores(r) ==
    /\ call[r].at = "new"
    /\ \A s \in DraftCalls : Inserted(s) => call[s].id # call[r].id
    /\ \/ /\ ~ Stored(call[r].id) /\ Goes(r, "written")
          /\ UNCHANGED stored
       \/ /\ Stored(call[r].id) /\ Existing(call[r].id, call[r].content) /\ Ends(r)
    /\ UNCHANGED <<draft, posted, wire, told, lost>>

\* The endpoint answers; get_db commits only after the response is sent.
SaveAnswers(r) ==
    /\ call[r].at = "written" /\ Goes(r, "answered")
    /\ stored' = stored \cup {<<call[r].id, call[r].content>>}
    /\ UNCHANGED <<draft, posted, wire, told, lost>>

\* The commit: after the answer, or, for a tool call of the bot's model, before it.
SaveCommits(r) ==
    LET d == call[r].id c == call[r].content IN
    /\ Inserted(r) /\ Ends(r)
    /\ draft' = [draft EXCEPT ![d] = [status |-> "draft", content |-> c]]
    /\ stored' = stored \cup {<<d, c>>}
    /\ lost' = lost \ {<<d, c>>}
    /\ UNCHANGED <<posted, wire, told>>

(***************************************************************************)
(* Publishing.                                                             *)
(***************************************************************************)

\* The draft is loaded; one that is published is answered as it is.
PublishLoads(r, d) ==
    /\ call[r].at = "idle" /\ Stored(d)
    /\ \/ /\ draft[d].status = "published"
          /\ told' = told \cup {d}
          /\ UNCHANGED call
       \/ /\ draft[d].status # "published"
          /\ call' = [call EXCEPT ![r] = [at |-> "loaded", id |-> d,
                                          content |-> draft[d].content]]
          /\ UNCHANGED told
    /\ UNCHANGED <<draft, posted, wire, stored, lost>>

\* A bug: the claim trusts the status that was loaded.
PublishClaimsLoaded(r) ==
    /\ call[r].at = "loaded"
    /\ Becomes(call[r].id, "publishing") /\ Goes(r, "claimed")
    /\ UNCHANGED <<posted, wire, told, stored, lost>>

\* UPDATE ... WHERE status = 'draft', committed before anything is sent; a request
\* that changes no row answers 409.
PublishClaims(r) ==
    /\ call[r].at = "loaded"
    /\ \/ /\ draft[call[r].id].status = "draft"
          /\ Becomes(call[r].id, "publishing") /\ Goes(r, "claimed")
       \/ /\ draft[call[r].id].status # "draft"
          /\ Ends(r)
          /\ UNCHANGED draft
    /\ UNCHANGED <<posted, wire, told, stored, lost>>

\* Telegram accepts the post; the request does not know it yet.
TelegramPosts(r) ==
    /\ call[r].at = "claimed"
    /\ posted' = [posted EXCEPT ![call[r].id] = @ + 1]
    /\ wire' = wire \cup {<<call[r].id, call[r].content>>}
    /\ Goes(r, "sent")
    /\ UNCHANGED <<draft, told, stored, lost>>

\* The chat, the session or the peer is missing, Telegram refuses, or the answer is
\* lost: the handler cannot tell which, and leaves 'unknown'.
PublishFails(r) ==
    /\ call[r].at \in {"claimed", "sent"}
    /\ Becomes(call[r].id, "unknown") /\ Ends(r)
    /\ UNCHANGED <<posted, wire, told, stored, lost>>

Confirmed(r) ==
    /\ call[r].at = "sent"
    /\ Becomes(call[r].id, "published") /\ Ends(r)
    /\ told' = told \cup {call[r].id}
    /\ UNCHANGED <<posted, wire, stored, lost>>

\* The request ends between two steps: the server crashes, the client goes away (a
\* cancellation is no Exception), or a commit fails.  An open transaction is rolled
\* back, although its saver may have been told that the draft is stored.
DraftCallDies(r) ==
    /\ call[r].at # "idle" /\ Ends(r)
    /\ lost' = IF call[r].at = "answered" THEN lost \cup {<<call[r].id, call[r].content>>}
               ELSE lost
    /\ UNCHANGED <<draft, posted, wire, told, stored>>

DraftStep(r) ==
    \/ \E d \in Drafts, c \in Contents : SaveLooks(r, d, c)
    \/ SaveStores(r)
    \/ SaveAnswers(r)
    \/ SaveCommits(r)
    \/ \E d \in Drafts : PublishLoads(r, d)
    \/ PublishClaims(r)
    \/ TelegramPosts(r)
    \/ PublishFails(r)
    \/ Confirmed(r)
    \/ DraftCallDies(r)

NextDrafts == \E r \in DraftCalls : DraftStep(r)

DraftSpec == InitDrafts /\ [][NextDrafts]_draftVars

(***************************************************************************)
(* Properties.                                                             *)
(***************************************************************************)

\* A saver has been told of p before its transaction is over.
Answering(p) == \E r \in DraftCalls : call[r].at = "answered" /\ <<call[r].id, call[r].content>> = p

\* "published" is said only of a post that is in Telegram, once; what is there is
\* what the row holds; and a save that was reported holds, with the content it
\* named, as soon as its transaction is over, unless that transaction was lost after
\* the answer and nobody has saved the same since.
PublishedAsStored ==
    /\ \A d \in told : posted[d] = 1
    /\ \A p \in wire : draft[p[1]].content = p[2]
    /\ \A p \in stored \ lost : draft[p[1]].content = p[2] \/ Answering(p)

\* Saving and publishing implement the promise of PostOnce.
Posts == INSTANCE PostOnce WITH text <- [d \in Drafts |-> draft[d].content]

DraftsArePostedOnce == Posts!InitPosts /\ [][Posts!NextPosts]_(Posts!postVars)
=============================================================================
