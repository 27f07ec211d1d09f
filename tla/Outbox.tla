------------------------------- MODULE Outbox -------------------------------
(***************************************************************************)
(* The outbox of correspondence events (correspondence_events.py): a row   *)
(* is written in the transaction of the message it is about; workers post  *)
(* the due rows to the webhook, a batch in one transaction.                *)
(***************************************************************************)
EXTENDS Naturals, FiniteSets

CONSTANTS
    Notes,         \* messages of the chat
    Kinds,         \* revisions of a message that make events ("media" is a late one)
    Posters,       \* workers
    Endpoints,     \* destinations the configuration may name
    BatchLimit,    \* rows of one batch
    MaxRefusals    \* bound on lost answers, refusals, crashes and changes, together

ASSUME OutboxConstants == /\ BatchLimit \in Nat \ {0} /\ MaxRefusals \in Nat
                          /\ "media" \in Kinds /\ Endpoints # {}

VARIABLES
    event,      \* rows: state, destination and whether they are due
    chatOn,     \* the chat's indexing_enabled
    endpoint,   \* the destination each process was started with
    poster,     \* workers: rows still to post, rows posted, and what the commit will write
    received,   \* how often each destination accepted each event
    refusals    \* adverse events so far

outboxVars == <<event, chatOn, endpoint, poster, received, refusals>>

Events == Notes \X Kinds
NoRow == [state |-> "none", dest |-> CHOOSE e \in Endpoints : TRUE, due |-> FALSE]
Resting == [todo |-> {}, done |-> {}, later |-> {}, revoke |-> {}]
Recorder == "recorder"   \* the listener and the media worker, who write events
Processes == Posters \cup {Recorder}

OutboxTypeOK ==
    /\ event \in [Events -> [state : {"none", "pending", "delivered", "revoked"},
                             dest : Endpoints, due : BOOLEAN]]
    /\ chatOn \in BOOLEAN
    /\ endpoint \in [Processes -> Endpoints]
    /\ poster \in [Posters -> [todo : SUBSET Events, done : SUBSET Events,
                               later : SUBSET Events, revoke : SUBSET Events]]
    /\ received \in [Endpoints \X Events -> Nat]
    /\ refusals \in 0..MaxRefusals

InitOutbox ==
    /\ event = [e \in Events |-> NoRow]
    /\ chatOn = TRUE
    /\ endpoint = [p \in Processes |-> CHOOSE e \in Endpoints : TRUE]
    /\ poster = [w \in Posters |-> Resting]
    /\ received = [x \in Endpoints \X Events |-> 0]
    /\ refusals = 0

Adverse == refusals < MaxRefusals /\ refusals' = refusals + 1

\* The rows a worker has locked until its transaction ends.
Locked(w) == poster[w].todo \cup poster[w].done \cup poster[w].later \cup poster[w].revoke
AtWork(w) == Locked(w) # {}

(***************************************************************************)
(* Writing.                                                                *)
(***************************************************************************)

\* enqueue_event: only of a selected chat; a repeated event changes nothing.
Added(e) ==
    event' = IF chatOn /\ event[e].state = "none"
               THEN [event EXCEPT ![e] = [state |-> "pending", due |-> TRUE,
                                          dest |-> endpoint[Recorder]]]
               ELSE event

\* A new or edited message, or the same update once more, commits with its event.
MessageSaved(m, k) ==
    /\ k # "media"
    /\ \/ event[<<m, k>>].state = "none" /\ UNCHANGED refusals
       \/ event[<<m, k>>].state # "none" /\ Adverse
    /\ Added(<<m, k>>)
    /\ UNCHANGED <<chatOn, endpoint, poster, received>>

\* enqueue_media_ready: only after an event of the message.
MediaSaved(m) ==
    /\ event[<<m, "media">>].state = "none"
    /\ \E k \in Kinds : event[<<m, k>>].state # "none"
    /\ Added(<<m, "media">>)
    /\ UNCHANGED <<chatOn, endpoint, poster, received, refusals>>

ChatSelection(on) ==
    /\ chatOn # on
    /\ \/ on /\ UNCHANGED refusals
       \/ ~ on /\ Adverse
    /\ chatOn' = on
    /\ UNCHANGED <<event, endpoint, poster, received>>

\* A process is started again with another destination; a worker's batch is lost.
Reconfigured(p, e) ==
    /\ endpoint[p] # e /\ Adverse
    /\ endpoint' = [endpoint EXCEPT ![p] = e]
    /\ poster' = [w \in Posters |-> IF w = p THEN Resting ELSE poster[w]]
    /\ UNCHANGED <<event, chatOn, received>>

(***************************************************************************)
(* deliver_batch.                                                          *)
(***************************************************************************)

\* A bug: rows locked by another worker are not skipped.
TakeableAll == {e \in Events : event[e].state = "pending" /\ event[e].due}

\* Due rows, without the ones another worker holds.
Takeable == {e \in Events : /\ event[e].state = "pending" /\ event[e].due
                            /\ \A w \in Posters : e \notin Locked(w)}

\* The rows of this destination; the others will be revoked.
Mine(w, batch) == {e \in batch : event[e].dest = endpoint[w]}

BatchTaken(w) ==
    /\ ~ AtWork(w) /\ chatOn
    /\ \E batch \in SUBSET Takeable :
         /\ batch # {} /\ Cardinality(batch) <= BatchLimit
         /\ Cardinality(batch) < BatchLimit => batch = Takeable
         /\ poster' = [poster EXCEPT ![w].todo = Mine(w, batch),
                                     ![w].revoke = batch \ Mine(w, batch)]
    /\ UNCHANGED <<event, chatOn, endpoint, received, refusals>>

\* The receiver accepts the post, and the worker hears so or not; or it refuses.
Posted(w, e) ==
    /\ e \in poster[w].todo
    /\ \/ /\ received' = [received EXCEPT ![<<endpoint[w], e>>] = @ + 1]
          /\ poster' = [poster EXCEPT ![w].todo = @ \ {e}, ![w].done = @ \cup {e}]
          /\ UNCHANGED refusals
       \/ /\ received' = [received EXCEPT ![<<endpoint[w], e>>] = @ + 1]
          /\ poster' = [poster EXCEPT ![w].todo = @ \ {e}, ![w].later = @ \cup {e}]
          /\ Adverse
       \/ /\ poster' = [poster EXCEPT ![w].todo = @ \ {e}, ![w].later = @ \cup {e}]
          /\ Adverse
          /\ UNCHANGED received
    /\ UNCHANGED <<event, chatOn, endpoint>>

\* The transaction of the batch commits.
BatchSaved(w) ==
    /\ AtWork(w) /\ poster[w].todo = {}
    /\ event' = [e \in Events |->
         IF e \in poster[w].done THEN [event[e] EXCEPT !.state = "delivered"]
         ELSE IF e \in poster[w].revoke THEN [event[e] EXCEPT !.state = "revoked"]
         ELSE IF e \in poster[w].later THEN [event[e] EXCEPT !.due = FALSE]
         ELSE event[e]]
    /\ poster' = [poster EXCEPT ![w] = Resting]
    /\ UNCHANGED <<chatOn, endpoint, received, refusals>>

\* A crash, or an answer that is no JSON object, rolls the whole batch back.
BatchLost(w) ==
    /\ AtWork(w) /\ Adverse
    /\ poster' = [poster EXCEPT ![w] = Resting]
    /\ UNCHANGED <<event, chatOn, endpoint, received>>

\* A bug: a refused event is not tried again.
NeverDue(e) == FALSE /\ UNCHANGED outboxVars

\* next_attempt_at is reached.
FallsDue(e) ==
    /\ event[e].state = "pending" /\ ~ event[e].due
    /\ event' = [event EXCEPT ![e].due = TRUE]
    /\ UNCHANGED <<chatOn, endpoint, poster, received, refusals>>

NextOutbox ==
    \/ \E m \in Notes : MediaSaved(m) \/ \E k \in Kinds : MessageSaved(m, k)
    \/ \E on \in BOOLEAN : ChatSelection(on)
    \/ \E p \in Processes, e \in Endpoints : Reconfigured(p, e)
    \/ \E w \in Posters : \/ BatchTaken(w)
                          \/ \E e \in Events : Posted(w, e)
                          \/ BatchSaved(w)
                          \/ BatchLost(w)
    \/ \E e \in Events : FallsDue(e)

\* The beat starts a delivery every minute, and time passes.
OutboxFairness ==
    /\ \A w \in Posters : /\ WF_outboxVars(BatchTaken(w))
                          /\ WF_outboxVars(BatchSaved(w))
                          /\ WF_outboxVars(\E e \in Events : Posted(w, e))
    /\ \A e \in Events : WF_outboxVars(FallsDue(e))

OutboxSpec == InitOutbox /\ [][NextOutbox]_outboxVars /\ OutboxFairness

(***************************************************************************)
(* Properties.                                                             *)
(***************************************************************************)

\* An event is posted only to the destination recorded with it, whichever processes have
\* been restarted with another; a delivered one was accepted and is not posted again:
\* repeats come only from answers and commits that were lost.
DeliveredIsQuiet ==
    /\ \A e \in Events, d \in Endpoints : received[<<d, e>>] > 0 => event[e].dest = d
    /\ \A e \in Events : event[e].state = "delivered" => received[<<event[e].dest, e>>] > 0
    /\ \A w \in Posters : \A e \in poster[w].todo : event[e].state = "pending"
    /\ \A e \in Events : received[<<event[e].dest, e>>] <= 1 + refusals

\* A recorded event is delivered at last, unless its chat is deselected or its
\* destination given up.
EventsArrive ==
    \A e \in Events :
        event[e].state = "pending"
          ~> event[e].state \in {"delivered", "revoked"} \/ ~ chatOn
=============================================================================
