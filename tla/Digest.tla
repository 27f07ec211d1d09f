------------------------------- MODULE Digest -------------------------------
(***************************************************************************)
(* The digest of one day (digest_service.py, digest_tasks.py): the hourly  *)
(* task, the endpoint and the bot may generate it at the same time.  Each  *)
(* generation makes a text of its own, one is stored, and the task sends   *)
(* the text that generate_digest gave it before its transaction commits.   *)
(***************************************************************************)
EXTENDS Naturals, FiniteSets

CONSTANTS
    Writers,     \* tasks and requests that may generate the digest
    MaxTexts,    \* bound on generated texts
    MaxLost      \* bound on workers lost and requests rolled back

ASSUME DigestConstants == MaxTexts \in Nat /\ MaxLost \in Nat

VARIABLES
    digest,   \* the committed row's text, 0 for none
    texts,    \* texts generated so far
    writer,   \* each writer: where it stands, its text, what it is, what it has sent
    sent,     \* texts the owner was sent
    void,     \* those of them whose task was lost before it stored them
    lost      \* losses so far

digestVars == <<digest, texts, writer, sent, void, lost>>

Idle == [at |-> "idle", text |-> 0, role |-> "task", sent |-> FALSE]

DigestTypeOK ==
    /\ digest \in 0..MaxTexts /\ texts \in 0..MaxTexts
    /\ writer \in [Writers -> [at : {"idle", "generating", "flushing", "flushed", "given"},
                               text : 0..MaxTexts, role : {"task", "request", "bot"},
                               sent : BOOLEAN]]
    /\ sent \subseteq 1..MaxTexts /\ void \subseteq 1..MaxTexts
    /\ lost \in 0..MaxLost

InitDigest ==
    /\ digest = 0 /\ texts = 0
    /\ writer = [w \in Writers |-> Idle]
    /\ sent = {} /\ void = {}
    /\ lost = 0

Loss == lost < MaxLost /\ lost' = lost + 1

\* generate_user_digest (again after a redelivery), POST /digests/generate or the bot's
\* tool: a digest that exists is given back.
Looks(w) ==
    /\ writer[w].at = "idle"
    /\ \E role \in {"task", "request", "bot"} :
         \/ /\ digest # 0
            /\ writer' = [writer EXCEPT ![w] = [Idle EXCEPT !.at = "given", !.text = digest,
                                                            !.role = role]]
         \/ /\ digest = 0
            /\ writer' = [writer EXCEPT ![w] = [Idle EXCEPT !.at = "generating",
                                                            !.role = role]]
    /\ UNCHANGED <<digest, texts, sent, void, lost>>

\* The retries come to a text, that of an empty day, or an excuse.
Generates(w) ==
    /\ writer[w].at = "generating" /\ texts < MaxTexts
    /\ texts' = texts + 1
    /\ writer' = [writer EXCEPT ![w].at = "flushing", ![w].text = texts + 1]
    /\ UNCHANGED <<digest, sent, void, lost>>

\* Another writer's insert is not committed yet.
Pending(w) == \E o \in Writers \ {w} : writer[o].at = "flushed"

\* A bug: after the conflict the writer goes on with its own text.
FlushesOwn(w) ==
    /\ writer[w].at = "flushing" /\ ~ Pending(w)
    /\ writer' = [writer EXCEPT ![w].at = IF digest = 0 THEN "flushed" ELSE "given"]
    /\ UNCHANGED <<digest, texts, sent, void, lost>>

\* The insert waits for a pending one; on a conflict the stored row is used.
Flushes(w) ==
    /\ writer[w].at = "flushing" /\ ~ Pending(w)
    /\ \/ /\ digest = 0
          /\ writer' = [writer EXCEPT ![w].at = "flushed"]
       \/ /\ digest # 0
          /\ writer' = [writer EXCEPT ![w].at = "given", ![w].text = digest]
    /\ UNCHANGED <<digest, texts, sent, void, lost>>

\* The task sends it to the owner, if that is wanted, before its transaction commits.
SendsDigest(w) ==
    /\ writer[w].at \in {"flushed", "given"}
    /\ writer[w].role = "task" /\ ~ writer[w].sent
    /\ writer' = [writer EXCEPT ![w].sent = TRUE]
    /\ sent' = sent \cup {writer[w].text}
    /\ UNCHANGED <<digest, texts, void, lost>>

\* The end: task and request commit, the bot's session is closed without.
Commits(w) ==
    /\ writer[w].at \in {"flushed", "given"}
    /\ digest' = IF writer[w].at = "flushed" /\ writer[w].role # "bot"
                 THEN writer[w].text ELSE digest
    /\ writer' = [writer EXCEPT ![w] = Idle]
    /\ UNCHANGED <<texts, sent, void, lost>>

\* A worker is lost or a transaction rolled back; the insert of what was sent may go too.
WriterLost(w) ==
    /\ writer[w].at # "idle" /\ Loss
    /\ void' = IF writer[w].at = "flushed" /\ writer[w].sent
               THEN void \cup {writer[w].text} ELSE void
    /\ writer' = [writer EXCEPT ![w] = Idle]
    /\ UNCHANGED <<digest, texts, sent>>

WriterStep(w) == Looks(w) \/ Generates(w) \/ Flushes(w) \/ SendsDigest(w) \/ Commits(w)
                 \/ WriterLost(w)

NextDigest == \E w \in Writers : WriterStep(w)

DigestSpec == InitDigest /\ [][NextDigest]_digestVars

(***************************************************************************)
(* Properties.                                                             *)
(***************************************************************************)

\* Whoever generates at the same time, what the owner is sent is the text that is stored, or
\* about to be: a text that lost the race is never sent, nor is a stored one replaced.  The
\* exception is a task that sends its text and is lost before its commit: each such loss
\* leaves the owner one text that no row has, and the next writer may store another.
SentIsStored ==
    /\ \A t \in sent : \/ t = digest
                       \/ \E w \in Writers : writer[w].at = "flushed" /\ writer[w].text = t
                       \/ t \in void
    /\ Cardinality(void) <= lost
    /\ \A w \in Writers : writer[w].at = "given" => writer[w].text = digest
=============================================================================
