----------------------------- MODULE Reconcile ------------------------------
(***************************************************************************)
(* The metadata reconciliation of one chat (metadata_reconciliation.py):   *)
(* it walks the messages upwards from a checkpoint and writes them, batch  *)
(* by batch, over the rows of the archive, while the listener stores and   *)
(* edits the same rows.  It may be limited, fail, be killed, and be        *)
(* started twice.                                                          *)
(***************************************************************************)
EXTENDS Naturals, FiniteSets, FiniteSetsExt

CONSTANTS
    Numbers,    \* message numbers, 1..n
    Blank,      \* messages without text, media or action
    Texts,      \* how many texts a message may have had
    Passes,     \* reconciliations at a time
    BatchSize,  \* batch_size
    MaxSnags    \* bound on limits, failures, killed runs and updates the listener missed

ASSUME ReconcileConstants ==
    /\ Blank \subseteq Numbers /\ Numbers \subseteq Nat \ {0}
    /\ Texts \in Nat \ {0} /\ BatchSize \in Nat \ {0} /\ MaxSnags \in Nat

VARIABLES
    said,      \* how many texts the message has had in Telegram (0: not sent)
    removed,   \* messages deleted in Telegram
    heard,     \* how many of them the listener has handled or missed
    text,      \* the text of the row, 0 for none
    revisions, \* message_revisions
    held,      \* every text the row has had
    slipped,   \* rows inserted between the lock and the write of a batch
    point,     \* the checkpoint: its status and last_telegram_message_id
    pass,      \* each run: where it stands, its batch, last number, and the rows it locked
    snags      \* snags so far

reconcileVars == <<said, removed, heard, text, revisions, held, slipped, point, pass, snags>>

Off == [at |-> "idle", batch |-> [m \in {} |-> 0], last |-> 0, locked |-> {}]

ReconcileTypeOK ==
    /\ said \in [Numbers -> 0..Texts] /\ heard \in [Numbers -> 0..Texts]
    /\ text \in [Numbers -> 0..Texts]
    /\ removed \subseteq Numbers /\ slipped \subseteq Numbers
    /\ revisions \in [Numbers -> SUBSET (1..Texts)] /\ held \in [Numbers -> SUBSET (1..Texts)]
    /\ point \in [status : {"pending", "running", "paused", "complete", "failed"},
                  last : {0} \cup Numbers]
    /\ \A p \in Passes :
         /\ pass[p].at \in {"idle", "walking", "stopping", "ended"}
         /\ DOMAIN pass[p].batch \subseteq Numbers
         /\ Cardinality(DOMAIN pass[p].batch) <= BatchSize
         /\ pass[p].last \in {0} \cup Numbers /\ pass[p].locked \subseteq Numbers \cup {0}
    /\ snags \in 0..MaxSnags

InitReconcile ==
    /\ said = [m \in Numbers |-> 0] /\ heard = [m \in Numbers |-> 0]
    /\ text = [m \in Numbers |-> 0]
    /\ removed = {} /\ slipped = {}
    /\ revisions = [m \in Numbers |-> {}] /\ held = [m \in Numbers |-> {}]
    /\ point = [status |-> "pending", last |-> 0]
    /\ pass = [p \in Passes |-> Off]
    /\ snags = 0

Snag == snags < MaxSnags /\ snags' = snags + 1
Locks(p, m) == m \in pass[p].locked
Writing(p) == pass[p].locked # {}     \* 0 stands for a lock on no row
Batch(p) == DOMAIN pass[p].batch

\* Rows that get a text; a row keeps what it is written over only as a revision.
Holds(new) ==
    /\ text' = [m \in Numbers |-> IF m \in DOMAIN new THEN new[m] ELSE text[m]]
    /\ held' = [m \in Numbers |-> held[m] \cup {new[n] : n \in {m} \cap DOMAIN new}]

Revised(rows) ==
    revisions' = [m \in Numbers |-> IF m \in rows THEN revisions[m] \cup {text[m]}
                                    ELSE revisions[m]]

(***************************************************************************)
(* Telegram and the listener.                                              *)
(***************************************************************************)

\* A message is sent, the numbers ascending, or edited, or deleted.
Speaks(m) ==
    /\ \/ /\ said[m] < Texts /\ m \notin removed
          /\ said[m] = 0 => \A o \in Numbers : o < m => said[o] > 0
          /\ said' = [said EXCEPT ![m] = @ + 1]
          /\ UNCHANGED removed
       \/ /\ said[m] > 0 /\ removed = {}
          /\ removed' = removed \cup {m}
          /\ UNCHANGED said
    /\ UNCHANGED <<heard, text, revisions, held, slipped, point, pass, snags>>

\* _handle_message stores a message that is new, _handle_edit revises a stored one (with
\* its row locked); an update may be missed.
ListenerHears(m) ==
    /\ heard[m] < said[m] /\ m \notin Blank
    /\ \A p \in Passes : ~ Locks(p, m)
    /\ heard' = [heard EXCEPT ![m] = @ + 1]
    /\ \/ /\ heard[m] = 0 /\ text[m] = 0
          /\ Holds([n \in {m} |-> 1])
          /\ slipped' = IF \E p \in Passes : Writing(p) /\ m \in Batch(p)
                        THEN slipped \cup {m} ELSE slipped
          /\ UNCHANGED <<revisions, snags>>
       \/ /\ heard[m] > 0 /\ text[m] # 0
          /\ Revised({m}) /\ Holds([n \in {m} |-> heard[m] + 1])
          /\ UNCHANGED <<slipped, snags>>
       \/ /\ (heard[m] = 0) # (text[m] = 0)    \* stored already, or never
          /\ UNCHANGED <<text, revisions, held, slipped, snags>>
       \/ Snag /\ UNCHANGED <<text, revisions, held, slipped>>
    /\ UNCHANGED <<said, removed, point, pass>>

(***************************************************************************)
(* reconcile_owner_metadata.                                               *)
(***************************************************************************)

\* The checkpoint says running, and the walk begins above its number.
PassBegins(p) ==
    /\ pass[p].at = "idle"
    /\ point' = [point EXCEPT !.status = "running"]
    /\ pass' = [pass EXCEPT ![p] = [Off EXCEPT !.at = "walking", !.last = point.last]]
    /\ UNCHANGED <<said, removed, heard, text, revisions, held, slipped, snags>>

Ahead(p) == {m \in Numbers : m > pass[p].last /\ said[m] > 0 /\ m \notin removed}

\* A message of the iterator; one that is empty only moves the number.
Walks(p) ==
    /\ pass[p].at = "walking" /\ ~ Writing(p)
    /\ Cardinality(Batch(p)) < BatchSize /\ Ahead(p) # {}
    /\ LET m == Min(Ahead(p)) IN
         pass' = [pass EXCEPT
                    ![p].last = m,
                    ![p].batch = [n \in Batch(p) \cup ({m} \ Blank) |->
                                    IF n = m THEN said[m] ELSE pass[p].batch[n]]]
    /\ UNCHANGED <<said, removed, heard, text, revisions, held, slipped, point, snags>>

\* max_messages is reached, or the iterator has come to its end.
WalkEnds(p) ==
    /\ pass[p].at = "walking" /\ ~ Writing(p)
    /\ \/ Ahead(p) # {} /\ Snag /\ pass' = [pass EXCEPT ![p].at = "stopping"]
       \/ Ahead(p) = {} /\ pass' = [pass EXCEPT ![p].at = "ended"] /\ UNCHANGED snags
    /\ UNCHANGED <<said, removed, heard, text, revisions, held, slipped, point>>

\* _save_metadata_batch: the rows there are by now are locked ...
BatchLocks(p) ==
    /\ ~ Writing(p) /\ Batch(p) # {}
    /\ pass[p].at = "walking" => Cardinality(Batch(p)) = BatchSize
    /\ \A o \in Passes, m \in Batch(p) : ~ Locks(o, m)
    /\ pass' = [pass EXCEPT ![p].locked = {0} \cup {m \in Batch(p) : text[m] # 0}]
    /\ UNCHANGED <<said, removed, heard, text, revisions, held, slipped, point, snags>>

Written(p) ==
    /\ Writing(p)
    /\ \A o \in Passes \ {p}, m \in Batch(p) : ~ Locks(o, m)
    /\ Holds(pass[p].batch)
    /\ point' = [point EXCEPT !.last = pass[p].last]
    /\ pass' = [pass EXCEPT ![p].batch = Off.batch, ![p].locked = {}]
    /\ slipped' = slipped \cup
                  {m \in Batch(p) : text[m] = 0 /\ \E o \in Passes \ {p} :
                                                     Writing(o) /\ m \in Batch(o)}
    /\ UNCHANGED <<said, removed, heard, snags>>

\* A bug: the old text is written over.
WritesOver(p) == Written(p) /\ UNCHANGED revisions

\* ... what differs becomes a revision, every row of the batch is inserted or written
\* over, and the checkpoint moves in the same transaction.
BatchWrites(p) ==
    /\ Written(p)
    /\ Revised({m \in pass[p].locked \ {0} : text[m] # pass[p].batch[m]})

\* complete, or paused by the limit.
PassEnds(p) ==
    /\ pass[p].at \in {"stopping", "ended"} /\ Batch(p) = {}
    /\ point' = [status |-> IF pass[p].at = "ended" THEN "complete" ELSE "paused",
                 last |-> pass[p].last]
    /\ pass' = [pass EXCEPT ![p] = Off]
    /\ UNCHANGED <<said, removed, heard, text, revisions, held, slipped, snags>>

\* A bug: a failed run leaves the number it had come to.
FailsAhead(p) ==
    /\ pass[p].at # "idle" /\ Snag
    /\ point' = [status |-> "failed", last |-> pass[p].last]
    /\ pass' = [pass EXCEPT ![p] = Off]
    /\ UNCHANGED <<said, removed, heard, text, revisions, held, slipped>>

\* An error marks the checkpoint; a run that is killed leaves it as it is.
PassFails(p) ==
    /\ pass[p].at # "idle" /\ Snag
    /\ point' \in {point, [point EXCEPT !.status = "failed"]}
    /\ pass' = [pass EXCEPT ![p] = Off]
    /\ UNCHANGED <<said, removed, heard, text, revisions, held, slipped>>

NextReconcile ==
    \/ \E m \in Numbers : Speaks(m) \/ ListenerHears(m)
    \/ \E p \in Passes : \/ PassBegins(p) \/ Walks(p) \/ WalkEnds(p)
                         \/ BatchLocks(p) \/ BatchWrites(p)
                         \/ PassEnds(p) \/ PassFails(p)

ReconcileSpec == InitReconcile /\ [][NextReconcile]_reconcileVars

(***************************************************************************)
(* Properties.                                                             *)
(***************************************************************************)

\* The checkpoint never runs ahead of what is stored, whatever fails, is limited or
\* overlaps: every message up to its number that Telegram still has is in the archive.
CheckpointCovers ==
    \A m \in Numbers \ (Blank \cup removed) :
      said[m] > 0 /\ m <= point.last => text[m] # 0

\* The reconciliation and the listener write the same rows, and no text the archive has
\* held is lost, except of a row that was inserted between a batch's lock and its write.
HistoryKept ==
    \A m \in Numbers \ slipped : held[m] \subseteq revisions[m] \cup {text[m]}
=============================================================================
