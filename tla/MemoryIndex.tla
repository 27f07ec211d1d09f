---------------------------- MODULE MemoryIndex ----------------------------
(***************************************************************************)
(* What the archive memory promises to a search, whatever the Batch        *)
(* machinery behind it does (docs/architecture/memory-batch.md,            *)
(* "Lifecycle"): search is a derived view of the current source.           *)
(*                                                                         *)
(* A passage is identified by the hash of its text and of the messages it  *)
(* quotes, so "the passages of the current source" is a set of             *)
(* identifiers.  Visible passages are always passages of the current       *)
(* source of an accessible chat; a change of the source takes every        *)
(* passage of the changed days out of search in the same step, and         *)
(* revoking access does the same; publication only ever adds.              *)
(***************************************************************************)
CONSTANTS Passages,   \* every passage identifier
          Days,       \* (chat, UTC day) pairs
          DayOf       \* the day of a passage

VARIABLES source,     \* passages that build_passages yields for the archive
          open,       \* days whose chat is selected and whose owner is active
          visible     \* passages a semantic search can return

vars == <<source, open, visible>>

PassagesOf(D) == {p \in Passages : DayOf[p] \in D}

TypeOK == /\ source \subseteq Passages
          /\ open \subseteq Days
          /\ visible \subseteq Passages

Init == /\ source \in SUBSET Passages
        /\ open \in SUBSET Days
        /\ visible = {}

\* The messages of the days D changed, were renamed or were re-selected.
Change(D) ==
    /\ source' \subseteq Passages
    /\ source' \ PassagesOf(D) = source \ PassagesOf(D)
    /\ open \subseteq open'
    /\ open' \subseteq Days
    /\ open' \ D = open \ D
    /\ visible' = visible \ PassagesOf(D)

\* The messages of closed days change; nothing of them is visible anyway.
ChangeClosed ==
    /\ source' \subseteq Passages
    /\ source' \cap PassagesOf(open) = source \cap PassagesOf(open)
    /\ UNCHANGED <<open, visible>>

\* A chat is deselected or its owner is deactivated.
Revoke(D) ==
    /\ open' = open \ D
    /\ visible' = visible \ PassagesOf(D)
    /\ UNCHANGED source

\* An owner comes back: what is still current may be visible at once.
Restore(D) ==
    /\ open' = open \cup D
    /\ visible \subseteq visible'
    /\ visible' \subseteq source \cap PassagesOf(open')
    /\ UNCHANGED source

\* Prepared days and imported vectors become searchable.
Publish ==
    /\ visible \subseteq visible'
    /\ visible' \subseteq source \cap PassagesOf(open)
    /\ UNCHANGED <<source, open>>

Next == \/ \E D \in SUBSET Days : Change(D) \/ Revoke(D) \/ Restore(D)
        \/ ChangeClosed
        \/ Publish

Spec == Init /\ [][Next]_vars
=============================================================================
