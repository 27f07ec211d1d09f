------------------------ MODULE MemoryBatch_proofs ------------------------
(* Proofs about the Batch index for every archive, every number of workers    *)
(* and batches and every bound, whether or not a pass can outlive its lock.   *)
EXTENDS MemoryBatch, TLAPS

\* The domains of the state, for the leaves that need no more than types.
LEMMA InitTypeOK == Init => TypeOK
<1> USE ConstantsAssumption
<1> QED BY DEF Init, TypeOK, NothingToDo, Statuses, Open, Settled, Final, Jobs,
               Ended, Steps, Plans

\* Source changes: only Mark counts, and every guard leaves room for it.
LEMMA ArchiveTypeOK == TypeOK /\ Archive => TypeOK'
<1> SUFFICES ASSUME TypeOK, Archive PROVE TypeOK'
    OBVIOUS
<1> USE ConstantsAssumption
<1>1. ASSUME NEW d \in Days, EditDay(d) PROVE TypeOK'
  <2>1. content' \subseteq Passages
      BY <1>1 DEF EditDay, PassagesOf, TypeOK
  <2>2. revision' \in [Days -> 0..MaxRevision]
      BY <1>1 DEF EditDay, Mark, TypeOK
  <2> QED BY <1>1, <2>1, <2>2 DEF EditDay, TypeOK, passages, receipts,
                                  provider, passes
<1>2. ASSUME NEW c \in Chats, RenameChat(c) PROVE TypeOK'
  <2>1. content' \subseteq Passages
      BY <1>2 DEF RenameChat, PassagesOf, TypeOK
  <2>2. revision' \in [Days -> 0..MaxRevision]
      BY <1>2 DEF RenameChat, Mark, DaysOf, TypeOK
  <2> QED BY <1>2, <2>1, <2>2 DEF RenameChat, TypeOK, passages, receipts,
                                  provider, passes
<1>3. ASSUME NEW c \in Chats, NEW on \in BOOLEAN, SetIndexing(c, on)
      PROVE TypeOK'
    BY <1>3 DEF SetIndexing, Mark, DaysOf, TypeOK, passages, receipts,
                provider, passes
<1>4. ASSUME NEW u \in Users, NEW on \in BOOLEAN, SetActive(u, on)
      PROVE TypeOK'
    BY <1>4 DEF SetActive, TypeOK, days, passages, receipts, provider, passes
<1>5. CASE SeedDays
    BY <1>5 DEF SeedDays, Mark, TypeOK, source, passages, receipts, provider,
                passes
<1>6. ASSUME NEW d \in Days, PrepareDay(d), UNCHANGED passes PROVE TypeOK'
  <2>1. rows' \subseteq Passages /\ embedded' \subseteq rows' /\ ripe' \subseteq rows'
      BY <1>6 DEF PrepareDay, PassagesOf, TypeOK
  <2>2. /\ rowRev' \in [Passages -> 0..MaxRevision]
        /\ prepared' \in [Days -> 0..MaxRevision]
      BY <1>6 DEF PrepareDay, TypeOK
  <2>3. /\ claim' \in [Passages -> Batches \cup {NoBatch}]
        /\ failures' \in [Passages -> Nat]
      BY <1>6 DEF PrepareDay, TypeOK
  <2> QED BY <1>6, <2>1, <2>2, <2>3 DEF PrepareDay, TypeOK, source, receipts,
                                        provider, passes
<1>7. ASSUME NEW p \in Passages, Ripen(p) PROVE TypeOK'
    BY <1>7 DEF Ripen, TypeOK, source, days, receipts, provider, passes
<1> QED BY <1>1, <1>2, <1>3, <1>4, <1>5, <1>6, <1>7 DEF Archive, PrepareAll

\* The types of what a pass keeps to itself.
PassTypes == /\ lock \in Workers \cup {NoWorker}
             /\ pc \in [Workers -> Steps]
             /\ todo \in [Workers -> [Batches -> Plans]]
             /\ cur \in [Workers -> Batches \cup {NoBatch}]
             /\ counted \in [Workers -> BOOLEAN]
             /\ back \in [Workers -> {"reconcile", "idle"}]
             /\ unread \in [Workers -> SUBSET Passages]

\* A pass that ends leaves a well-typed frame.
LEMMA FinishTypes ==
    ASSUME TypeOK, NEW w \in Workers, Finish(w) PROVE PassTypes'
<1>1. todo' \in [Workers -> [Batches -> Plans]]
    BY DEF Finish, TypeOK, NothingToDo, Plans
<1> QED BY <1>1 DEF Finish, Goto, TypeOK, PassTypes, Steps

\* The first half of a pass.
LEMMA ReconcilingTypeOK ==
    ASSUME TypeOK, NEW w \in Workers, Reconciling(w) PROVE TypeOK'
<1> USE ConstantsAssumption
<1>1. CASE StartPass(w)
  <2>1. todo' \in [Workers -> [Batches -> Plans]]
      BY <1>1 DEF StartPass, TypeOK, Plans
  <2> QED BY <1>1, <2>1 DEF StartPass, Goto, TypeOK, source, days, passages,
                            receipts, provider, Steps
<1>2. ASSUME NEW b \in Batches, ReturnClaims(w, b) PROVE TypeOK'
  <2>1. todo' \in [Workers -> [Batches -> Plans]]
      BY <1>2 DEF ReturnClaims, Visited, TypeOK, Plans
  <2> QED BY <1>2, <2>1 DEF ReturnClaims, Goto, TypeOK, source, days, passages,
                            receipts, provider, Steps
<1>3. ASSUME NEW b \in Batches, NotListed(w, b) PROVE TypeOK'
  <2>1. todo' \in [Workers -> [Batches -> Plans]]
      BY <1>3 DEF NotListed, Visited, TypeOK, Plans
  <2> QED BY <1>3, <2>1 DEF NotListed, TypeOK, source, days, passages,
                            receipts, provider
<1>4. ASSUME NEW b \in Batches, Reconcile(w, b) PROVE TypeOK'
  <2>1. todo' \in [Workers -> [Batches -> Plans]]
      BY <1>4 DEF Reconcile, Visited, TypeOK, Plans
  <2>2. status' \in [Batches -> Statuses]
      BY <1>4 DEF Reconcile, TypeOK, Jobs, Ended, Statuses, Settled, Final, Open
  <2>3. /\ pc' \in [Workers -> Steps]
        /\ cur' \in [Workers -> Batches \cup {NoBatch}]
        /\ back' \in [Workers -> {"reconcile", "idle"}]
      BY <1>4 DEF Reconcile, Goto, TypeOK, Steps
  <2>4. /\ unread' \in [Workers -> SUBSET Passages]
        /\ counted' \in [Workers -> BOOLEAN]
      BY <1>4 DEF Reconcile, TypeOK
  <2> QED BY <1>4, <2>1, <2>2, <2>3, <2>4
          DEF Reconcile, TypeOK, source, days, passages, provider
<1>5. CASE ReleaseClaims(w)
    BY <1>5 DEF ReleaseClaims, Goto, TypeOK, source, days, receipts, provider,
                Steps
<1>6. CASE CloseFailed(w)
  <2>1. status' \in [Batches -> Statuses]
      BY <1>6 DEF CloseFailed, TypeOK, Statuses, Settled, Final
  <2>2. PassTypes'
    <3>1. CASE Finish(w)
        BY <3>1, FinishTypes
    <3>2. CASE ~Finish(w)
        BY <1>6, <3>2 DEF CloseFailed, Goto, TypeOK, PassTypes, Steps
    <3> QED BY <3>1, <3>2
  <2> QED BY <1>6, <2>1, <2>2
          DEF CloseFailed, TypeOK, PassTypes, source, days, passages, provider
<1>7. CASE ImportVectors(w)
  <2>1. PICK S \in SUBSET unread[w] :
               /\ unread' = [unread EXCEPT ![w] = @ \ S]
               /\ embedded' = embedded \cup
                      {p \in S \cap rows : claim[p] = cur[w] /\ Current(p)}
      BY <1>7 DEF ImportVectors
  <2>2. unread' \in [Workers -> SUBSET Passages]
      BY <2>1 DEF TypeOK
  <2>3. embedded' \subseteq rows
      BY <2>1 DEF TypeOK
  <2> QED BY <1>7, <2>2, <2>3 DEF ImportVectors, TypeOK, source, days, receipts,
                            provider
<1>8. CASE ReleaseMissing(w)
    BY <1>8 DEF ReleaseMissing, Goto, TypeOK, source, days, receipts, provider,
                Steps
<1>9. CASE WriteReceipt(w)
    BY <1>9 DEF WriteReceipt, Goto, TypeOK, source, days, passages, provider,
                Steps, Statuses, Settled, Final
<1>10. CASE EndReconcile(w)
  <2>1. PassTypes'
    <3>1. CASE Finish(w)
        BY <3>1, FinishTypes
    <3>2. CASE ~Finish(w)
        BY <1>10, <3>2 DEF EndReconcile, Goto, TypeOK, PassTypes, Steps
    <3> QED BY <3>1, <3>2
  <2> QED BY <1>10, <2>1
          DEF EndReconcile, TypeOK, PassTypes, source, days, passages, receipts,
              provider
<1> QED BY <1>1, <1>2, <1>3, <1>4, <1>5, <1>6, <1>7, <1>8, <1>9, <1>10
        DEF Reconciling

\* A pass in the middle of a batch has one at hand: without it, a create
\* request could be sent for no receipt.
AtHand == \A w \in Workers :
    pc[w] \notin {"idle", "reconcile", "prepare", "claim"} => cur[w] \in Batches

\* The second half of a pass.
LEMMA SubmittingTypeOK ==
    ASSUME TypeOK, AtHand, NEW w \in Workers, Submitting(w) PROVE TypeOK'
<1> USE ConstantsAssumption
<1>1. CASE PassPrepares(w)
    BY <1>1, ArchiveTypeOK DEF PassPrepares, Archive, PrepareAll
<1>2. CASE EndPrepare(w)
    BY <1>2 DEF EndPrepare, Goto, TypeOK, source, days, passages, receipts,
                provider, Steps
<1>3. ASSUME NEW b \in Batches, ClaimBatch(w, b) PROVE TypeOK'
  <2>1. Selected \subseteq Passages
      BY DEF Selected, Claimable, TypeOK
  <2> QED BY <1>3, <2>1, SMTT(30) DEF ClaimBatch, Goto, TypeOK, source, days, provider,
                            Steps, Statuses, Open
<1>4. CASE EndPass(w)
    BY <1>4, FinishTypes DEF EndPass, TypeOK, PassTypes, source, days, passages,
                             receipts, provider
<1>5. CASE CheckSources(w)
    BY <1>5, ZenonT(40) DEF CheckSources, Goto, TypeOK, source, days, passages, receipts,
                provider, Steps
<1>6. CASE Upload(w)
    BY <1>6, ZenonT(40) DEF Upload, Goto, TypeOK, source, days, passages, provider, Steps,
                Statuses, Open
<1>7. CASE SendCreate(w)
    BY <1>7, ZenonT(40) DEF SendCreate, Goto, TypeOK, AtHand, source, days, passages,
                receipts, Steps
<1>8. CASE Created(w)
    BY <1>8, ZenonT(40) DEF Created, Goto, AtHand, TypeOK, source, days, passages, provider, Steps,
                Statuses, Open
<1> QED BY <1>1, <1>2, <1>3, <1>4, <1>5, <1>6, <1>7, <1>8 DEF Submitting

\* A crash, a lost lock or a refused request is well-typed.
LEMMA DisturbanceTypeOK ==
    ASSUME TypeOK, NEW w \in Workers, Disturbance(w) PROVE TypeOK'
<1> USE ConstantsAssumption
<1>1. CASE Die(w)
    BY <1>1, FinishTypes DEF Die, TypeOK, PassTypes, source, days, passages,
                             receipts, provider
<1>2. CASE LoseLock(w)
    BY <1>2 DEF LoseLock, TypeOK, source, days, passages, receipts, provider,
                passes
<1>3. CASE SubmitRejected(w)
    BY <1>3 DEF SubmitRejected, Refused, Goto, TypeOK, source, days, passages,
                receipts, Steps
<1>4. CASE SubmitBlocked(w)
    BY <1>4, FinishTypes DEF SubmitBlocked, Refused, TypeOK, PassTypes, source,
                             days, passages, Statuses, Settled
<1>5. CASE SubmitUncertain(w)
    BY <1>5, FinishTypes DEF SubmitUncertain, TypeOK, PassTypes, source, days,
                             passages, provider, Statuses, Open
<1> QED BY <1>1, <1>2, <1>3, <1>4, <1>5 DEF Disturbance

\* The provider only ever decides about receipts of this archive.
LEMMA ProviderTypeOK == TypeOK /\ Provider => TypeOK'
<1> SUFFICES ASSUME TypeOK, NEW b \in Batches,
                    \/ AcceptCreate(b) \/ LoseCreate(b) \/ GarbleOutput(b)
                    \/ \E o \in Ended \cup {"failed"} : EndJob(b, o)
             PROVE  TypeOK'
    BY DEF Provider
<1>1. CASE AcceptCreate(b)
    BY <1>1 DEF AcceptCreate, TypeOK, source, days, passages, receipts, passes,
                Jobs
<1>2. CASE LoseCreate(b)
    BY <1>2 DEF LoseCreate, TypeOK, source, days, passages, receipts, passes
<1>3. ASSUME NEW o \in Ended \cup {"failed"}, EndJob(b, o) PROVE TypeOK'
  <2>1. good' \in [Batches -> SUBSET Passages]
      BY <1>3 DEF EndJob, TypeOK
  <2> QED BY <1>3, <2>1 DEF EndJob, TypeOK, source, days, passages, receipts,
                            passes, Jobs
<1>4. CASE GarbleOutput(b)
    BY <1>4 DEF GarbleOutput, TypeOK, source, days, passages, receipts, passes
<1> QED BY <1>1, <1>2, <1>3, <1>4

\* TypeOK is inductive together with AtHand.
LEMMA NextTypeOK == TypeOK /\ AtHand /\ [Next]_vars => TypeOK'
<1>1. TypeOK /\ AtHand /\ Next => TypeOK'
    BY ArchiveTypeOK, ReconcilingTypeOK, SubmittingTypeOK, DisturbanceTypeOK,
       ProviderTypeOK DEF Next
<1>2. TypeOK /\ UNCHANGED vars => TypeOK'
    BY DEF TypeOK, vars, source, days, passages, receipts, provider, passes
<1> QED BY <1>1, <1>2

\* A pass only moves its own frame.
LEMMA NextAtHand == TypeOK /\ AtHand /\ [Next]_vars => AtHand'
<1> SUFFICES ASSUME TypeOK, AtHand, [Next]_vars PROVE AtHand'
    OBVIOUS
<1>0. /\ pc \in [Workers -> Steps]
      /\ cur \in [Workers -> Batches \cup {NoBatch}]
      /\ job \in [Batches -> Jobs]
    BY DEF TypeOK
<1>1. ASSUME UNCHANGED passes PROVE AtHand'
    BY <1>1 DEF AtHand, passes
<1>2. CASE Archive
    BY <1>1, <1>2 DEF Archive, EditDay, RenameChat, SetIndexing, SetActive,
                      SeedDays, PrepareAll, Ripen
<1>3. CASE Provider
    BY <1>1, <1>3 DEF Provider, AcceptCreate, LoseCreate, EndJob, GarbleOutput
<1>4. ASSUME NEW w \in Workers, Finish(w) PROVE AtHand'
    BY <1>0, <1>4 DEF Finish, Goto, AtHand
<1>5. ASSUME NEW w \in Workers, Reconciling(w) PROVE AtHand'
  <2>1. ASSUME NEW b \in Batches,
               ReturnClaims(w, b) \/ NotListed(w, b) \/ Reconcile(w, b)
        PROVE  AtHand'
      BY <1>0, <2>1, SMTT(30) DEF ReturnClaims, NotListed, Reconcile, Goto, AtHand,
                                  Jobs, Ended
  <2>2. CASE CloseFailed(w) \/ EndReconcile(w)
    <3>1. CASE pc' = [pc EXCEPT ![w] = "prepare"] /\ UNCHANGED cur
        BY <1>0, <3>1 DEF AtHand
    <3>2. CASE pc' = [pc EXCEPT ![w] = "reconcile"]
               /\ cur' = [cur EXCEPT ![w] = NoBatch]
        BY <1>0, <3>2 DEF AtHand
    <3> QED BY <1>4, <2>2, <3>1, <3>2 DEF CloseFailed, EndReconcile, Goto
  <2>3. CASE StartPass(w) \/ WriteReceipt(w)
      BY <1>0, <2>3, SMTT(30) DEF StartPass, WriteReceipt, Goto, AtHand
  <2>4. CASE ReleaseClaims(w) \/ ImportVectors(w) \/ ReleaseMissing(w)
      BY <1>0, <2>4, SMTT(30) DEF ReleaseClaims, ImportVectors, ReleaseMissing, Goto,
                                  AtHand
  <2> QED BY <1>5, <2>1, <2>2, <2>3, <2>4 DEF Reconciling
<1>6. ASSUME NEW w \in Workers, Submitting(w) PROVE AtHand'
  <2>1. ASSUME NEW b \in Batches, ClaimBatch(w, b) PROVE AtHand'
      BY <1>0, <2>1, SMTT(30) DEF ClaimBatch, Goto, AtHand
  <2>2. CASE EndPass(w)
      BY <1>4, <2>2 DEF EndPass
  <2>3. CASE PassPrepares(w)
      BY <1>1, <2>3 DEF PassPrepares
  <2>4. CASE EndPrepare(w) \/ CheckSources(w) \/ Upload(w)
      BY <1>0, <2>4, SMTT(30) DEF EndPrepare, CheckSources, Upload, Goto, AtHand
  <2>5. CASE SendCreate(w) \/ Created(w)
      BY <1>0, <2>5, SMTT(30) DEF SendCreate, Created, Goto, AtHand
  <2> QED BY <1>6, <2>1, <2>2, <2>3, <2>4, <2>5 DEF Submitting
<1>7. ASSUME NEW w \in Workers, Disturbance(w) PROVE AtHand'
    BY <1>0, <1>1, <1>4, <1>7, SMTT(30) DEF Disturbance, Die, LoseLock, SubmitRejected,
       SubmitBlocked, SubmitUncertain, Refused, Goto, AtHand, passes
<1>8. CASE UNCHANGED vars
    BY <1>1, <1>8 DEF vars
<1> QED BY <1>2, <1>3, <1>5, <1>6, <1>7, <1>8 DEF Next

\* Every pass starts idle.
LEMMA InitAtHand == Init => AtHand
BY DEF Init, AtHand

\* Type correctness, for every instance.
THEOREM TypeInvariance == Spec => [](TypeOK /\ AtHand)
<1>1. TypeOK /\ AtHand /\ [Next]_vars => (TypeOK /\ AtHand)'
    BY NextTypeOK, NextAtHand
<1> QED BY InitTypeOK, InitAtHand, <1>1, PTL DEF Spec

-----------------------------------------------------------------------------
(* What is searchable is current.                                          *)

\* A row carries a revision that its day has reached, and the rows of the
\* day's current revision are passages of the current source.  A rename of a
\* deselected chat counts no revision, so the second part holds for selected
\* chats only; selecting the chat again counts one.
SourceInv ==
    /\ \A d \in Days : prepared[d] <= revision[d]
    /\ \A p \in rows : 0 < rowRev[p] /\ rowRev[p] <= revision[DayOf[p]]
    /\ \A p \in rows : enabled[ChatOf[DayOf[p]]] /\ rowRev[p] = revision[DayOf[p]]
                           => p \in content

\* There are no rows at the start.
LEMMA InitSourceInv == Init => SourceInv
BY ConstantsAssumption DEF Init, SourceInv

\* Every change of the source counts a revision of its days, and a
\* preparation stores what the current source yields.
LEMMA ArchiveSourceInv == TypeOK /\ SourceInv /\ Archive => SourceInv'
<1> SUFFICES ASSUME TypeOK, SourceInv, Archive PROVE SourceInv'
    OBVIOUS
<1> USE ConstantsAssumption
<1>0. rows \subseteq Passages
    BY DEF TypeOK
<1>1. ASSUME NEW d \in Days, EditDay(d) PROVE SourceInv'
    BY <1>0, <1>1 DEF EditDay, Mark, PassagesOf, SourceInv, TypeOK, passages
<1>2. ASSUME NEW c \in Chats, RenameChat(c) PROVE SourceInv'
  <2>1. UNCHANGED <<enabled, prepared, rows, rowRev>>
      BY <1>2 DEF RenameChat, passages
  <2>2. ASSUME NEW p \in rows, DayOf[p] \notin DaysOf(c)
        PROVE  p \in content <=> p \in content'
      BY <1>0, <1>2, <2>2 DEF RenameChat, PassagesOf
  <2>3. ASSUME NEW p \in rows, ChatOf[DayOf[p]] = c
        PROVE  DayOf[p] \in DaysOf(c)
      BY <1>0, <2>3 DEF DaysOf, Stored, SourceInv, TypeOK
  <2>4. ASSUME NEW d \in Days
        PROVE revision'[d] = IF enabled[c] /\ d \in DaysOf(c) THEN revision[d] + 1
                                                              ELSE revision[d]
      BY <1>2, <2>4 DEF RenameChat, Mark
  <2>5. ASSUME NEW d \in DaysOf(c) PROVE d \in Days /\ ChatOf[d] = c
      BY <2>5 DEF DaysOf
  <2>6. ASSUME NEW p \in rows, enabled[ChatOf[DayOf[p]]],
               rowRev[p] = revision'[DayOf[p]]
        PROVE  p \in content'
    <3>1. DayOf[p] \in Days /\ rowRev[p] <= revision[DayOf[p]]
        BY <1>0 DEF SourceInv
    <3>2. DayOf[p] \notin DaysOf(c)
        BY <2>4, <2>5, <2>6, <3>1 DEF TypeOK
    <3> QED BY <2>2, <2>4, <2>6, <3>1, <3>2 DEF SourceInv
  <2>7. ASSUME NEW d \in Days
        PROVE  /\ revision[d] \in Nat /\ revision'[d] \in Nat /\ prepared[d] \in Nat
               /\ revision[d] <= revision'[d]
    <3>1. revision[d] \in Nat /\ prepared[d] \in Nat
        BY DEF TypeOK
    <3> QED BY <2>4, <3>1
  <2>8. \A d \in Days : prepared[d] <= revision'[d]
      BY <2>7 DEF SourceInv
  <2>9. \A p \in rows : rowRev[p] <= revision'[DayOf[p]]
    <3>1. \A p \in rows : DayOf[p] \in Days /\ rowRev[p] \in Nat
        BY <1>0 DEF TypeOK
    <3> QED BY <2>7, <3>1 DEF SourceInv
  <2> QED BY <2>1, <2>6, <2>8, <2>9 DEF SourceInv
<1>3. ASSUME NEW c \in Chats, NEW on \in BOOLEAN, SetIndexing(c, on)
      PROVE SourceInv'
  <2>1. UNCHANGED <<content, prepared, rows, rowRev>>
      BY <1>3 DEF SetIndexing, passages
  <2>2. ASSUME NEW p \in rows, ChatOf[DayOf[p]] = c PROVE DayOf[p] \in DaysOf(c)
      BY <1>0, <2>2 DEF DaysOf, Stored, SourceInv, TypeOK
  <2>3. ASSUME NEW d \in Days
        PROVE revision'[d] = IF on /\ d \in DaysOf(c) THEN revision[d] + 1
                                                      ELSE revision[d]
      BY <1>3, <2>3 DEF SetIndexing, Mark
  <2>4. enabled' = [enabled EXCEPT ![c] = on]
      BY <1>3 DEF SetIndexing
  <2> QED BY <1>0, <2>1, <2>2, <2>3, <2>4 DEF SourceInv, TypeOK
<1>4. ASSUME NEW u \in Users, NEW on \in BOOLEAN, SetActive(u, on)
      PROVE SourceInv'
    BY <1>4 DEF SetActive, SourceInv, days, passages
<1>5. CASE SeedDays
    BY <1>0, <1>5 DEF SeedDays, Mark, SourceInv, TypeOK, source, passages
<1>6. ASSUME NEW d \in Days, PrepareDay(d) PROVE SourceInv'
    BY <1>0, <1>6 DEF PrepareDay, PassagesOf, SourceInv, TypeOK, source
<1>7. ASSUME NEW p \in Passages, Ripen(p) PROVE SourceInv'
    BY <1>7 DEF Ripen, SourceInv, source, days
<1> QED BY <1>1, <1>2, <1>3, <1>4, <1>5, <1>6, <1>7 DEF Archive, PrepareAll

\* A pass changes neither the source, nor the days, nor the revision of a row,
\* and takes no vector away, except when it prepares a day.
LEMMA WorkKeepsSource ==
    ASSUME NEW w \in Workers,
           \/ Reconciling(w) \/ Disturbance(w)
           \/ Submitting(w) /\ ~PassPrepares(w)
    PROVE  /\ UNCHANGED <<source, days, rows, rowRev>>
           /\ embedded \subseteq embedded'
<1>1. CASE Reconciling(w)
    BY <1>1 DEF Reconciling, StartPass, ReturnClaims, NotListed, Reconcile,
       ReleaseClaims, CloseFailed, ImportVectors, ReleaseMissing, WriteReceipt,
       EndReconcile, passages
<1>2. CASE Submitting(w) /\ ~PassPrepares(w)
    BY <1>2 DEF Submitting, EndPrepare, ClaimBatch, EndPass, CheckSources,
       Upload, SendCreate, Created, passages
<1>3. CASE Disturbance(w)
    BY <1>3 DEF Disturbance, Die, LoseLock, SubmitRejected, SubmitBlocked,
       SubmitUncertain, passages
<1> QED BY <1>1, <1>2, <1>3

\* SourceInv is inductive.
LEMMA NextSourceInv == TypeOK /\ SourceInv /\ [Next]_vars => SourceInv'
<1> SUFFICES ASSUME TypeOK, SourceInv, [Next]_vars PROVE SourceInv'
    OBVIOUS
<1>1. ASSUME UNCHANGED <<source, days, rows, rowRev>> PROVE SourceInv'
    BY <1>1 DEF SourceInv, source, days
<1>2. CASE Archive
    BY <1>2, ArchiveSourceInv
<1>3. ASSUME NEW w \in Workers, Reconciling(w) \/ Submitting(w) \/ Disturbance(w)
      PROVE  SourceInv'
  <2>1. CASE PassPrepares(w)
      BY <2>1, ArchiveSourceInv DEF PassPrepares, Archive, PrepareAll
  <2>2. CASE ~PassPrepares(w)
      BY <1>1, <1>3, <2>2, WorkKeepsSource
  <2> QED BY <2>1, <2>2
<1>4. CASE Provider
    BY <1>1, <1>4 DEF Provider, AcceptCreate, LoseCreate, EndJob, GarbleOutput,
                      passages
<1>5. CASE UNCHANGED vars
    BY <1>1, <1>5 DEF vars, passages
<1> QED BY <1>2, <1>3, <1>4, <1>5 DEF Next

\* The search's conditions on revisions and access are enough.
LEMMA SourceInvIsEnough == TypeOK /\ SourceInv => NoStaleRetrieval
BY ConstantsAssumption
   DEF TypeOK, SourceInv, NoStaleRetrieval, Retrievable, Current, Access

\* No edit, rename, reselection, crash, late or repeated import and no overlap
\* of passes makes search return a passage that is not current.
THEOREM RetrievalIsCurrent == Spec => []NoStaleRetrieval
<1>1. TypeOK /\ AtHand /\ SourceInv /\ [Next]_vars
          => (TypeOK /\ AtHand /\ SourceInv)'
    BY NextTypeOK, NextAtHand, NextSourceInv
<1>2. Init => TypeOK /\ AtHand /\ SourceInv
    BY InitTypeOK, InitAtHand, InitSourceInv
<1>3. TypeOK /\ AtHand /\ SourceInv => NoStaleRetrieval
    BY SourceInvIsEnough
<1> QED BY <1>1, <1>2, <1>3, PTL DEF Spec

-----------------------------------------------------------------------------
(* The index implements MemoryIndex.                                       *)

OpenDays == {d \in Days : Access(d)}

\* The index starts empty.
LEMMA IndexInit == Init => Index!Init
<1> SUFFICES ASSUME Init PROVE Index!Init
    OBVIOUS
<1>1. Retrievable = {} /\ content \in SUBSET Passages
    BY DEF Init, Retrievable
<1> QED BY <1>1 DEF Index!Init

\* A step that only adds current passages to what is visible is a Publish.
LEMMA PublishOrStutter ==
    ASSUME TypeOK', SourceInv', UNCHANGED source, Retrievable \subseteq Retrievable'
    PROVE  Index!Publish
<1>1. UNCHANGED <<content, OpenDays>>
    BY DEF source, OpenDays, Access
<1>2. Retrievable' \subseteq content' \cap {p \in Passages : DayOf[p] \in OpenDays'}
    BY ConstantsAssumption
       DEF TypeOK, SourceInv, Retrievable, Current, Access, OpenDays
<1> QED BY <1>1, <1>2 DEF Index!Publish, Index!PassagesOf, OpenDays

\* A step that leaves the days and the rows alone hides nothing.
LEMMA WorkPublishes ==
    ASSUME TypeOK', SourceInv', UNCHANGED <<source, days, rows, rowRev>>,
           embedded \subseteq embedded'
    PROVE  Index!Publish
<1>1. Retrievable \subseteq Retrievable'
    BY DEF Retrievable, Current, Access, source, days
<1> QED BY <1>1, PublishOrStutter DEF source

\* Every action of the archive is one of the index, or publishes.
LEMMA ArchiveImplements ==
    ASSUME TypeOK, SourceInv, TypeOK', SourceInv', Archive
    PROVE  Index!Next \/ UNCHANGED Index!vars
<1> USE ConstantsAssumption
<1>1. ASSUME NEW d \in Days, EditDay(d) PROVE Index!Change({d})
  <2>1. content' \ PassagesOf({d}) = content \ PassagesOf({d})
      BY <1>1 DEF EditDay
  <2>2. OpenDays' = OpenDays
      BY <1>1 DEF EditDay, OpenDays, Access
  <2>3. Retrievable' = Retrievable \ PassagesOf({d})
    <3>1. revision' = [x \in Days |-> IF x \in {d} THEN revision[x] + 1
                                                    ELSE revision[x]]
        BY <1>1 DEF EditDay, Mark
    <3>2. UNCHANGED <<active, enabled, prepared, rows, rowRev, embedded>>
        BY <1>1 DEF EditDay, passages
    <3>3. ASSUME NEW p \in rows, DayOf[p] \notin {d}
          PROVE  Current(p)' <=> Current(p)
        BY <3>1, <3>2, <3>3 DEF Current, Access, TypeOK
    <3>4. ASSUME NEW p \in rows, DayOf[p] \in {d} PROVE ~Current(p)'
        BY <3>1, <3>2, <3>4 DEF Current, TypeOK, SourceInv
    <3> QED BY <3>2, <3>3, <3>4 DEF Retrievable, PassagesOf, TypeOK
  <2> QED BY <2>1, <2>2, <2>3 DEF Index!Change, Index!PassagesOf, PassagesOf,
                                  OpenDays, TypeOK
<1>2. ASSUME NEW c \in Chats, RenameChat(c), enabled[c]
      PROVE  Index!Change(DaysOf(c))
  <2>1. content' \ PassagesOf(DaysOf(c)) = content \ PassagesOf(DaysOf(c))
      BY <1>2 DEF RenameChat
  <2>2. OpenDays' = OpenDays
      BY <1>2 DEF RenameChat, OpenDays, Access
  <2>3. Retrievable' = Retrievable \ PassagesOf(DaysOf(c))
    <3>1. revision' = [x \in Days |-> IF x \in DaysOf(c) THEN revision[x] + 1
                                                          ELSE revision[x]]
        BY <1>2 DEF RenameChat, Mark
    <3>2. UNCHANGED <<active, enabled, prepared, rows, rowRev, embedded>>
        BY <1>2 DEF RenameChat, passages
    <3>3. ASSUME NEW p \in rows, DayOf[p] \notin DaysOf(c)
          PROVE  Current(p)' <=> Current(p)
        BY <3>1, <3>2, <3>3 DEF Current, Access, TypeOK
    <3>4. ASSUME NEW p \in rows, DayOf[p] \in DaysOf(c) PROVE ~Current(p)'
        BY <3>1, <3>2, <3>4 DEF Current, TypeOK, SourceInv
    <3> QED BY <3>2, <3>3, <3>4 DEF Retrievable, PassagesOf, TypeOK
  <2> QED BY <2>1, <2>2, <2>3 DEF Index!Change, Index!PassagesOf, PassagesOf,
                                  OpenDays, TypeOK
<1>3. ASSUME NEW c \in Chats, RenameChat(c), ~enabled[c]
      PROVE  Index!ChangeClosed
  <2>1. UNCHANGED <<active, enabled, days, passages>>
      BY <1>3 DEF RenameChat, Mark, TypeOK, days
  <2>2. OpenDays' = OpenDays /\ Retrievable' = Retrievable
      BY <2>1 DEF OpenDays, Access, Retrievable, Current, days, passages
  <2>3. \A p \in Passages : DayOf[p] \in OpenDays => (p \in content' <=> p \in content)
      BY <1>3 DEF RenameChat, PassagesOf, DaysOf, OpenDays, Access
  <2> QED BY <2>2, <2>3 DEF Index!ChangeClosed, Index!PassagesOf, OpenDays, TypeOK
<1>4. ASSUME NEW c \in Chats, SetIndexing(c, TRUE)
      PROVE  Index!Change({d \in Days : ChatOf[d] = c})
  <2> DEFINE D == {d \in Days : ChatOf[d] = c}
  <2>1. /\ UNCHANGED <<active, content, prepared, passages>>
        /\ ~enabled[c] /\ enabled' = [enabled EXCEPT ![c] = TRUE]
      BY <1>4 DEF SetIndexing, TypeOK
  <2>2. /\ OpenDays \subseteq OpenDays'
        /\ OpenDays' \ D = OpenDays \ D
      BY <2>1 DEF OpenDays, Access, TypeOK
  <2>3. revision' = [x \in Days |-> IF x \in DaysOf(c) THEN revision[x] + 1
                                                        ELSE revision[x]]
      BY <1>4 DEF SetIndexing, Mark
  <2>4. ASSUME NEW p \in rows, DayOf[p] \in D
        PROVE  DayOf[p] \in DaysOf(c) /\ rowRev[p] # revision'[DayOf[p]]
      BY <2>3, <2>4 DEF DaysOf, Stored, SourceInv, TypeOK
  <2>5. ASSUME NEW p \in rows, DayOf[p] \notin D PROVE Current(p)' <=> Current(p)
      BY <2>1, <2>3, <2>5 DEF Current, Access, DaysOf, TypeOK, passages
  <2>6. ASSUME NEW p \in rows, DayOf[p] \in D PROVE ~Current(p)'
      BY <2>1, <2>4, <2>6 DEF Current, passages
  <2>7. Retrievable' = Retrievable \ PassagesOf(D)
      BY <2>1, <2>5, <2>6 DEF Retrievable, PassagesOf, passages, TypeOK
  <2> QED BY <2>1, <2>2, <2>7 DEF Index!Change, Index!PassagesOf, PassagesOf,
                                  OpenDays, TypeOK
<1>5. ASSUME NEW c \in Chats, SetIndexing(c, FALSE)
      PROVE  Index!Revoke({d \in Days : ChatOf[d] = c})
  <2>1. UNCHANGED <<active, content, days, passages>>
      BY <1>5 DEF SetIndexing, Mark, TypeOK, days
  <2>2. enabled' = [enabled EXCEPT ![c] = FALSE]
      BY <1>5 DEF SetIndexing
  <2> QED BY <2>1, <2>2 DEF Index!Revoke, Index!PassagesOf, Retrievable, Current,
                            Access, TypeOK, days, passages
<1>6. ASSUME NEW u \in Users, SetActive(u, TRUE)
      PROVE  Index!Restore({d \in Days : UserOf[ChatOf[d]] = u /\ enabled[ChatOf[d]]})
  <2>1. UNCHANGED <<enabled, content, days, passages>>
      BY <1>6 DEF SetActive
  <2>2. active' = [active EXCEPT ![u] = TRUE]
      BY <1>6 DEF SetActive
  <2>3. Retrievable \subseteq Retrievable'
      BY <2>1, <2>2 DEF Retrievable, Current, Access, TypeOK, days, passages
  <2>4. Retrievable' \subseteq content \cap {p \in Passages : DayOf[p] \in OpenDays'}
      BY <2>1 DEF SourceInv, Retrievable, Current, Access, OpenDays, TypeOK
  <2>5. OpenDays' = OpenDays \cup {d \in Days : UserOf[ChatOf[d]] = u
                                                /\ enabled[ChatOf[d]]}
      BY <2>1, <2>2 DEF OpenDays, Access, TypeOK
  <2> QED BY <2>1, <2>3, <2>4, <2>5 DEF Index!Restore, Index!PassagesOf, OpenDays
<1>7. ASSUME NEW u \in Users, SetActive(u, FALSE)
      PROVE  Index!Revoke({d \in Days : UserOf[ChatOf[d]] = u})
  <2>1. UNCHANGED <<enabled, content, days, passages>>
      BY <1>7 DEF SetActive
  <2>2. active' = [active EXCEPT ![u] = FALSE]
      BY <1>7 DEF SetActive
  <2> QED BY <2>1, <2>2 DEF Index!Revoke, Index!PassagesOf, Retrievable, Current,
                            Access, TypeOK, days, passages
<1>8. ASSUME SeedDays PROVE Index!Publish
  <2>1. revision' = [d \in Days |-> IF d \in {x \in Days : revision[x] = 0 /\ Stored(x)
                                                           /\ Access(x)}
                                    THEN revision[d] + 1 ELSE revision[d]]
      BY <1>8 DEF SeedDays, Mark
  <2>2. UNCHANGED <<source, prepared, passages>>
      BY <1>8 DEF SeedDays
  <2>3. \A p \in rows : revision'[DayOf[p]] = revision[DayOf[p]]
      BY <2>1 DEF SourceInv, TypeOK
  <2>4. Retrievable \subseteq Retrievable'
      BY <2>2, <2>3 DEF Retrievable, Current, Access, source, passages, TypeOK
  <2> QED BY <2>2, <2>4, PublishOrStutter
<1>9. ASSUME NEW d \in Days, PrepareDay(d) PROVE Index!Publish
  <2>1. \A p \in Retrievable : DayOf[p] # d
      BY <1>9 DEF PrepareDay, Retrievable, Current
  <2>2. Retrievable \subseteq Retrievable'
      BY <1>9, <2>1 DEF PrepareDay, Retrievable, Current, Access, PassagesOf,
                        source, TypeOK
  <2> QED BY <1>9, <2>2, PublishOrStutter DEF PrepareDay
<1>10. ASSUME NEW p \in Passages, Ripen(p) PROVE Index!Publish
    BY <1>10, WorkPublishes DEF Ripen, days
<1>11. ASSUME NEW D \in SUBSET Days,
              Index!Change(D) \/ Index!Revoke(D) \/ Index!Restore(D)
       PROVE  Index!Next
    BY <1>11 DEF Index!Next
<1>12. Index!ChangeClosed \/ Index!Publish => Index!Next
    BY DEF Index!Next
<1>13. CASE \E d \in Days : EditDay(d)
  <2>1. \A d \in Days : {d} \in SUBSET Days
      OBVIOUS
  <2> QED BY <1>1, <1>11, <1>13, <2>1
<1>14. CASE \E c \in Chats : RenameChat(c)
  <2>1. \A c \in Chats : DaysOf(c) \in SUBSET Days
      BY DEF DaysOf
  <2> QED BY <1>2, <1>3, <1>11, <1>12, <1>14, <2>1
<1>15. CASE \E c \in Chats, on \in BOOLEAN : SetIndexing(c, on)
  <2>1. PICK c \in Chats, on \in BOOLEAN : SetIndexing(c, on)
      BY <1>15
  <2>2. {d \in Days : ChatOf[d] = c} \in SUBSET Days
      OBVIOUS
  <2>3. CASE on = TRUE
      BY <1>4, <1>11, <2>1, <2>2, <2>3
  <2>4. CASE on = FALSE
      BY <1>5, <1>11, <2>1, <2>2, <2>4
  <2> QED BY <2>3, <2>4
<1>16. CASE \E u \in Users, on \in BOOLEAN : SetActive(u, on)
  <2>1. PICK u \in Users, on \in BOOLEAN : SetActive(u, on)
      BY <1>16
  <2>2. /\ {d \in Days : UserOf[ChatOf[d]] = u} \in SUBSET Days
        /\ {d \in Days : UserOf[ChatOf[d]] = u /\ enabled[ChatOf[d]]} \in SUBSET Days
      OBVIOUS
  <2>3. CASE on = TRUE
      BY <1>6, <1>11, <2>1, <2>2, <2>3
  <2>4. CASE on = FALSE
      BY <1>7, <1>11, <2>1, <2>2, <2>4
  <2> QED BY <2>3, <2>4
<1>17. CASE \/ SeedDays
            \/ PrepareAll
            \/ \E p \in Passages : Ripen(p)
    BY <1>8, <1>9, <1>10, <1>12, <1>17 DEF PrepareAll
<1> QED BY <1>13, <1>14, <1>15, <1>16, <1>17 DEF Archive

\* Every step of the index machinery is a step of the index it implements.
LEMMA StepImplements ==
    ASSUME TypeOK, SourceInv, TypeOK', SourceInv', [Next]_vars
    PROVE  [Index!Next]_(Index!vars)
<1>1. Index!Publish => Index!Next
    BY DEF Index!Next
<1>2. CASE Archive
    BY <1>2, ArchiveImplements
<1>3. ASSUME NEW w \in Workers, Reconciling(w) \/ Submitting(w) \/ Disturbance(w)
      PROVE  Index!Next \/ UNCHANGED Index!vars
  <2>1. CASE PassPrepares(w)
      BY <2>1, ArchiveImplements DEF PassPrepares, Archive, PrepareAll
  <2>2. CASE ~PassPrepares(w)
      BY <1>1, <1>3, <2>2, WorkKeepsSource, WorkPublishes
  <2> QED BY <2>1, <2>2
<1>4. CASE Provider
  <2>1. UNCHANGED <<source, days, rows, rowRev, embedded>>
      BY <1>4 DEF Provider, AcceptCreate, LoseCreate, EndJob, GarbleOutput,
                  passages
  <2> QED BY <1>1, <2>1, WorkPublishes
<1>5. CASE UNCHANGED vars
  <2>1. UNCHANGED <<source, days, rows, rowRev, embedded>>
      BY <1>5 DEF vars, passages
  <2> QED BY <1>1, <2>1, WorkPublishes
<1> QED BY <1>2, <1>3, <1>4, <1>5 DEF Next

\* The index implements its specification: a change of the source or of the
\* access reaches search in the same step, and only prepared days, imported
\* vectors and returning owners add to what search can see.
THEOREM IndexImplementsSpec == Spec => ImplementsIndex
<1>1. TypeOK /\ AtHand /\ SourceInv /\ [Next]_vars
          => (TypeOK /\ AtHand /\ SourceInv)'
    BY NextTypeOK, NextAtHand, NextSourceInv
<1>2. Init => TypeOK /\ AtHand /\ SourceInv
    BY InitTypeOK, InitAtHand, InitSourceInv
<1>3. TypeOK /\ SourceInv /\ (TypeOK /\ SourceInv)' /\ [Next]_vars
          => [Index!Next]_(Index!vars)
    BY StepImplements
<1> QED BY <1>1, <1>2, <1>3, IndexInit, PTL DEF Spec, ImplementsIndex, Index!Spec

-----------------------------------------------------------------------------
(* Receipts and claims.                                                       *)

\* What a pass relies on while others, whose lock it may have lost, go on: the
\* receipts it means to look at exist, and one that it is about to mark as
\* applied has no claim left without a vector.
FrameOK(w) ==
    /\ \A b \in Batches : todo[w][b] # "skip" => status[b] # "none"
    /\ cur[w] \in Batches => status[cur[w]] # "none"
    /\ pc[w] = "receipt" => \A p \in rows \ embedded : claim[p] # cur[w]

\* A deleted passage leaves no claim to the one that takes its place.
ClaimsCovered == /\ \A p \in Passages \ rows : claim[p] = NoBatch
                 /\ ReceiptsCoverClaims

ReceiptInv == ClaimsCovered /\ \A w \in Workers : FrameOK(w)

\* A step may create receipts and return claims; only a new receipt gets claims.
Advances ==
    /\ \A b \in Batches : status[b] # "none" => status'[b] # "none"
    /\ \A p \in rows' \ embedded' : claim'[p] \in Batches =>
           \/ p \in rows \ embedded /\ claim[p] = claim'[p]
           \/ status[claim'[p]] = "none"

OthersStay(w) == \A x \in Workers \ {w} :
    pc'[x] = pc[x] /\ cur'[x] = cur[x] /\ todo'[x] = todo[x]

LEMMA FramesStay ==
    ASSUME TypeOK, AtHand, TypeOK', NEW x \in Workers, FrameOK(x), Advances,
           pc'[x] = pc[x], cur'[x] = cur[x], todo'[x] = todo[x]
    PROVE  FrameOK(x)'
<1>1. \A b \in Batches : todo'[x][b] # "skip" => status'[b] # "none"
    BY DEF FrameOK, Advances
<1>2. cur'[x] \in Batches => status'[cur'[x]] # "none"
    BY DEF FrameOK, Advances
<1>3. ASSUME pc'[x] = "receipt", NEW p \in rows' \ embedded', claim'[p] = cur'[x] PROVE FALSE
  <2>1. cur[x] \in Batches
      BY <1>3 DEF AtHand
  <2> QED BY <1>3, <2>1 DEF FrameOK, Advances
<1> QED BY <1>1, <1>2, <1>3 DEF FrameOK

LEMMA ReceiptMoves ==
    ASSUME TypeOK, AtHand, TypeOK', ReceiptInv, NEW w \in Workers,
           OthersStay(w), Advances, FrameOK(w)', ClaimsCovered'
    PROVE  ReceiptInv'
    BY FramesStay DEF ReceiptInv, OthersStay

LEMMA NothingClaimed ==
    ASSUME TypeOK, AtHand, TypeOK', ReceiptInv, UNCHANGED <<pc, cur, todo>>, Advances, ClaimsCovered'
    PROVE  ReceiptInv'
    BY FramesStay DEF ReceiptInv

\* As long as neither the claims nor the rows change, receipts may change but
\* not become applied.
LEMMA ClaimsStay ==
    ASSUME TypeOK, ClaimsCovered, UNCHANGED <<rows, embedded, claim, items>>,
           \A b \in Batches : /\ status[b] # "none" => status'[b] # "none"
                              /\ status'[b] = "applied" => status[b] = "applied"
    PROVE  Advances /\ ClaimsCovered'
<1>1. Advances
    BY DEF Advances
<1>2. \A p \in Passages : claim[p] \in Batches \cup {NoBatch}
    BY DEF TypeOK
<1>3. rows \subseteq Passages
    BY DEF TypeOK
<1> QED BY <1>1, <1>2, <1>3 DEF ClaimsCovered, ReceiptsCoverClaims

LEMMA PrepareDayCovers ==
    ASSUME TypeOK, ClaimsCovered, NEW d \in Days, PrepareDay(d)
    PROVE  Advances /\ ClaimsCovered'
<1> DEFINE new == content \cap PassagesOf({d})
           gone == (rows \cap PassagesOf({d})) \ new
<1>1. /\ rows' = (rows \ gone) \cup new /\ embedded' = embedded \ gone
      /\ claim' = [p \in Passages |-> IF p \in gone THEN NoBatch ELSE claim[p]]
      /\ UNCHANGED <<status, items>>
    BY DEF PrepareDay, receipts
<1>2. rows \subseteq Passages /\ new \subseteq Passages /\ NoBatch \notin Batches
    BY ConstantsAssumption DEF TypeOK
<1> HIDE DEF new, gone
<1>3. Advances
    BY <1>1, <1>2 DEF Advances, ClaimsCovered
<1>4. \A p \in Passages \ rows' : claim'[p] = NoBatch
    BY <1>1, <1>2 DEF ClaimsCovered
<1>5. ReceiptsCoverClaims'
    BY <1>1, <1>2 DEF ClaimsCovered, ReceiptsCoverClaims
<1> QED BY <1>3, <1>4, <1>5 DEF ClaimsCovered

LEMMA ArchiveReceipts == ASSUME TypeOK, AtHand, ReceiptInv, Archive PROVE ReceiptInv'
<1>0. TypeOK'
    BY ArchiveTypeOK
<1>1. CASE UNCHANGED <<rows, embedded, claim, items, status, pc, cur, todo>>
  <2>1. Advances /\ ClaimsCovered'
      BY <1>1, ClaimsStay DEF ReceiptInv
  <2> QED BY <2>1, <1>0, <1>1, NothingClaimed
<1>2. ASSUME NEW d \in Days, PrepareDay(d), UNCHANGED passes PROVE ReceiptInv'
  <2>1. Advances /\ ClaimsCovered'
      BY <1>2, PrepareDayCovers DEF ReceiptInv
  <2> QED BY <2>1, <1>0, <1>2, NothingClaimed DEF passes
<1> QED BY <1>1, <1>2 DEF Archive, EditDay, RenameChat, SetIndexing, SetActive, SeedDays,
        PrepareAll, Ripen, passages, receipts, passes

LEMMA ProviderReceipts == ASSUME TypeOK, AtHand, ReceiptInv, Provider PROVE ReceiptInv'
<1>1. UNCHANGED <<rows, embedded, claim, items, status, pc, cur, todo>>
    BY DEF Provider, AcceptCreate, LoseCreate, EndJob, GarbleOutput, passages, receipts, passes
<1>2. Advances /\ ClaimsCovered'
    BY <1>1, ClaimsStay DEF ReceiptInv
<1> QED BY <1>1, <1>2, ProviderTypeOK, NothingClaimed

\* A pass that ends takes nothing with it.
LEMMA FinishFrame ==
    ASSUME TypeOK, AtHand, NEW w \in Workers, Finish(w)
    PROVE  OthersStay(w) /\ FrameOK(w)' /\ pc'[w] = "idle" /\ cur'[w] = NoBatch
           /\ todo'[w] = NothingToDo
<1>1. OthersStay(w) /\ pc'[w] = "idle" /\ cur'[w] = NoBatch /\ todo'[w] = NothingToDo
    BY DEF Finish, Goto, OthersStay, TypeOK
<1>2. FrameOK(w)'
    BY <1>1, ConstantsAssumption DEF FrameOK, NothingToDo
<1> QED BY <1>1, <1>2

LEMMA StartPassReceipts ==
    ASSUME TypeOK, AtHand, TypeOK', ReceiptInv, NEW w \in Workers, StartPass(w) PROVE ReceiptInv'
<1>1. UNCHANGED <<rows, embedded, claim, items, status, cur>> /\ pc' = [pc EXCEPT ![w] = "reconcile"]
    BY DEF StartPass, Goto, passages, receipts
<1>2. Advances /\ ClaimsCovered'
    BY <1>1, ClaimsStay DEF ReceiptInv
<1>3. OthersStay(w) /\ pc'[w] = "reconcile"
    BY <1>1 DEF StartPass, OthersStay, TypeOK
<1>4. \A b \in Batches : todo'[w][b] # "skip" => status[b] # "none"
    BY DEF StartPass, TypeOK, Open
<1>5. FrameOK(w)'
    BY <1>1, <1>3, <1>4 DEF FrameOK, ReceiptInv
<1> QED BY <1>2, <1>3, <1>5, ReceiptMoves

LEMMA VisitReceipts ==
    ASSUME TypeOK, AtHand, TypeOK', ReceiptInv, NEW w \in Workers, NEW b \in Batches,
           ReturnClaims(w, b) \/ NotListed(w, b) \/ Reconcile(w, b)
    PROVE  ReceiptInv'
<1>1. /\ UNCHANGED <<rows, embedded, claim, items>>
      /\ pc[w] = "reconcile" /\ todo[w][b] # "skip" /\ Visited(w, b)
      /\ (cur' = [cur EXCEPT ![w] = b] \/ cur' = [cur EXCEPT ![w] = NoBatch] \/ cur' = cur)
      /\ \E s \in {"reconcile", "release", "import"} : pc' = [pc EXCEPT ![w] = s]
    BY DEF ReturnClaims, NotListed, Reconcile, Goto, passages, receipts, TypeOK
<1>2. \A c \in Batches : \/ status'[c] = status[c]
                         \/ status'[c] = job[c] /\ job[c] \in Jobs \ {"none"}
    BY DEF ReturnClaims, NotListed, Reconcile, receipts, TypeOK
<1>3. Advances /\ ClaimsCovered'
    BY <1>1, <1>2, ClaimsStay DEF ReceiptInv, Jobs, Ended
<1>4. OthersStay(w) /\ pc'[w] # "receipt" /\ cur'[w] \in {b, NoBatch, cur[w]}
    BY <1>1 DEF OthersStay, Visited, TypeOK
<1>5. \A c \in Batches : todo'[w][c] # "skip" => todo[w][c] # "skip"
    BY <1>1 DEF Visited, TypeOK
<1>6. status[b] # "none" /\ FrameOK(w)
    BY <1>1 DEF ReceiptInv, FrameOK
<1>7. FrameOK(w)'
    BY <1>3, <1>4, <1>5, <1>6, ConstantsAssumption DEF FrameOK, Advances
<1> QED BY <1>3, <1>4, <1>7, ReceiptMoves

\* Claims are only returned.
LEMMA ReturnedCovers ==
    ASSUME TypeOK, TypeOK', ClaimsCovered, UNCHANGED <<rows, embedded, items, status>>,
           NEW freed, claim' = [p \in Passages |-> IF p \in freed THEN NoBatch ELSE claim[p]]
    PROVE  Advances /\ ClaimsCovered'
<1>1. rows \subseteq Passages /\ NoBatch \notin Batches
    BY ConstantsAssumption DEF TypeOK
<1>2. \A p \in Passages : claim'[p] = NoBatch \/ claim'[p] = claim[p]
    OBVIOUS
<1> QED BY <1>1, <1>2 DEF Advances, ClaimsCovered, ReceiptsCoverClaims

LEMMA ReleaseReceipts ==
    ASSUME TypeOK, AtHand, TypeOK', ReceiptInv, NEW w \in Workers,
           ReleaseClaims(w) \/ ReleaseMissing(w)
    PROVE  ReceiptInv'
<1> DEFINE freed == {p \in rows \ embedded : claim[p] = cur[w]}
<1>1. /\ UNCHANGED <<rows, embedded, items, status, cur, todo>>
      /\ claim' = [p \in Passages |-> IF p \in freed THEN NoBatch ELSE claim[p]]
      /\ \E s \in {"close", "receipt"} : pc' = [pc EXCEPT ![w] = s]
      /\ pc[w] \in {"release", "import"}
    BY DEF ReleaseClaims, ReleaseMissing, Goto, receipts
<1>2. \A p \in rows \ embedded : claim[p] = cur[w] => p \in freed
    OBVIOUS
<1> HIDE DEF freed
<1>3. Advances /\ ClaimsCovered'
    BY <1>1, ReturnedCovers DEF ReceiptInv
<1>4. cur[w] \in Batches /\ NoBatch \notin Batches /\ rows \subseteq Passages
    BY <1>1, ConstantsAssumption DEF AtHand, TypeOK
<1>5. \A p \in rows \ embedded : claim'[p] # cur[w]
    BY <1>1, <1>2, <1>4
<1>6. OthersStay(w)
    BY <1>1 DEF OthersStay, TypeOK
<1>7. FrameOK(w)'
    BY <1>1, <1>5 DEF FrameOK, ReceiptInv
<1> QED BY <1>3, <1>6, <1>7, ReceiptMoves

LEMMA CloseFailedReceipts ==
    ASSUME TypeOK, AtHand, TypeOK', ReceiptInv, NEW w \in Workers, CloseFailed(w) PROVE ReceiptInv'
<1>1. /\ UNCHANGED <<rows, embedded, claim, items>>
      /\ status' = [status EXCEPT ![cur[w]] = "failed"]
    BY DEF CloseFailed, passages
<1>2. Advances /\ ClaimsCovered'
    BY <1>1, ClaimsStay DEF ReceiptInv, TypeOK
<1>3. CASE Finish(w)
    BY <1>2, <1>3, FinishFrame, ReceiptMoves
<1>4. CASE /\ pc' = [pc EXCEPT ![w] = "reconcile"] /\ cur' = [cur EXCEPT ![w] = NoBatch]
           /\ todo' = todo
  <2>1. OthersStay(w) /\ pc'[w] = "reconcile" /\ cur'[w] = NoBatch
      BY <1>4 DEF OthersStay, TypeOK
  <2>2. FrameOK(w)'
      BY <1>2, <1>4, <2>1, ConstantsAssumption DEF FrameOK, Advances, ReceiptInv
  <2> QED BY <1>2, <2>1, <2>2, ReceiptMoves
<1> QED BY <1>3, <1>4 DEF CloseFailed, Goto

LEMMA ImportReceipts ==
    ASSUME TypeOK, AtHand, TypeOK', ReceiptInv, NEW w \in Workers, ImportVectors(w) PROVE ReceiptInv'
<1>1. /\ UNCHANGED <<rows, claim, items, status, pc, cur, todo>>
      /\ embedded \subseteq embedded'
    BY DEF ImportVectors, receipts
<1>2. Advances /\ ClaimsCovered'
    BY <1>1 DEF Advances, ClaimsCovered, ReceiptsCoverClaims, ReceiptInv
<1> QED BY <1>1, <1>2, NothingClaimed

LEMMA WriteReceiptReceipts ==
    ASSUME TypeOK, AtHand, TypeOK', ReceiptInv, NEW w \in Workers, WriteReceipt(w) PROVE ReceiptInv'
<1>1. /\ UNCHANGED <<rows, embedded, claim, items, todo>> /\ pc[w] = "receipt"
      /\ status' = [status EXCEPT ![cur[w]] = "applied"]
      /\ pc' = [pc EXCEPT ![w] = "reconcile"] /\ cur' = [cur EXCEPT ![w] = NoBatch]
    BY DEF WriteReceipt, Goto, passages
<1>2. cur[w] \in Batches /\ FrameOK(w)
    BY <1>1 DEF AtHand, ReceiptInv
<1>3. Advances
    BY <1>1 DEF Advances, TypeOK
<1>4. ReceiptsCoverClaims'
  <2>1. \A p \in rows : claim[p] \in Batches \cup {NoBatch}
      BY DEF TypeOK
  <2>2. \A p \in rows : claim[p] # NoBatch => /\ p \in items[claim[p]] /\ status[claim[p]] # "none"
                                              /\ status[claim[p]] = "applied" => p \in embedded
      BY DEF ReceiptInv, ClaimsCovered, ReceiptsCoverClaims
  <2>3. \A p \in rows : claim[p] = cur[w] => p \in embedded
      BY <1>1, <1>2 DEF FrameOK
  <2>4. \A b \in Batches : status'[b] = status[b] \/ (b = cur[w] /\ status'[b] = "applied")
      BY <1>1 DEF TypeOK
  <2> QED BY <1>1, <2>1, <2>2, <2>3, <2>4 DEF ReceiptsCoverClaims
<1>5. ClaimsCovered'
    BY <1>1, <1>4 DEF ClaimsCovered, ReceiptInv
<1>6. OthersStay(w) /\ pc'[w] = "reconcile" /\ cur'[w] = NoBatch
    BY <1>1 DEF OthersStay, TypeOK
<1>7. FrameOK(w)'
    BY <1>1, <1>2, <1>3, <1>6, ConstantsAssumption DEF FrameOK, Advances
<1> QED BY <1>3, <1>5, <1>6, <1>7, ReceiptMoves

LEMMA ClaimBatchReceipts ==
    ASSUME TypeOK, AtHand, TypeOK', ReceiptInv, NEW w \in Workers, NEW b \in Batches,
           ClaimBatch(w, b)
    PROVE  ReceiptInv'
<1>1. /\ UNCHANGED <<rows, embedded, todo>> /\ status[b] = "none"
      /\ items' = [items EXCEPT ![b] = Selected]
      /\ status' = [status EXCEPT ![b] = "prepared"]
      /\ claim' = [p \in Passages |-> IF p \in Selected THEN b ELSE claim[p]]
      /\ pc' = [pc EXCEPT ![w] = "check"] /\ cur' = [cur EXCEPT ![w] = b]
    BY DEF ClaimBatch, Goto
<1>2. \A p \in Selected : p \in rows /\ p \notin embedded
    BY DEF Selected, Claimable
<1>3. rows \subseteq Passages /\ NoBatch \notin Batches
    BY ConstantsAssumption DEF TypeOK
<1>4. \A c \in Batches : /\ status'[c] = IF c = b THEN "prepared" ELSE status[c]
                         /\ items'[c] = IF c = b THEN Selected ELSE items[c]
    BY <1>1 DEF TypeOK
<1>5. \A p \in Passages : claim'[p] = IF p \in Selected THEN b ELSE claim[p]
    BY <1>1
<1>6. Advances
    BY <1>1, <1>2, <1>3, <1>4, <1>5 DEF Advances
<1>7. ReceiptsCoverClaims'
  <2>1. \A p \in rows : claim[p] \in Batches \cup {NoBatch}
      BY DEF TypeOK
  <2>2. \A p \in rows : claim[p] # NoBatch => /\ p \in items[claim[p]] /\ status[claim[p]] # "none"
                                              /\ status[claim[p]] = "applied" => p \in embedded
      BY DEF ReceiptInv, ClaimsCovered, ReceiptsCoverClaims
  <2> QED BY <1>1, <1>3, <1>4, <1>5, <2>1, <2>2 DEF ReceiptsCoverClaims
<1>8. \A p \in Passages \ rows' : claim'[p] = NoBatch
    BY <1>1, <1>2, <1>5 DEF ReceiptInv, ClaimsCovered
<1>9. OthersStay(w) /\ pc'[w] = "check" /\ cur'[w] = b
    BY <1>1 DEF OthersStay, TypeOK
<1>10. FrameOK(w)'
    BY <1>1, <1>4, <1>9 DEF FrameOK, ReceiptInv
<1> QED BY <1>6, <1>7, <1>8, <1>9, <1>10, ReceiptMoves DEF ClaimsCovered

\* The rest of a pass only writes its receipt.
LEMMA WritesReceipts ==
    ASSUME TypeOK, AtHand, TypeOK', ReceiptInv, NEW w \in Workers,
           UNCHANGED <<rows, embedded, claim, items>>,
           \A b \in Batches : status'[b] = status[b] \/ status'[b] \notin {"none", "applied"},
           \/ Finish(w)
           \/ /\ \E s \in Steps \ {"receipt"} : pc' = [pc EXCEPT ![w] = s]
              /\ cur' = cur \/ cur' = [cur EXCEPT ![w] = NoBatch]
              /\ todo' = todo
           \/ UNCHANGED <<pc, cur, todo>>
    PROVE  ReceiptInv'
<1>1. Advances /\ ClaimsCovered'
    BY ClaimsStay DEF ReceiptInv
<1>2. CASE Finish(w)
    BY <1>1, <1>2, FinishFrame, ReceiptMoves
<1>3. CASE /\ \E s \in Steps \ {"receipt"} : pc' = [pc EXCEPT ![w] = s]
           /\ cur' = cur \/ cur' = [cur EXCEPT ![w] = NoBatch]
           /\ todo' = todo
  <2>1. OthersStay(w) /\ pc'[w] # "receipt" /\ cur'[w] \in {cur[w], NoBatch}
      BY <1>3 DEF OthersStay, TypeOK
  <2>2. FrameOK(w)'
      BY <1>1, <1>3, <2>1, ConstantsAssumption DEF FrameOK, Advances, ReceiptInv
  <2> QED BY <1>1, <2>1, <2>2, ReceiptMoves
<1>4. CASE UNCHANGED <<pc, cur, todo>>
    BY <1>1, <1>4, NothingClaimed
<1> QED BY <1>2, <1>3, <1>4

LEMMA SubmittingReceipts ==
    ASSUME TypeOK, AtHand, TypeOK', ReceiptInv, NEW w \in Workers,
           Submitting(w) \/ Disturbance(w) \/ EndReconcile(w)
    PROVE  ReceiptInv'
<1>1. CASE PassPrepares(w)
  <2>1. PICK d \in Days : PrepareDay(d)
      BY <1>1 DEF PassPrepares
  <2>2. Advances /\ ClaimsCovered'
      BY <2>1, PrepareDayCovers DEF ReceiptInv
  <2> QED BY <1>1, <2>2, NothingClaimed DEF PassPrepares, passes
<1>2. CASE EndPass(w) \/ Die(w)
    BY <1>2, WritesReceipts DEF EndPass, Die, passages, receipts
<1>3. CASE EndReconcile(w) \/ EndPrepare(w) \/ CheckSources(w) \/ SendCreate(w) \/ SubmitRejected(w)
  <2>1. /\ UNCHANGED <<rows, embedded, claim, items, status>>
        /\ \/ Finish(w)
           \/ /\ \E s \in {"prepare", "claim", "upload", "release", "await"} :
                     pc' = [pc EXCEPT ![w] = s]
              /\ cur' = cur /\ todo' = todo
      BY <1>3 DEF EndReconcile, EndPrepare, CheckSources, SendCreate, SubmitRejected, Goto,
         passages, receipts
  <2> QED BY <2>1, WritesReceipts DEF Steps
<1>4. CASE Upload(w) \/ Created(w)
  <2>1. /\ UNCHANGED <<rows, embedded, claim, items>>
        /\ \E s \in {"create", "claim"} : pc' = [pc EXCEPT ![w] = s]
        /\ (cur' = cur \/ cur' = [cur EXCEPT ![w] = NoBatch]) /\ todo' = todo
        /\ \E s \in {"submitting", "in_progress"} : status' = [status EXCEPT ![cur[w]] = s]
      BY <1>4 DEF Upload, Created, Goto, passages
  <2>2. \A b \in Batches : status'[b] = status[b] \/ status'[b] \notin {"none", "applied"}
      BY <2>1 DEF TypeOK
  <2> QED BY <2>1, <2>2, WritesReceipts DEF Steps
<1>5. CASE SubmitBlocked(w) \/ SubmitUncertain(w)
  <2>1. /\ UNCHANGED <<rows, embedded, claim, items>> /\ Finish(w)
        /\ \E s \in {"blocked", "unknown"} : status' = [status EXCEPT ![cur[w]] = s]
      BY <1>5 DEF SubmitBlocked, SubmitUncertain, passages
  <2>2. \A b \in Batches : status'[b] = status[b] \/ status'[b] \notin {"none", "applied"}
      BY <2>1 DEF TypeOK
  <2> QED BY <2>1, <2>2, WritesReceipts
<1>6. CASE LoseLock(w)
    BY <1>6, WritesReceipts DEF LoseLock, passages, receipts, passes
<1> QED BY <1>1, <1>2, <1>3, <1>4, <1>5, <1>6, ClaimBatchReceipts DEF Submitting, Disturbance

LEMMA NextReceiptInv == TypeOK /\ AtHand /\ ReceiptInv /\ [Next]_vars => ReceiptInv'
<1> SUFFICES ASSUME TypeOK, AtHand, ReceiptInv, [Next]_vars PROVE ReceiptInv'
    OBVIOUS
<1>0. TypeOK'
    BY NextTypeOK
<1>1. ASSUME NEW w \in Workers, Reconciling(w) PROVE ReceiptInv'
    BY <1>0, <1>1, StartPassReceipts, VisitReceipts, ReleaseReceipts, CloseFailedReceipts,
       ImportReceipts, WriteReceiptReceipts, SubmittingReceipts DEF Reconciling
<1>2. CASE UNCHANGED vars
  <2>1. UNCHANGED <<rows, embedded, claim, items, status, pc, cur, todo>>
      BY <1>2 DEF vars, passages, receipts, passes
  <2>2. Advances /\ ClaimsCovered'
      BY <2>1, ClaimsStay DEF ReceiptInv
  <2> QED BY <1>0, <2>1, <2>2, NothingClaimed
<1> QED BY <1>0, <1>1, <1>2, ArchiveReceipts, ProviderReceipts, SubmittingReceipts DEF Next

LEMMA InitReceiptInv == Init => ReceiptInv
BY ConstantsAssumption DEF Init, ReceiptInv, ClaimsCovered, ReceiptsCoverClaims, FrameOK, NothingToDo

\* Every claim is listed by its receipt, and an applied receipt has no claim left
\* without a vector: for every archive, and even while a pass that has lost its lock
\* goes on beside another one.
THEOREM ClaimsAreCovered == Spec => []ReceiptsCoverClaims
<1>1. TypeOK /\ AtHand /\ ReceiptInv /\ [Next]_vars => (TypeOK /\ AtHand /\ ReceiptInv)'
    BY NextTypeOK, NextAtHand, NextReceiptInv
<1>2. ReceiptInv => ReceiptsCoverClaims
    BY DEF ReceiptInv, ClaimsCovered
<1> QED BY InitTypeOK, InitAtHand, InitReceiptInv, <1>1, <1>2, PTL DEF Spec

-----------------------------------------------------------------------------
(* Receipts and jobs, as long as a pass keeps its lock.                       *)

\* A pass that has left its batch has none at hand; one that will release a batch
\* knows of no job that runs, one that imports a batch knows that its job has
\* ended, and one that submits a batch is the only one to write its receipt.
PassOK(w) ==
    /\ pc[w] # "idle" => lock = w
    /\ pc[w] = "idle" => todo[w] = NothingToDo
    /\ pc[w] \in {"idle", "reconcile", "prepare", "claim"} => cur[w] = NoBatch
    /\ \A b \in Batches : todo[w][b] = "prepared" => status[b] = "prepared" /\ cur[w] # b
    /\ pc[w] \in {"release", "close"} => cur[w] \notin wire /\ job[cur[w]] \in {"none", "failed"}
    /\ pc[w] \in {"import", "receipt"} => job[cur[w]] \in Ended
    /\ pc[w] \in {"check", "upload"} => status[cur[w]] = "prepared"
    /\ pc[w] = "create" => /\ status[cur[w]] = "submitting"
                           /\ cur[w] \notin wire /\ job[cur[w]] = "none"
    /\ pc[w] = "await" => status[cur[w]] = "submitting"

\* No request has left for a receipt that is being prepared, and only one ever does.
ReceiptOK(b) ==
    /\ status[b] \in {"none", "prepared"} => b \notin wire /\ job[b] = "none"
    /\ b \in wire => job[b] = "none"
    /\ status[b] \in Settled => b \notin wire /\ job[b] # "in_progress"

JobInv == (\A w \in Workers : PassOK(w)) /\ (\A b \in Batches : ReceiptOK(b))

\* A pass that is under way is alone.
LEMMA AloneWithTheLock ==
    ASSUME JobInv, NEW w \in Workers, lock = w \/ lock = NoWorker \/ pc[w] # "idle",
           NEW x \in Workers \ {w}
    PROVE  pc[x] = "idle"
BY ConstantsAssumption DEF JobInv, PassOK

LEMMA IdleIsOK ==
    ASSUME NEW x \in Workers, pc'[x] = "idle", todo'[x] = NothingToDo, cur'[x] = NoBatch
    PROVE  PassOK(x)'
BY DEF PassOK, NothingToDo

LEMMA JobMoves ==
    ASSUME TypeOK, JobInv, NEW w \in Workers, lock = w \/ lock = NoWorker \/ pc[w] # "idle",
           OthersStay(w), PassOK(w)', \A b \in Batches : ReceiptOK(b)'
    PROVE  JobInv'
<1>1. ASSUME NEW x \in Workers \ {w} PROVE PassOK(x)'
  <2>1. pc[x] = "idle" /\ todo[x] = NothingToDo /\ cur[x] = NoBatch
      BY <1>1, AloneWithTheLock DEF JobInv, PassOK
  <2> QED BY <1>1, <2>1, IdleIsOK DEF OthersStay
<1> QED BY <1>1 DEF JobInv

LEMMA JobStays == JobInv /\ UNCHANGED <<status, wire, job, lock, pc, cur, todo>> => JobInv'
BY DEF JobInv, PassOK, ReceiptOK

LEMMA ProviderJobs == ASSUME TypeOK, AtHand, JobInv, Provider PROVE JobInv'
<1> SUFFICES ASSUME NEW b \in Batches,
                    \/ AcceptCreate(b) \/ LoseCreate(b) \/ GarbleOutput(b)
                    \/ \E o \in Ended \cup {"failed"} : EndJob(b, o)
             PROVE  JobInv'
    BY DEF Provider
<1>1. UNCHANGED <<status, lock, pc, cur, todo>>
    BY DEF AcceptCreate, LoseCreate, GarbleOutput, EndJob, receipts, passes
<1>2. CASE AcceptCreate(b) \/ LoseCreate(b)
  <2>1. b \in wire /\ job[b] = "none" /\ wire' = wire \ {b}
        /\ \A c \in Batches : job'[c] = job[c] \/ (c = b /\ job'[c] = "in_progress")
      BY <1>2 DEF AcceptCreate, LoseCreate, JobInv, ReceiptOK, TypeOK
  <2>2. \A c \in Batches : ReceiptOK(c)'
      BY <1>1, <2>1 DEF JobInv, ReceiptOK, Settled, Final
  <2>3. \A w \in Workers : PassOK(w)'
      BY <1>1, <2>1 DEF JobInv, PassOK, AtHand, Ended
  <2> QED BY <2>2, <2>3 DEF JobInv
<1>3. ASSUME NEW o \in Ended \cup {"failed"}, EndJob(b, o) PROVE JobInv'
  <2>1. job[b] = "in_progress" /\ wire' = wire /\ o \notin {"none", "in_progress"}
        /\ \A c \in Batches : job'[c] = job[c] \/ (c = b /\ job'[c] = o)
      BY <1>3 DEF EndJob, TypeOK, Ended
  <2>2. \A c \in Batches : ReceiptOK(c)'
      BY <1>1, <2>1 DEF JobInv, ReceiptOK
  <2>3. \A w \in Workers : PassOK(w)'
      BY <1>1, <2>1 DEF JobInv, PassOK, AtHand, Ended
  <2> QED BY <2>2, <2>3 DEF JobInv
<1>4. CASE GarbleOutput(b)
    BY <1>1, <1>4, JobStays DEF GarbleOutput
<1> QED BY <1>2, <1>3, <1>4

\* A pass that ends gives up its lock.
LEMMA FinishJobs ==
    ASSUME TypeOK, AtHand, JobInv, NEW w \in Workers, pc[w] # "idle", Finish(w),
           \A b \in Batches : ReceiptOK(b)'
    PROVE  JobInv'
BY FinishFrame, IdleIsOK, JobMoves

LEMMA StartPassJobs ==
    ASSUME TypeOK, AtHand, JobInv, NEW w \in Workers, StartPass(w) PROVE JobInv'
<1>1. /\ UNCHANGED <<status, wire, job, cur>> /\ pc' = [pc EXCEPT ![w] = "reconcile"]
      /\ lock = NoWorker /\ lock' = w /\ pc[w] = "idle"
    BY DEF StartPass, Goto, receipts, provider
<1>2. OthersStay(w) /\ pc'[w] = "reconcile" /\ cur[w] = NoBatch
    BY <1>1 DEF StartPass, OthersStay, TypeOK, JobInv, PassOK
<1>3. \A b \in Batches : todo'[w][b] = "prepared" => status[b] = "prepared"
    BY DEF StartPass, TypeOK
<1>4. PassOK(w)'
    BY <1>1, <1>2, <1>3, ConstantsAssumption DEF PassOK
<1>5. \A b \in Batches : ReceiptOK(b)'
    BY <1>1 DEF JobInv, ReceiptOK
<1> QED BY <1>1, <1>2, <1>4, <1>5, JobMoves

LEMMA ReturnClaimsJobs ==
    ASSUME TypeOK, AtHand, JobInv, NEW w \in Workers, NEW b \in Batches, ReturnClaims(w, b)
    PROVE  JobInv'
<1>1. /\ UNCHANGED <<status, wire, job, lock>> /\ pc[w] = "reconcile" /\ todo[w][b] = "prepared"
      /\ pc' = [pc EXCEPT ![w] = "release"] /\ cur' = [cur EXCEPT ![w] = b] /\ Visited(w, b)
    BY DEF ReturnClaims, Goto, receipts, provider
<1>2. OthersStay(w) /\ pc'[w] = "release" /\ cur'[w] = b
    BY <1>1 DEF Visited, OthersStay, TypeOK
<1>3. \A c \in Batches : todo'[w][c] = IF c = b THEN "skip" ELSE todo[w][c]
    BY <1>1 DEF Visited, TypeOK
<1>4. b \notin wire /\ job[b] = "none" /\ lock = w
    BY <1>1 DEF JobInv, PassOK, ReceiptOK
<1>5. \A c \in Batches : todo'[w][c] = "prepared" => status[c] = "prepared" /\ c # b
    BY <1>3 DEF JobInv, PassOK
<1>6. PassOK(w)'
    BY <1>1, <1>2, <1>4, <1>5 DEF PassOK
<1>7. \A c \in Batches : ReceiptOK(c)'
    BY <1>1 DEF JobInv, ReceiptOK
<1> QED BY <1>1, <1>2, <1>6, <1>7, JobMoves

LEMMA NotListedJobs ==
    ASSUME TypeOK, AtHand, JobInv, NEW w \in Workers, NEW b \in Batches, NotListed(w, b)
    PROVE  JobInv'
<1>1. UNCHANGED <<status, wire, job, lock, pc, cur>> /\ pc[w] = "reconcile" /\ Visited(w, b)
    BY DEF NotListed, receipts, provider
<1>2. OthersStay(w)
    BY <1>1 DEF Visited, OthersStay, TypeOK
<1>3. \A c \in Batches : todo'[w][c] = IF c = b THEN "skip" ELSE todo[w][c]
    BY <1>1 DEF Visited, TypeOK
<1>4. PassOK(w)'
    BY <1>1, <1>3 DEF PassOK, JobInv
<1>5. \A c \in Batches : ReceiptOK(c)'
    BY <1>1 DEF JobInv, ReceiptOK
<1> QED BY <1>1, <1>2, <1>4, <1>5, JobMoves

LEMMA ReconcileJobs ==
    ASSUME TypeOK, AtHand, JobInv, NEW w \in Workers, NEW b \in Batches, Reconcile(w, b)
    PROVE  JobInv'
<1>1. /\ UNCHANGED <<wire, job, lock>> /\ pc[w] = "reconcile" /\ Visited(w, b)
      /\ todo[w][b] \in {"ambiguous", "known"} /\ job[b] # "none"
      /\ pc' = [pc EXCEPT ![w] = CASE job[b] \in Ended  -> "import"
                                   [] job[b] = "failed" -> "release"
                                   [] OTHER             -> "reconcile"]
      /\ cur' = [cur EXCEPT ![w] = IF job[b] = "in_progress" THEN NoBatch ELSE b]
    BY DEF Reconcile, Goto, provider
<1>2. \A c \in Batches : status'[c] = status[c] \/ (c = b /\ status'[c] = job[b])
    BY DEF Reconcile, TypeOK
<1>3. OthersStay(w) /\ cur'[w] = (IF job[b] = "in_progress" THEN NoBatch ELSE b)
    BY <1>1 DEF Visited, OthersStay, TypeOK
<1>4. \A c \in Batches : todo'[w][c] = IF c = b THEN "skip" ELSE todo[w][c]
    BY <1>1 DEF Visited, TypeOK
<1>5. b \notin wire /\ lock = w
    BY <1>1 DEF JobInv, PassOK, ReceiptOK
<1>6. job[b] \in Ended \cup {"failed", "in_progress"}
    BY <1>1 DEF TypeOK, Jobs
<1>7. /\ job[b] \in Ended => pc'[w] = "import"
      /\ job[b] = "failed" => pc'[w] = "release"
      /\ job[b] = "in_progress" => pc'[w] = "reconcile"
    BY <1>1 DEF TypeOK, Ended
<1>8. \A c \in Batches : todo'[w][c] = "prepared" => status'[c] = "prepared" /\ cur'[w] # c
    BY <1>2, <1>3, <1>4, ConstantsAssumption DEF JobInv, PassOK
<1>9. PassOK(w)'
    BY <1>1, <1>3, <1>5, <1>6, <1>7, <1>8 DEF PassOK, Ended
<1>10. \A c \in Batches : ReceiptOK(c)'
    BY <1>1, <1>2, <1>5, <1>6 DEF JobInv, ReceiptOK, Ended, Settled, Final
<1> QED BY <1>1, <1>3, <1>9, <1>10, JobMoves

LEMMA ReleaseJobs ==
    ASSUME TypeOK, AtHand, JobInv, NEW w \in Workers, ReleaseClaims(w) \/ ReleaseMissing(w)
    PROVE  JobInv'
<1>1. /\ UNCHANGED <<status, wire, job, lock, cur, todo>>
      /\ \/ pc[w] = "release" /\ pc' = [pc EXCEPT ![w] = "close"]
         \/ pc[w] = "import" /\ pc' = [pc EXCEPT ![w] = "receipt"]
    BY DEF ReleaseClaims, ReleaseMissing, Goto, receipts, provider
<1>2. OthersStay(w) /\ \/ pc[w] = "release" /\ pc'[w] = "close"
                       \/ pc[w] = "import" /\ pc'[w] = "receipt"
    BY <1>1 DEF OthersStay, TypeOK
<1>3. PassOK(w)'
    BY <1>1, <1>2 DEF PassOK, JobInv
<1>4. \A c \in Batches : ReceiptOK(c)'
    BY <1>1 DEF JobInv, ReceiptOK
<1> QED BY <1>2, <1>3, <1>4, JobMoves

\* The receipt at hand is closed, its pass goes on with the others or ends.
LEMMA ClosesJobs ==
    ASSUME TypeOK, AtHand, JobInv, NEW w \in Workers, CloseFailed(w) \/ WriteReceipt(w)
    PROVE  JobInv'
<1>1. /\ UNCHANGED <<wire, job>>
      /\ pc[w] \in {"close", "receipt"} /\ cur[w] \in Batches
      /\ \E s \in {"failed", "applied"} : status' = [status EXCEPT ![cur[w]] = s]
    BY DEF CloseFailed, WriteReceipt, provider, AtHand
<1>2. cur[w] \notin wire /\ job[cur[w]] # "in_progress" /\ lock = w
    BY <1>1 DEF JobInv, PassOK, ReceiptOK, Ended
<1>3. \A c \in Batches : status'[c] = status[c]
                         \/ (c = cur[w] /\ status'[c] \in {"failed", "applied"})
    BY <1>1 DEF TypeOK
<1>4. \A c \in Batches : ReceiptOK(c)'
    BY <1>1, <1>2, <1>3 DEF JobInv, ReceiptOK
<1>5. CASE Finish(w)
    BY <1>1, <1>4, <1>5, FinishJobs
<1>6. CASE /\ pc' = [pc EXCEPT ![w] = "reconcile"] /\ cur' = [cur EXCEPT ![w] = NoBatch]
           /\ UNCHANGED <<lock, todo>>
  <2>1. OthersStay(w) /\ pc'[w] = "reconcile" /\ cur'[w] = NoBatch
      BY <1>6 DEF OthersStay, TypeOK
  <2>2. \A b \in Batches : todo'[w][b] = "prepared" => status'[b] = "prepared" /\ cur'[w] # b
      BY <1>3, <1>6, <2>1, ConstantsAssumption DEF JobInv, PassOK
  <2>3. PassOK(w)'
      BY <1>2, <1>6, <2>1, <2>2 DEF PassOK
  <2> QED BY <1>1, <1>4, <2>1, <2>3, JobMoves
<1> QED BY <1>5, <1>6 DEF CloseFailed, WriteReceipt, Goto

LEMMA ClaimBatchJobs ==
    ASSUME TypeOK, AtHand, JobInv, NEW w \in Workers, NEW b \in Batches, ClaimBatch(w, b)
    PROVE  JobInv'
<1>1. /\ UNCHANGED <<wire, job, lock, todo>> /\ status[b] = "none" /\ pc[w] = "claim"
      /\ status' = [status EXCEPT ![b] = "prepared"]
      /\ pc' = [pc EXCEPT ![w] = "check"] /\ cur' = [cur EXCEPT ![w] = b]
    BY DEF ClaimBatch, Goto, provider
<1>2. OthersStay(w) /\ pc'[w] = "check" /\ cur'[w] = b
    BY <1>1 DEF OthersStay, TypeOK
<1>3. \A c \in Batches : status'[c] = IF c = b THEN "prepared" ELSE status[c]
    BY <1>1 DEF TypeOK
<1>4. \A c \in Batches : todo'[w][c] = "prepared" => status'[c] = "prepared" /\ cur'[w] # c
    BY <1>1, <1>2, <1>3 DEF JobInv, PassOK
<1>5. lock = w
    BY <1>1 DEF JobInv, PassOK
<1>6. PassOK(w)'
    BY <1>1, <1>2, <1>3, <1>4, <1>5 DEF PassOK
<1>7. \A c \in Batches : ReceiptOK(c)'
    BY <1>1, <1>3 DEF JobInv, ReceiptOK, Settled, Final
<1> QED BY <1>1, <1>2, <1>6, <1>7, JobMoves

LEMMA UploadJobs ==
    ASSUME TypeOK, AtHand, JobInv, NEW w \in Workers, Upload(w) PROVE JobInv'
<1>1. /\ UNCHANGED <<wire, job, lock, todo, cur>> /\ pc[w] = "upload" /\ cur[w] \in Batches
      /\ status' = [status EXCEPT ![cur[w]] = "submitting"] /\ pc' = [pc EXCEPT ![w] = "create"]
    BY DEF Upload, Goto, provider, AtHand
<1>2. OthersStay(w) /\ pc'[w] = "create" /\ status'[cur[w]] = "submitting"
      /\ \A c \in Batches : status'[c] = IF c = cur[w] THEN "submitting" ELSE status[c]
    BY <1>1 DEF OthersStay, TypeOK
<1>3. lock = w /\ cur[w] \notin wire /\ job[cur[w]] = "none"
    BY <1>1 DEF JobInv, PassOK, ReceiptOK
<1>4. PassOK(w)'
    BY <1>1, <1>2, <1>3 DEF JobInv, PassOK
<1>5. \A c \in Batches : ReceiptOK(c)'
    BY <1>1, <1>2 DEF JobInv, ReceiptOK, Settled, Final
<1> QED BY <1>1, <1>2, <1>4, <1>5, JobMoves

LEMMA SendCreateJobs ==
    ASSUME TypeOK, AtHand, JobInv, NEW w \in Workers, SendCreate(w) PROVE JobInv'
<1>1. /\ UNCHANGED <<status, job, lock, todo, cur>> /\ pc[w] = "create" /\ cur[w] \in Batches
      /\ wire' = wire \cup {cur[w]} /\ pc' = [pc EXCEPT ![w] = "await"]
    BY DEF SendCreate, Goto, receipts, AtHand
<1>2. OthersStay(w) /\ pc'[w] = "await"
    BY <1>1 DEF OthersStay, TypeOK
<1>3. lock = w /\ status[cur[w]] = "submitting" /\ job[cur[w]] = "none"
    BY <1>1 DEF JobInv, PassOK
<1>4. PassOK(w)'
    BY <1>1, <1>2, <1>3 DEF JobInv, PassOK
<1>5. \A c \in Batches : ReceiptOK(c)'
    BY <1>1, <1>3 DEF JobInv, ReceiptOK, Settled, Final
<1> QED BY <1>1, <1>2, <1>4, <1>5, JobMoves

LEMMA CreatedJobs ==
    ASSUME TypeOK, AtHand, JobInv, NEW w \in Workers, Created(w) PROVE JobInv'
<1>1. /\ UNCHANGED <<wire, job, lock, todo>> /\ pc[w] = "await" /\ cur[w] \in Batches
      /\ job[cur[w]] # "none" /\ cur' = [cur EXCEPT ![w] = NoBatch]
      /\ status' = [status EXCEPT ![cur[w]] = "in_progress"] /\ pc' = [pc EXCEPT ![w] = "claim"]
    BY DEF Created, Goto, provider, AtHand
<1>2. OthersStay(w) /\ pc'[w] = "claim" /\ cur'[w] = NoBatch
      /\ \A c \in Batches : status'[c] = IF c = cur[w] THEN "in_progress" ELSE status[c]
    BY <1>1 DEF OthersStay, TypeOK
<1>3. lock = w
    BY <1>1 DEF JobInv, PassOK
<1>4. \A c \in Batches : todo'[w][c] = "prepared" => status'[c] = "prepared" /\ cur'[w] # c
    BY <1>1, <1>2, ConstantsAssumption DEF JobInv, PassOK
<1>5. PassOK(w)'
    BY <1>1, <1>2, <1>3, <1>4 DEF PassOK
<1>6. \A c \in Batches : ReceiptOK(c)'
    BY <1>1, <1>2 DEF JobInv, ReceiptOK, Settled, Final
<1> QED BY <1>1, <1>2, <1>5, <1>6, JobMoves

\* A refused request is on its way no more, and has started nothing.
LEMMA RefusedJobs ==
    ASSUME TypeOK, AtHand, JobInv, NEW w \in Workers, SubmitRejected(w) \/ SubmitBlocked(w)
    PROVE  JobInv'
<1>1. /\ UNCHANGED job /\ wire' = wire \ {cur[w]}
      /\ pc[w] \in {"upload", "await"} /\ (pc[w] = "await" => cur[w] \in wire)
    BY DEF SubmitRejected, SubmitBlocked, Refused
<1>2. cur[w] \in Batches /\ lock = w
    BY <1>1 DEF AtHand, JobInv, PassOK
<1>3. job[cur[w]] = "none"
    BY <1>1, <1>2 DEF JobInv, PassOK, ReceiptOK
<1>4. CASE SubmitRejected(w)
  <2>1. UNCHANGED <<status, lock, todo, cur>> /\ pc' = [pc EXCEPT ![w] = "release"]
      BY <1>4 DEF SubmitRejected, Goto, receipts
  <2>2. OthersStay(w) /\ pc'[w] = "release"
      BY <2>1 DEF OthersStay, TypeOK
  <2>3. PassOK(w)'
      BY <1>1, <1>2, <1>3, <2>1, <2>2 DEF JobInv, PassOK
  <2>4. \A c \in Batches : ReceiptOK(c)'
      BY <1>1, <2>1 DEF JobInv, ReceiptOK
  <2> QED BY <1>1, <2>2, <2>3, <2>4, JobMoves
<1>5. CASE SubmitBlocked(w)
  <2>1. status' = [status EXCEPT ![cur[w]] = "blocked"] /\ Finish(w)
      BY <1>5 DEF SubmitBlocked
  <2>2. \A c \in Batches : ReceiptOK(c)'
      BY <1>1, <1>2, <1>3, <2>1 DEF JobInv, ReceiptOK, TypeOK
  <2> QED BY <1>1, <2>1, <2>2, FinishJobs
<1> QED BY <1>4, <1>5

\* A submission of unknown fate stays open.
LEMMA UncertainJobs ==
    ASSUME TypeOK, AtHand, JobInv, NEW w \in Workers, SubmitUncertain(w) PROVE JobInv'
<1>1. /\ UNCHANGED <<wire, job>> /\ pc[w] \in {"check", "upload", "create", "await"}
      /\ status' = [status EXCEPT ![cur[w]] = "unknown"] /\ Finish(w)
    BY DEF SubmitUncertain, provider
<1>2. \A c \in Batches : ReceiptOK(c)'
    BY <1>1 DEF JobInv, ReceiptOK, TypeOK, Settled, Final
<1> QED BY <1>1, <1>2, FinishJobs

\* The steps of a pass that leave the receipts as they are.
LEMMA QuietJobs ==
    ASSUME TypeOK, AtHand, JobInv, NEW w \in Workers, pc[w] # "idle",
           UNCHANGED <<status, wire, job>>,
           \/ Finish(w)
           \/ /\ UNCHANGED <<lock, cur, todo>>
              /\ \E s \in {"prepare", "claim", "upload", "release"} : pc' = [pc EXCEPT ![w] = s]
              /\ \/ pc[w] = "check" /\ pc'[w] \in {"upload", "release"}
                 \/ pc'[w] \in {"prepare", "claim"} /\ cur[w] = NoBatch
    PROVE  JobInv'
<1>1. \A c \in Batches : ReceiptOK(c)'
    BY DEF JobInv, ReceiptOK
<1>2. CASE Finish(w)
    BY <1>1, <1>2, FinishJobs
<1>3. ASSUME UNCHANGED <<lock, cur, todo>>, NEW s \in {"prepare", "claim", "upload", "release"},
             pc' = [pc EXCEPT ![w] = s],
             \/ pc[w] = "check" /\ pc'[w] \in {"upload", "release"}
             \/ pc'[w] \in {"prepare", "claim"} /\ cur[w] = NoBatch
      PROVE  JobInv'
  <2>1. OthersStay(w) /\ pc'[w] = s /\ lock = w
      BY <1>3 DEF OthersStay, TypeOK, JobInv, PassOK
  <2>2. pc[w] = "check" => cur[w] \in Batches /\ status[cur[w]] = "prepared"
                           /\ cur[w] \notin wire /\ job[cur[w]] = "none"
      BY DEF JobInv, PassOK, ReceiptOK, AtHand
  <2>3. PassOK(w)'
      BY <1>3, <2>1, <2>2 DEF JobInv, PassOK
  <2> QED BY <1>1, <2>1, <2>3, JobMoves
<1> QED BY <1>2, <1>3

LEMMA NextJobInv == ~LockCanLapse => (TypeOK /\ AtHand /\ JobInv /\ [Next]_vars => JobInv')
<1> SUFFICES ASSUME ~LockCanLapse, TypeOK, AtHand, JobInv, [Next]_vars PROVE JobInv'
    OBVIOUS
<1>1. CASE Archive
  <2>1. UNCHANGED <<status, wire, job, lock, pc, cur, todo>>
      BY <1>1 DEF Archive, EditDay, RenameChat, SetIndexing, SetActive, SeedDays, PrepareAll,
         PrepareDay, Ripen, receipts, provider, passes
  <2> QED BY <2>1, JobStays
<1>2. ASSUME NEW w \in Workers, Reconciling(w) PROVE JobInv'
  <2>1. CASE ImportVectors(w)
      BY <2>1, JobStays DEF ImportVectors, receipts, provider
  <2>2. CASE EndReconcile(w)
    <3>1. pc[w] = "reconcile" /\ cur[w] = NoBatch
        BY <2>2 DEF EndReconcile, JobInv, PassOK
    <3>2. pc'[w] = "prepare" \/ Finish(w)
        BY <2>2 DEF EndReconcile, Goto, TypeOK
    <3> QED BY <2>2, <3>1, <3>2, QuietJobs DEF EndReconcile, Goto, receipts, provider
  <2> QED BY <1>2, <2>1, <2>2, StartPassJobs, ReturnClaimsJobs, NotListedJobs, ReconcileJobs,
          ReleaseJobs, ClosesJobs DEF Reconciling
<1>3. ASSUME NEW w \in Workers, Submitting(w) PROVE JobInv'
  <2>1. CASE PassPrepares(w)
      BY <2>1, JobStays DEF PassPrepares, PrepareDay, receipts, provider, passes
  <2>2. CASE EndPrepare(w)
    <3>1. pc[w] = "prepare" /\ cur[w] = NoBatch /\ pc'[w] = "claim"
        BY <2>2 DEF EndPrepare, Goto, JobInv, PassOK, TypeOK
    <3> QED BY <2>2, <3>1, QuietJobs DEF EndPrepare, Goto, receipts, provider
  <2>3. CASE EndPass(w)
    <3>1. pc[w] = "claim"
        BY <2>3 DEF EndPass
    <3> QED BY <2>3, <3>1, QuietJobs DEF EndPass, receipts, provider
  <2>4. CASE CheckSources(w)
    <3>1. pc'[w] \in {"upload", "release"}
        BY <2>4 DEF CheckSources, Goto, TypeOK
    <3> QED BY <2>4, <3>1, QuietJobs DEF CheckSources, Goto, receipts, provider
  <2> QED BY <1>3, <2>1, <2>2, <2>3, <2>4, ClaimBatchJobs, UploadJobs, SendCreateJobs,
          CreatedJobs DEF Submitting
<1>4. ASSUME NEW w \in Workers, Disturbance(w) PROVE JobInv'
  <2>1. CASE Die(w)
      BY <2>1, QuietJobs DEF Die, receipts, provider
  <2> QED BY <1>4, <2>1, RefusedJobs, UncertainJobs DEF Disturbance, LoseLock
<1>5. CASE UNCHANGED vars
    BY <1>5, JobStays DEF vars, receipts, provider, passes
<1> QED BY <1>1, <1>2, <1>3, <1>4, <1>5, ProviderJobs DEF Next

LEMMA InitJobInv == Init => JobInv
BY DEF Init, JobInv, PassOK, ReceiptOK, NothingToDo, Settled, Final

\* As long as no pass outlives its lock, a closed receipt has no request on its way and
\* no running job: what it gave back can be submitted again and is paid for once.
THEOREM ClosedReceiptsAreQuiet == ASSUME ~LockCanLapse PROVE Spec => []ClosedReceiptHasNoJob
<1>1. TypeOK /\ AtHand /\ JobInv /\ [Next]_vars => (TypeOK /\ AtHand /\ JobInv)'
    BY NextTypeOK, NextAtHand, NextJobInv
<1>2. JobInv => ClosedReceiptHasNoJob
    BY DEF JobInv, ReceiptOK, ClosedReceiptHasNoJob
<1> QED BY InitTypeOK, InitAtHand, InitJobInv, <1>1, <1>2, PTL DEF Spec
=============================================================================
