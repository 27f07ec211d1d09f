-------------------------- MODULE PostDraft_proofs --------------------------
(* Proofs about post drafts for any identifiers, contents and requests,      *)
(* however these overlap, fail, lose their answers or die.                   *)
EXTENDS PostDraft, TLAPS

\* A request that goes on has the content of the stored draft.
CallsHaveContent ==
    \A r \in DraftCalls :
      /\ call[r].at \in {"new", "written", "answered"} => call[r].content \in Contents
      /\ call[r].at \in {"loaded", "claimed", "sent"} =>
           /\ draft[call[r].id].status # "none"
           /\ call[r].content = draft[call[r].id].content

\* The claim is held by one request, which knows whether Telegram has accepted.
Claiming(r) == call[r].at \in {"claimed", "sent"}
ClaimHeld ==
    /\ \A r, s \in DraftCalls :
         Claiming(r) /\ Claiming(s) /\ call[r].id = call[s].id => r = s
    /\ \A r \in DraftCalls :
         Claiming(r) => /\ draft[call[r].id].status = "publishing"
                        /\ posted[call[r].id] = IF call[r].at = "sent" THEN 1 ELSE 0

\* One request at a time has inserted the row of an identifier, which nobody else sees.
OneInserts ==
    /\ \A r, s \in DraftCalls :
         Inserted(r) /\ Inserted(s) /\ call[r].id = call[s].id => r = s
    /\ \A r \in DraftCalls : Inserted(r) => draft[call[r].id].status = "none"

\* What the status of a draft says.
StatusHonest ==
    \A d \in Drafts :
      /\ draft[d].status = "none" <=> draft[d].content = NoContent
      /\ draft[d].status \in {"none", "draft"} => posted[d] = 0
      /\ draft[d].status = "published" => posted[d] = 1

DraftInv ==
    /\ DraftTypeOK
    /\ CallsHaveContent
    /\ OneInserts
    /\ ClaimHeld
    /\ StatusHonest
    /\ PublishedAsStored

LEMMA QuietIdle == /\ Quiet \in [at : CallPlaces, id : Drafts, content : Contents \cup {NoContent}]
                   /\ Quiet.at = "idle"
<1>1. \E d \in Drafts : TRUE
    BY DraftConstants
<1>2. (CHOOSE d \in Drafts : TRUE) \in Drafts
    BY <1>1
<1> HIDE DEF CallPlaces
<1>3. "idle" \in CallPlaces
    BY DEF CallPlaces
<1> QED BY <1>2, <1>3 DEF Quiet

LEMMA DraftInit == InitDrafts => DraftInv
<1> SUFFICES ASSUME InitDrafts PROVE DraftInv
    OBVIOUS
<1>1. DraftTypeOK
    BY QuietIdle DEF InitDrafts, DraftTypeOK, DraftStatuses
<1>2. \A r \in DraftCalls : call[r].at = "idle"
    BY QuietIdle DEF InitDrafts
<1>3. CallsHaveContent /\ ClaimHeld /\ OneInserts
    BY <1>2 DEF CallsHaveContent, ClaimHeld, Claiming, OneInserts, Inserted
<1>4. StatusHonest /\ PublishedAsStored
    BY DEF InitDrafts, StatusHonest, PublishedAsStored
<1> QED BY <1>1, <1>3, <1>4 DEF DraftInv

DraftRow == [status : DraftStatuses, content : Contents \cup {NoContent}]
CallState == [at : CallPlaces, id : Drafts, content : Contents \cup {NoContent}]

\* A request that ends leaves the others where they are.
LEMMA EndsTypes == ASSUME call \in [DraftCalls -> CallState], NEW r \in DraftCalls, Ends(r)
                   PROVE  call' \in [DraftCalls -> CallState]
<1>1. Quiet \in CallState
    BY QuietIdle DEF CallState
<1> QED BY <1>1 DEF Ends

\* What a step makes of one row is a row.
LEMMA BecomesTypes == ASSUME draft \in [Drafts -> DraftRow], NEW d \in Drafts,
                             NEW s \in DraftStatuses, Becomes(d, s)
                      PROVE  draft' \in [Drafts -> DraftRow]
<1> HIDE DEF DraftStatuses
<1>1. draft[d] \in DraftRow
    OBVIOUS
<1>2. [draft[d] EXCEPT !.status = s] \in DraftRow
    BY <1>1 DEF DraftRow
<1>3. draft' = [draft EXCEPT ![d] = [draft[d] EXCEPT !.status = s]]
    BY DEF Becomes
<1> QED BY <1>2, <1>3

\* Each step of a request keeps the types.
LEMMA DraftTypes == ASSUME DraftInv, NEW r \in DraftCalls, DraftStep(r)
                    PROVE  DraftTypeOK'
<1> USE DEF DraftInv
<1>t. /\ draft \in [Drafts -> DraftRow]
      /\ call \in [DraftCalls -> CallState]
      /\ posted \in [Drafts -> Nat]
      /\ wire \subseteq Drafts \X Contents
      /\ told \subseteq Drafts
      /\ stored \subseteq Drafts \X Contents
      /\ lost \subseteq Drafts \X Contents
    BY DEF DraftTypeOK, DraftRow, CallState
<1>i. call[r].id \in Drafts /\ call[r].content \in Contents \cup {NoContent}
    BY <1>t DEF CallState
<1>e. Ends(r) => call' \in [DraftCalls -> CallState]
    BY <1>t, EndsTypes
<1>b. \A s \in DraftStatuses : Becomes(call[r].id, s) => draft' \in [Drafts -> DraftRow]
    BY <1>t, <1>i, BecomesTypes
<1>s. "publishing" \in DraftStatuses /\ "unknown" \in DraftStatuses /\ "published" \in DraftStatuses
    BY DEF DraftStatuses
<1>g. ASSUME NEW p \in CallPlaces, Goes(r, p) PROVE call' \in [DraftCalls -> CallState]
  <2>1. [call[r] EXCEPT !.at = p] \in CallState
      BY <1>t DEF CallState
  <2>2. call' = [call EXCEPT ![r] = [call[r] EXCEPT !.at = p]]
      BY <1>g DEF Goes
  <2> QED BY <2>1, <2>2, <1>t
<1>p. {"claimed", "sent", "written", "answered"} \subseteq CallPlaces
    BY DEF CallPlaces
<1> SUFFICES /\ draft' \in [Drafts -> DraftRow]
             /\ call' \in [DraftCalls -> CallState]
             /\ posted' \in [Drafts -> Nat]
             /\ wire' \subseteq Drafts \X Contents
             /\ told' \subseteq Drafts
             /\ stored' \subseteq Drafts \X Contents
             /\ lost' \subseteq Drafts \X Contents
    BY DEF DraftTypeOK, DraftRow, CallState
<1>1. ASSUME NEW d \in Drafts, NEW c \in Contents, SaveLooks(r, d, c) PROVE DraftTypeOK'
  <2>1. call' \in [DraftCalls -> CallState]
      BY <1>1, <1>t DEF SaveLooks, CallState, CallPlaces
  <2>2. stored' \subseteq Drafts \X Contents
      BY <1>1, <1>t DEF SaveLooks, Existing
  <2> QED BY <1>1, <1>t, <2>1, <2>2 DEF SaveLooks, DraftTypeOK, DraftRow, CallState
<1>2. CASE SaveStores(r)
  <2>1. call[r].content \in Contents
      BY <1>2 DEF SaveStores, CallsHaveContent
  <2>2. stored' \subseteq Drafts \X Contents
      BY <1>2, <1>t, <1>i, <2>1 DEF SaveStores, Existing
  <2> QED BY <1>2, <1>t, <1>e, <1>g, <1>p, <2>2 DEF SaveStores
<1>10. CASE SaveAnswers(r)
  <2>1. call[r].content \in Contents
      BY <1>10 DEF SaveAnswers, CallsHaveContent
  <2> QED BY <1>10, <1>t, <1>i, <1>g, <1>p, <2>1 DEF SaveAnswers
<1>11. CASE SaveCommits(r)
  <2>1. call[r].content \in Contents
      BY <1>11 DEF SaveCommits, Inserted, CallsHaveContent
  <2>2. draft' \in [Drafts -> DraftRow]
      BY <1>11, <1>t, <1>i DEF SaveCommits, DraftRow, DraftStatuses
  <2> QED BY <1>11, <1>t, <1>i, <1>e, <2>1, <2>2 DEF SaveCommits
<1>3. ASSUME NEW d \in Drafts, PublishLoads(r, d) PROVE DraftTypeOK'
  <2>1. call' \in [DraftCalls -> CallState]
      BY <1>3, <1>t DEF PublishLoads, CallState, CallPlaces, DraftRow
  <2> QED BY <1>3, <1>t, <2>1 DEF PublishLoads, DraftTypeOK, DraftRow, CallState
<1>4. CASE PublishClaims(r)
    BY <1>4, <1>t, <1>e, <1>b, <1>s, <1>g, <1>p DEF PublishClaims
<1>5. CASE TelegramPosts(r)
  <2>1. draft[call[r].id] \in DraftRow /\ call[r].content = draft[call[r].id].content
      BY <1>5, <1>t, <1>i DEF TelegramPosts, CallsHaveContent
  <2>2. draft[call[r].id].status # "none"
      BY <1>5 DEF TelegramPosts, CallsHaveContent
  <2>3. call[r].content \in Contents
      BY <1>i, <2>1, <2>2 DEF StatusHonest
  <2>4. call' \in [DraftCalls -> CallState]
      BY <1>5, <1>g, <1>p DEF TelegramPosts
  <2>5. posted' \in [Drafts -> Nat]
      BY <1>5, <1>t, <1>i DEF TelegramPosts
  <2> QED BY <1>5, <1>t, <1>i, <2>3, <2>4, <2>5 DEF TelegramPosts
<1>6. CASE PublishFails(r)
    BY <1>6, <1>t, <1>e, <1>b, <1>s DEF PublishFails
<1>7. CASE Confirmed(r)
    BY <1>7, <1>t, <1>i, <1>e, <1>b, <1>s DEF Confirmed
<1>8. CASE DraftCallDies(r)
  <2>1. call[r].at = "answered" => call[r].content \in Contents
      BY DEF CallsHaveContent
  <2> QED BY <1>8, <1>t, <1>i, <1>e, <2>1 DEF DraftCallDies
<1>9. DraftTypeOK' => /\ draft' \in [Drafts -> DraftRow]
             /\ call' \in [DraftCalls -> CallState]
             /\ posted' \in [Drafts -> Nat]
             /\ wire' \subseteq Drafts \X Contents
             /\ told' \subseteq Drafts
             /\ stored' \subseteq Drafts \X Contents
             /\ lost' \subseteq Drafts \X Contents
    BY DEF DraftTypeOK, DraftRow, CallState
<1> QED BY <1>1, <1>2, <1>3, <1>4, <1>5, <1>6, <1>7, <1>8, <1>9, <1>10, <1>11 DEF DraftStep

\* The requests other than the one that steps stay where they are.
LEMMA OthersWait == ASSUME DraftTypeOK, NEW r \in DraftCalls, DraftStep(r), NEW s \in DraftCalls, s # r
                    PROVE  call'[s] = call[s]
<1> USE DEF DraftTypeOK
<1> HIDE DEF CallPlaces, DraftStatuses
<1>1. CASE SaveStores(r) \/ SaveAnswers(r) \/ SaveCommits(r) \/ PublishClaims(r)
        \/ TelegramPosts(r) \/ PublishFails(r) \/ Confirmed(r) \/ DraftCallDies(r)
    BY <1>1 DEF SaveStores, SaveAnswers, SaveCommits, PublishClaims, TelegramPosts, PublishFails, Confirmed,
                DraftCallDies, Ends, Goes
<1>2. ASSUME NEW d \in Drafts, NEW c \in Contents, SaveLooks(r, d, c) PROVE call'[s] = call[s]
    BY <1>2 DEF SaveLooks
<1>3. ASSUME NEW d \in Drafts, PublishLoads(r, d) PROVE call'[s] = call[s]
    BY <1>3 DEF PublishLoads
<1> QED BY <1>1, <1>2, <1>3 DEF DraftStep

\* Where each step leaves its own request.
LEMMA EndsAt == ASSUME DraftTypeOK, NEW r \in DraftCalls, Ends(r) PROVE call'[r].at = "idle"
    BY QuietIdle DEF Ends, DraftTypeOK
LEMMA GoesAt == ASSUME DraftTypeOK, NEW r \in DraftCalls, NEW p, Goes(r, p)
                PROVE  call'[r].at = p /\ call'[r].id = call[r].id /\ call'[r].content = call[r].content
<1>1. call[r] \in CallState /\ call'[r] = [call[r] EXCEPT !.at = p]
    BY DEF Goes, DraftTypeOK, CallState
<1> QED BY <1>1 DEF CallState

\* What a change of its status leaves of a row.
LEMMA BecomesRow == ASSUME DraftTypeOK, NEW d \in Drafts, NEW s, Becomes(d, s)
                    PROVE  /\ draft'[d].status = s /\ draft'[d].content = draft[d].content
                           /\ \A e \in Drafts : e # d => draft'[e] = draft[e]
<1>1. draft[d] \in DraftRow /\ draft'[d] = [draft[d] EXCEPT !.status = s]
    BY DEF Becomes, DraftTypeOK, DraftRow
<1>2. \A e \in Drafts : e # d => draft'[e] = draft[e]
    BY DEF Becomes, DraftTypeOK
<1> QED BY <1>1, <1>2 DEF DraftRow

DraftFacts == CallsHaveContent /\ OneInserts /\ ClaimHeld /\ StatusHonest /\ PublishedAsStored

\* An answer that is not yet committed is given by a request that has not moved.
LEMMA AnsweringStays == ASSUME DraftTypeOK, NEW r \in DraftCalls, DraftStep(r),
                               call[r].at # "answered", NEW p, Answering(p)
                        PROVE  Answering(p)'
<1>1. PICK s \in DraftCalls : call[s].at = "answered" /\ <<call[s].id, call[s].content>> = p
    BY DEF Answering
<1>2. call'[s] = call[s]
    BY <1>1, OthersWait
<1> QED BY <1>1, <1>2 DEF Answering

\* Steps that change no content and lose no transaction keep what savers were told.
LEMMA PromisesStay == ASSUME DraftInv, NEW r \in DraftCalls, DraftStep(r),
                             call[r].at # "answered", lost' = lost,
                             \A e \in Drafts : draft'[e].content = draft[e].content,
                             \A p \in stored' : p \in stored \/ Answering(p)'
                                                \/ (p[1] \in Drafts /\ draft[p[1]].content = p[2])
                      PROVE  \A p \in stored' \ lost' : draft'[p[1]].content = p[2] \/ Answering(p)'
<1>1. \A p \in stored : p[1] \in Drafts
    BY DEF DraftInv, DraftTypeOK
<1>2. \A p : Answering(p) => Answering(p)'
    BY AnsweringStays DEF DraftInv
<1> QED BY <1>1, <1>2 DEF DraftInv, PublishedAsStored

\* Steps that insert no row and commit none keep the inserted rows apart.
LEMMA InsertsStay == ASSUME DraftInv, NEW r \in DraftCalls, DraftStep(r),
                            Inserted(r)' => Inserted(r) /\ call'[r].id = call[r].id,
                            \A e \in Drafts : draft[e].status = "none" => draft'[e].status = "none"
                     PROVE  OneInserts'
<1>1. \A s \in DraftCalls : Inserted(s)' => Inserted(s) /\ call'[s].id = call[s].id
  <2>1. \A s \in DraftCalls : s # r => call'[s] = call[s]
      BY OthersWait DEF DraftInv
  <2> QED BY <2>1 DEF Inserted
<1>2. \A s \in DraftCalls : call[s].id \in Drafts
    BY DEF DraftInv, DraftTypeOK
<1> QED BY <1>1, <1>2 DEF OneInserts, DraftInv

\* A step that only looks keeps the facts.
LEMMA LooksKeep == ASSUME DraftInv, NEW r \in DraftCalls, NEW d \in Drafts,
                          NEW c \in Contents, SaveLooks(r, d, c)
                   PROVE  DraftFacts'
<1>1. \A s \in DraftCalls : s # r => call'[s] = call[s]
    BY OthersWait DEF DraftStep, DraftInv
<1>2. /\ draft' = draft /\ posted' = posted /\ wire' = wire /\ told' = told /\ lost' = lost
      /\ \A p \in stored' : p \in stored \/ (p = <<d, c>> /\ draft[d].content = c)
      /\ call[r].at = "idle"
    BY DEF SaveLooks, Existing
<1>3. call'[r] = call[r] \/ call'[r] = [at |-> "new", id |-> d, content |-> c]
    BY DEF SaveLooks, DraftInv, DraftTypeOK
<1>4. CallsHaveContent'
    BY <1>1, <1>2, <1>3 DEF CallsHaveContent, DraftInv
<1>5. \A s \in DraftCalls : Claiming(s)' => Claiming(s) /\ call'[s] = call[s]
    BY <1>1, <1>3 DEF Claiming
<1>6. ClaimHeld'
    BY <1>2, <1>5 DEF ClaimHeld, DraftInv
<1>7. StatusHonest'
    BY <1>2 DEF StatusHonest, DraftInv
<1>8. \A p \in stored' \ lost' : draft'[p[1]].content = p[2] \/ Answering(p)'
  <2>1. DraftStep(r)
      BY DEF DraftStep
  <2>2. \A p \in stored' : p \in stored \/ (p[1] \in Drafts /\ draft[p[1]].content = p[2])
      BY <1>2
  <2> QED BY <1>2, <2>1, <2>2, PromisesStay
<1>9. OneInserts'
    BY <1>2, <1>3, InsertsStay DEF DraftStep, Inserted
<1>10. PublishedAsStored'
    BY <1>2, <1>8 DEF PublishedAsStored, DraftInv
<1> QED BY <1>4, <1>6, <1>7, <1>9, <1>10 DEF DraftFacts

\* Inserting a row keeps the facts: nobody else has one open, and none is committed.
LEMMA StoresKeep == ASSUME DraftInv, NEW r \in DraftCalls, SaveStores(r)
                    PROVE  DraftFacts'
<1> DEFINE d == call[r].id
           c == call[r].content
<1>i. d \in Drafts /\ c \in Contents /\ \A s \in DraftCalls : call[s].id \in Drafts
    BY DEF DraftInv, DraftTypeOK, CallsHaveContent, SaveStores
<1>1. \A s \in DraftCalls : s # r => call'[s] = call[s]
    BY OthersWait DEF DraftStep, DraftInv
<1>2. /\ posted' = posted /\ wire' = wire /\ told' = told /\ lost' = lost /\ draft' = draft
      /\ \A s \in DraftCalls : Inserted(s) => call[s].id # d
      /\ call[r].at = "new"
    BY DEF SaveStores
<1>3. \/ ~ Stored(d) /\ Goes(r, "written") /\ stored' = stored
      \/ Existing(d, c) /\ Ends(r)
    BY DEF SaveStores
<1>4. \/ call'[r].at = "idle"
      \/ /\ call'[r].at = "written" /\ call'[r].id = d /\ call'[r].content = c
         /\ draft[d].status = "none"
    BY <1>3, EndsAt, GoesAt DEF DraftInv, Stored
<1>5. CallsHaveContent'
    BY <1>i, <1>1, <1>2, <1>4 DEF CallsHaveContent, DraftInv
<1>6. \A s \in DraftCalls : Claiming(s)' => Claiming(s) /\ call'[s] = call[s]
    BY <1>1, <1>4 DEF Claiming
<1>7. ClaimHeld'
    BY <1>2, <1>6 DEF ClaimHeld, DraftInv
<1>8. OneInserts'
  <2>1. \A s \in DraftCalls : s # r /\ Inserted(s)' => Inserted(s) /\ call'[s].id = call[s].id
      BY <1>1 DEF Inserted
  <2>2. Inserted(r)' => call'[r].id = d /\ draft[d].status = "none"
      BY <1>4 DEF Inserted
  <2> QED BY <1>i, <1>2, <2>1, <2>2 DEF OneInserts, DraftInv
<1>9. StatusHonest'
    BY <1>2 DEF StatusHonest, DraftInv
<1>10. \A p \in stored' : p \in stored \/ (p = <<d, c>> /\ draft[d].content = c)
    BY <1>3 DEF Existing
<1>11. \A p \in stored' \ lost' : draft'[p[1]].content = p[2] \/ Answering(p)'
  <2>1. DraftStep(r)
      BY DEF DraftStep
  <2>2. \A p \in stored' : p \in stored \/ (p[1] \in Drafts /\ draft[p[1]].content = p[2])
      BY <1>i, <1>10
  <2> QED BY <1>2, <2>1, <2>2, PromisesStay
<1>12. PublishedAsStored'
    BY <1>2, <1>11 DEF PublishedAsStored, DraftInv
<1> QED BY <1>5, <1>7, <1>8, <1>9, <1>12 DEF DraftFacts

\* An answer before the commit keeps the facts: it is said to be one.
LEMMA AnswersKeep == ASSUME DraftInv, NEW r \in DraftCalls, SaveAnswers(r)
                     PROVE  DraftFacts'
<1>1. \A s \in DraftCalls : s # r => call'[s] = call[s]
    BY OthersWait DEF DraftStep, DraftInv
<1>2. /\ posted' = posted /\ wire' = wire /\ told' = told /\ lost' = lost /\ draft' = draft
      /\ stored' = stored \cup {<<call[r].id, call[r].content>>}
      /\ call[r].at = "written"
    BY DEF SaveAnswers
<1>3. call'[r].at = "answered" /\ call'[r].id = call[r].id /\ call'[r].content = call[r].content
    BY GoesAt DEF DraftInv, SaveAnswers
<1>4. CallsHaveContent'
    BY <1>1, <1>2, <1>3 DEF CallsHaveContent, DraftInv
<1>5. \A s \in DraftCalls : Claiming(s)' => Claiming(s) /\ call'[s] = call[s]
    BY <1>1, <1>3 DEF Claiming
<1>6. ClaimHeld'
    BY <1>2, <1>5 DEF ClaimHeld, DraftInv
<1>7. OneInserts'
    BY <1>2, <1>3, InsertsStay DEF DraftStep, Inserted
<1>8. StatusHonest'
    BY <1>2 DEF StatusHonest, DraftInv
<1>9. \A p \in stored' : p \in stored \/ Answering(p)'
    BY <1>2, <1>3 DEF Answering
<1>10. \A p \in stored' \ lost' : draft'[p[1]].content = p[2] \/ Answering(p)'
  <2>1. DraftStep(r)
      BY DEF DraftStep
  <2> QED BY <1>2, <1>9, <2>1, PromisesStay
<1>11. PublishedAsStored'
    BY <1>2, <1>10 DEF PublishedAsStored, DraftInv
<1> QED BY <1>4, <1>6, <1>7, <1>8, <1>11 DEF DraftFacts

\* The commit keeps the facts: a row is written only where there was none, and what
\* it makes of the answers before it is what they said.
LEMMA CommitsKeep == ASSUME DraftInv, NEW r \in DraftCalls, SaveCommits(r)
                     PROVE  DraftFacts'
<1> DEFINE d == call[r].id
           c == call[r].content
<1>i. d \in Drafts /\ c \in Contents /\ c # NoContent
    BY DraftConstants DEF DraftInv, DraftTypeOK, CallsHaveContent, SaveCommits, Inserted
<1>1. \A s \in DraftCalls : s # r => call'[s] = call[s]
    BY OthersWait DEF DraftStep, DraftInv
<1>2. call'[r].at = "idle"
    BY EndsAt DEF DraftInv, SaveCommits
<1>3. \A s \in DraftCalls : call'[s].at # "idle" => s # r /\ call'[s] = call[s]
    BY <1>1, <1>2
<1>4. /\ posted' = posted /\ wire' = wire /\ told' = told
      /\ draft' = [draft EXCEPT ![d] = [status |-> "draft", content |-> c]]
      /\ stored' = stored \cup {<<d, c>>}
      /\ lost' = lost \ {<<d, c>>}
      /\ Inserted(r)
    BY DEF SaveCommits
<1>5. draft[d].status = "none" /\ draft[d].content = NoContent /\ posted[d] = 0
    BY <1>i, <1>4 DEF OneInserts, StatusHonest, DraftInv
<1>6. /\ draft'[d].status = "draft" /\ draft'[d].content = c
      /\ \A e \in Drafts : e # d => draft'[e] = draft[e]
    BY <1>i, <1>4 DEF DraftInv, DraftTypeOK
<1>7. \A s \in DraftCalls : call[s].at \in {"loaded", "claimed", "sent"} =>
        call[s].id # d /\ call[s].id \in Drafts
    BY <1>5 DEF CallsHaveContent, DraftInv, DraftTypeOK
<1>8. CallsHaveContent'
    BY <1>3, <1>6, <1>7 DEF CallsHaveContent, DraftInv
<1>9. ClaimHeld'
    BY <1>3, <1>4, <1>6, <1>7 DEF ClaimHeld, Claiming, DraftInv
<1>10. StatusHonest'
    BY <1>i, <1>4, <1>5, <1>6 DEF StatusHonest, DraftInv
<1>11. \A s \in DraftCalls : s # r /\ Inserted(s) => call[s].id # d /\ call[s].id \in Drafts
    BY <1>4 DEF OneInserts, DraftInv, DraftTypeOK
<1>12. OneInserts'
  <2>1. \A s \in DraftCalls : Inserted(s)' => s # r /\ Inserted(s) /\ call'[s] = call[s]
      BY <1>2, <1>3 DEF Inserted
  <2> QED BY <1>6, <1>11, <2>1 DEF OneInserts, DraftInv
<1>13. \A p \in wire \cup stored : p[1] \in Drafts /\ p[2] \in Contents
    BY DEF DraftInv, DraftTypeOK
<1>14. \A p \in wire : p[1] # d
    BY <1>5, <1>13, DraftConstants DEF PublishedAsStored, DraftInv
<1>15. ASSUME NEW p \in stored', p \notin lost' PROVE draft'[p[1]].content = p[2] \/ Answering(p)'
  <2>1. CASE p = <<d, c>>
      BY <1>6, <2>1
  <2>2. CASE p # <<d, c>>
    <3>1. p \in stored \ lost
        BY <1>4, <1>15, <2>2
    <3>2. CASE draft[p[1]].content = p[2]
      <4>1. p[1] # d
          BY <1>5, <1>13, <3>1, <3>2, DraftConstants
      <4> QED BY <1>6, <1>13, <3>1, <3>2, <4>1
    <3>3. CASE Answering(p)
      <4>1. PICK s \in DraftCalls : call[s].at = "answered" /\ <<call[s].id, call[s].content>> = p
          BY <3>3 DEF Answering
      <4>2. call'[s] = call[s]
          BY <1>1, <2>2, <4>1
      <4> QED BY <4>1, <4>2 DEF Answering
    <3> QED BY <3>1, <3>2, <3>3 DEF PublishedAsStored, DraftInv
  <2> QED BY <2>1, <2>2
<1>16. \A p \in wire : draft'[p[1]].content = p[2]
    BY <1>6, <1>13, <1>14 DEF PublishedAsStored, DraftInv
<1>17. PublishedAsStored'
    BY <1>4, <1>15, <1>16 DEF PublishedAsStored, DraftInv
<1> QED BY <1>8, <1>9, <1>10, <1>12, <1>17 DEF DraftFacts

\* Publishing leaves what savers inserted and were told as it is.
LEMMA PublishingKeepsSaves ==
    ASSUME DraftInv, NEW r \in DraftCalls,
           \/ \E d \in Drafts : PublishLoads(r, d)
           \/ PublishClaims(r) \/ TelegramPosts(r) \/ PublishFails(r) \/ Confirmed(r)
    PROVE  /\ OneInserts'
           /\ \A p \in stored' \ lost' : draft'[p[1]].content = p[2] \/ Answering(p)'
<1>s. DraftStep(r)
    BY DEF DraftStep
<1>i. call[r].id \in Drafts
    BY DEF DraftInv, DraftTypeOK
<1>1. /\ stored' = stored /\ lost' = lost
      /\ call[r].at \in {"idle", "loaded", "claimed", "sent"}
    BY DEF PublishLoads, PublishClaims, TelegramPosts, PublishFails, Confirmed
<1>2. ~ Inserted(r)'
  <2>1. \/ Ends(r) \/ Goes(r, "claimed") \/ Goes(r, "sent") \/ call' = call
        \/ \E d \in Drafts : call' = [call EXCEPT ![r] = [at |-> "loaded", id |-> d,
                                                         content |-> draft[d].content]]
      BY DEF PublishLoads, PublishClaims, TelegramPosts, PublishFails, Confirmed
  <2>2. call'[r].at \in {"idle", "claimed", "sent", "loaded"} \/ call'[r].at = call[r].at
      BY <2>1, EndsAt, GoesAt DEF DraftInv, DraftTypeOK
  <2> QED BY <1>1, <2>2 DEF Inserted
<1>3. \/ draft' = draft
      \/ /\ draft[call[r].id].status # "none"
         /\ \E t \in {"publishing", "unknown", "published"} : Becomes(call[r].id, t)
    BY DEF PublishLoads, PublishClaims, TelegramPosts, PublishFails, Confirmed, DraftInv,
           CallsHaveContent
<1>4. \A e \in Drafts : /\ draft'[e].content = draft[e].content
                        /\ draft[e].status = "none" => draft'[e].status = "none"
    BY <1>i, <1>3, BecomesRow DEF DraftInv
<1>5. OneInserts'
    BY <1>s, <1>2, <1>4, InsertsStay
<1> QED BY <1>s, <1>1, <1>4, <1>5, PromisesStay

\* Loading a draft keeps the facts.
LEMMA LoadsKeep == ASSUME DraftInv, NEW r \in DraftCalls, NEW d \in Drafts, PublishLoads(r, d)
                   PROVE  DraftFacts'
<1>1. \A s \in DraftCalls : s # r => call'[s] = call[s]
    BY OthersWait DEF DraftStep, DraftInv
<1>2. /\ draft' = draft /\ posted' = posted /\ wire' = wire /\ stored' = stored
      /\ \A e \in told' : e \in told \/ (e = d /\ draft[d].status = "published")
    BY DEF PublishLoads
<1>3. call'[r] = call[r] \/ call'[r] = [at |-> "loaded", id |-> d, content |-> draft[d].content]
    BY DEF PublishLoads, DraftInv, DraftTypeOK
<1>4. draft[d].status # "none"
    BY DEF PublishLoads, Stored
<1>5. CallsHaveContent'
    BY <1>1, <1>2, <1>3, <1>4 DEF CallsHaveContent, DraftInv
<1>6. \A s \in DraftCalls : Claiming(s)' => Claiming(s) /\ call'[s] = call[s]
    BY <1>1, <1>3 DEF Claiming
<1>7. ClaimHeld'
    BY <1>2, <1>6 DEF ClaimHeld, DraftInv
<1>s. OneInserts' /\ \A p \in stored' \ lost' : draft'[p[1]].content = p[2] \/ Answering(p)'
    BY PublishingKeepsSaves
<1>8. StatusHonest' /\ PublishedAsStored'
    BY <1>2, <1>s DEF StatusHonest, PublishedAsStored, DraftInv
<1> QED BY <1>5, <1>7, <1>8, <1>s DEF DraftFacts

\* Claiming a draft keeps the facts: no other request holds the claim of a draft
\* whose status is still 'draft'.
LEMMA ClaimsKeep == ASSUME DraftInv, NEW r \in DraftCalls, PublishClaims(r)
                    PROVE  DraftFacts'
<1> DEFINE d == call[r].id
<1>i. d \in Drafts
    BY DEF DraftInv, DraftTypeOK
<1>1. \A s \in DraftCalls : s # r => call'[s] = call[s]
    BY OthersWait DEF DraftStep, DraftInv
<1>2. posted' = posted /\ wire' = wire /\ told' = told /\ stored' = stored
    BY DEF PublishClaims
<1>s. OneInserts' /\ \A p \in stored' \ lost' : draft'[p[1]].content = p[2] \/ Answering(p)'
    BY PublishingKeepsSaves
<1>3. CASE draft[d].status = "draft" /\ Becomes(d, "publishing") /\ Goes(r, "claimed")
  <2>1. /\ draft'[d].status = "publishing" /\ draft'[d].content = draft[d].content
        /\ \A e \in Drafts : e # d => draft'[e] = draft[e]
      BY <1>i, <1>3, BecomesRow DEF DraftInv
  <2>2. call'[r].at = "claimed" /\ call'[r].id = d /\ call'[r].content = call[r].content
      BY <1>3, GoesAt DEF DraftInv
  <2>3. \A s \in DraftCalls : call[s].id \in Drafts
      BY DEF DraftInv, DraftTypeOK
  <2>4. \A e \in Drafts : /\ draft'[e].content = draft[e].content
                          /\ draft'[e].status = "none" <=> draft[e].status = "none"
      BY <1>3, <2>1
  <2>5. call[r].at = "loaded"
      BY DEF PublishClaims
  <2>6. CallsHaveContent'
      BY <1>1, <2>2, <2>3, <2>4, <2>5 DEF CallsHaveContent, DraftInv
  <2>7. \A s \in DraftCalls : Claiming(s) => call[s].id # d
      BY <1>3 DEF ClaimHeld, DraftInv
  <2>8. posted[d] = 0
      BY <1>i, <1>3 DEF StatusHonest, DraftInv
  <2>9. ClaimHeld'
      BY <1>1, <1>2, <2>1, <2>2, <2>3, <2>7, <2>8 DEF ClaimHeld, Claiming, DraftInv
  <2>10. StatusHonest'
      BY <1>2, <1>3, <2>1, <2>4 DEF StatusHonest, DraftInv
  <2>11. \A p \in wire \cup stored : p[1] \in Drafts
      BY DEF DraftInv, DraftTypeOK
  <2>12. PublishedAsStored'
      BY <1>2, <1>s, <2>4, <2>11 DEF PublishedAsStored, DraftInv
  <2> QED BY <1>s, <2>6, <2>9, <2>10, <2>12 DEF DraftFacts
<1>4. CASE draft' = draft /\ Ends(r)
  <2>1. call'[r].at = "idle"
      BY <1>4, EndsAt DEF DraftInv
  <2>2. \A s \in DraftCalls : call'[s].at # "idle" => s # r /\ call'[s] = call[s]
      BY <1>1, <2>1
  <2>3. CallsHaveContent'
      BY <1>4, <2>2 DEF CallsHaveContent, DraftInv
  <2>4. ClaimHeld'
      BY <1>2, <1>4, <2>2 DEF ClaimHeld, Claiming, DraftInv
  <2>5. StatusHonest' /\ PublishedAsStored'
      BY <1>2, <1>s, <1>4 DEF StatusHonest, PublishedAsStored, DraftInv
  <2> QED BY <1>s, <2>3, <2>4, <2>5 DEF DraftFacts
<1> QED BY <1>3, <1>4 DEF PublishClaims

\* The post appears under a claim that had not sent anything, with the content of
\* the row.
LEMMA PostsKeep == ASSUME DraftInv, NEW r \in DraftCalls, TelegramPosts(r)
                   PROVE  DraftFacts'
<1> DEFINE d == call[r].id
<1>i. d \in Drafts /\ \A s \in DraftCalls : call[s].id \in Drafts
    BY DEF DraftInv, DraftTypeOK
<1>1. \A s \in DraftCalls : s # r => call'[s] = call[s]
    BY OthersWait DEF DraftStep, DraftInv
<1>2. draft' = draft /\ told' = told /\ stored' = stored
    BY DEF TelegramPosts
<1>3. call'[r].at = "sent" /\ call'[r].id = d /\ call'[r].content = call[r].content
    BY GoesAt DEF DraftInv, TelegramPosts
<1>4. Claiming(r) /\ posted[d] = 0 /\ draft[d].status = "publishing"
    BY DEF TelegramPosts, Claiming, ClaimHeld, DraftInv
<1>5. call[r].content = draft[d].content
    BY DEF TelegramPosts, CallsHaveContent, DraftInv
<1>6. posted'[d] = 1 /\ \A e \in Drafts : e # d => posted'[e] = posted[e]
    BY <1>i, <1>4 DEF TelegramPosts, DraftInv, DraftTypeOK
<1>7. CallsHaveContent'
    BY <1>1, <1>2, <1>3 DEF CallsHaveContent, DraftInv, TelegramPosts
<1>8. \A s \in DraftCalls : Claiming(s)' => Claiming(s) /\ call'[s].id = call[s].id
    BY <1>1, <1>3, <1>4 DEF Claiming
<1>9. \A s \in DraftCalls : Claiming(s) /\ s # r => call[s].id # d
    BY <1>4 DEF ClaimHeld, DraftInv
<1>10. ClaimHeld'
  <2>1. \A s, t \in DraftCalls :
          (Claiming(s) /\ Claiming(t) /\ call[s].id = call[t].id => s = t)'
      BY <1>8 DEF ClaimHeld, DraftInv
  <2>2. ASSUME NEW s \in DraftCalls, Claiming(s)', s # r
        PROVE  /\ draft'[call'[s].id].status = "publishing"
               /\ posted'[call'[s].id] = IF call'[s].at = "sent" THEN 1 ELSE 0
      BY <2>2, <1>i, <1>1, <1>2, <1>6, <1>8, <1>9 DEF ClaimHeld, DraftInv
  <2>3. /\ draft'[call'[r].id].status = "publishing"
        /\ posted'[call'[r].id] = IF call'[r].at = "sent" THEN 1 ELSE 0
      BY <1>2, <1>3, <1>4, <1>6
  <2> QED BY <2>1, <2>2, <2>3 DEF ClaimHeld
<1>11. StatusHonest'
    BY <1>2, <1>4, <1>6 DEF StatusHonest, DraftInv
<1>12. \A e \in told : e \in Drafts /\ e # d
    BY <1>4 DEF PublishedAsStored, DraftInv, DraftTypeOK
<1>13. \A p \in wire' : p \in wire \/ p = <<d, draft[d].content>>
    BY <1>5 DEF TelegramPosts
<1>s. OneInserts' /\ \A p \in stored' \ lost' : draft'[p[1]].content = p[2] \/ Answering(p)'
    BY PublishingKeepsSaves
<1>14. PublishedAsStored'
    BY <1>2, <1>s, <1>6, <1>12, <1>13 DEF PublishedAsStored, DraftInv
<1> QED BY <1>s, <1>7, <1>10, <1>11, <1>14 DEF DraftFacts

\* The end of a claim, with what it writes into the row.
LEMMA SettlesKeep == ASSUME DraftInv, NEW r \in DraftCalls, PublishFails(r) \/ Confirmed(r)
                     PROVE  DraftFacts'
<1> DEFINE d == call[r].id
<1>i. d \in Drafts /\ \A s \in DraftCalls : call[s].id \in Drafts
    BY DEF DraftInv, DraftTypeOK
<1>1. \A s \in DraftCalls : s # r => call'[s] = call[s]
    BY OthersWait DEF DraftStep, DraftInv
<1>2. call'[r].at = "idle"
    BY EndsAt DEF DraftInv, PublishFails, Confirmed
<1>3. \A s \in DraftCalls : call'[s].at # "idle" => s # r /\ call'[s] = call[s]
    BY <1>1, <1>2
<1>4. Claiming(r) /\ draft[d].status = "publishing"
    BY DEF PublishFails, Confirmed, Claiming, ClaimHeld, DraftInv
<1>5. PICK s \in {"unknown", "published"} :
        Becomes(d, s) /\ (s = "published" => Confirmed(r))
    BY DEF PublishFails, Confirmed
<1>6. /\ draft'[d].status = s /\ draft'[d].content = draft[d].content
      /\ \A e \in Drafts : e # d => draft'[e] = draft[e]
    BY <1>i, <1>5, BecomesRow DEF DraftInv
<1>7. Confirmed(r) => posted[d] = 1
    BY <1>4 DEF Confirmed, ClaimHeld, DraftInv
<1>8. posted' = posted /\ wire' = wire /\ stored' = stored
    BY DEF PublishFails, Confirmed
<1>9. \A e \in told' : e \in told \/ (e = d /\ posted[d] = 1)
    BY <1>7 DEF PublishFails, Confirmed
<1>10. \A e \in Drafts : /\ draft'[e].content = draft[e].content
                         /\ draft'[e].status = "none" <=> draft[e].status = "none"
    BY <1>4, <1>5, <1>6
<1>11. CallsHaveContent'
    BY <1>i, <1>3, <1>10 DEF CallsHaveContent, DraftInv
<1>12. \A t \in DraftCalls : Claiming(t)' => Claiming(t) /\ call'[t] = call[t] /\ call[t].id # d
    BY <1>3, <1>4 DEF Claiming, ClaimHeld, DraftInv
<1>13. ClaimHeld'
    BY <1>i, <1>6, <1>8, <1>12 DEF ClaimHeld, DraftInv
<1>14. StatusHonest'
    BY <1>5, <1>6, <1>7, <1>8, <1>10 DEF StatusHonest, DraftInv
<1>15. \A p \in wire : p[1] \in Drafts
    BY DEF DraftInv, DraftTypeOK
<1>s. OneInserts' /\ \A p \in stored' \ lost' : draft'[p[1]].content = p[2] \/ Answering(p)'
    BY PublishingKeepsSaves
<1>16. PublishedAsStored'
    BY <1>s, <1>8, <1>9, <1>10, <1>15 DEF PublishedAsStored, DraftInv
<1> QED BY <1>s, <1>11, <1>13, <1>14, <1>16 DEF DraftFacts

\* A request that dies keeps the facts: a claim may be left behind, never taken over,
\* and an answer whose row is rolled back is counted as lost.
LEMMA DeathKeeps == ASSUME DraftInv, NEW r \in DraftCalls, DraftCallDies(r)
                    PROVE  DraftFacts'
<1>1. \A s \in DraftCalls : s # r => call'[s] = call[s]
    BY OthersWait DEF DraftStep, DraftInv
<1>2. call'[r].at = "idle"
    BY EndsAt DEF DraftInv, DraftCallDies
<1>3. \A s \in DraftCalls : call'[s].at # "idle" => s # r /\ call'[s] = call[s]
    BY <1>1, <1>2
<1>4. /\ draft' = draft /\ posted' = posted /\ wire' = wire /\ told' = told /\ stored' = stored
      /\ lost \subseteq lost'
      /\ call[r].at = "answered" => <<call[r].id, call[r].content>> \in lost'
    BY DEF DraftCallDies
<1>5. CallsHaveContent'
    BY <1>3, <1>4 DEF CallsHaveContent, DraftInv
<1>6. ClaimHeld'
    BY <1>3, <1>4 DEF ClaimHeld, Claiming, DraftInv
<1>7. OneInserts'
    BY <1>2, <1>4, InsertsStay DEF DraftStep, Inserted
<1>8. ASSUME NEW p \in stored', p \notin lost' PROVE draft'[p[1]].content = p[2] \/ Answering(p)'
  <2>1. p \in stored \ lost
      BY <1>4, <1>8
  <2>2. CASE Answering(p)
    <3>1. PICK s \in DraftCalls : call[s].at = "answered" /\ <<call[s].id, call[s].content>> = p
        BY <2>2 DEF Answering
    <3>2. call'[s] = call[s]
        BY <1>1, <1>4, <1>8, <3>1
    <3> QED BY <3>1, <3>2 DEF Answering
  <2> QED BY <1>4, <2>1, <2>2 DEF PublishedAsStored, DraftInv
<1>9. StatusHonest' /\ PublishedAsStored'
    BY <1>4, <1>8 DEF StatusHonest, PublishedAsStored, DraftInv
<1> QED BY <1>5, <1>6, <1>7, <1>9 DEF DraftFacts

LEMMA DraftInvStep == DraftInv /\ [NextDrafts]_draftVars => DraftInv'
<1> SUFFICES ASSUME DraftInv, [NextDrafts]_draftVars PROVE DraftInv'
    OBVIOUS
<1>1. ASSUME NEW r \in DraftCalls, DraftStep(r) PROVE DraftInv'
  <2>1. DraftTypeOK'
      BY <1>1, DraftTypes
  <2>2. DraftFacts'
      BY <1>1, LooksKeep, StoresKeep, AnswersKeep, CommitsKeep, LoadsKeep, ClaimsKeep, PostsKeep, SettlesKeep, DeathKeeps
      DEF DraftStep
  <2> QED BY <2>1, <2>2 DEF DraftFacts, DraftInv
<1>2. CASE UNCHANGED draftVars
  <2>1. /\ draft' = draft /\ call' = call /\ posted' = posted /\ wire' = wire
        /\ told' = told /\ stored' = stored /\ lost' = lost
      BY <1>2 DEF draftVars
  <2>2. DraftTypeOK' /\ CallsHaveContent'
      BY <2>1 DEF DraftInv, DraftTypeOK, CallsHaveContent
  <2>3. ClaimHeld'
      BY <2>1 DEF DraftInv, ClaimHeld, Claiming
  <2>4. StatusHonest' /\ PublishedAsStored' /\ OneInserts'
      BY <2>1 DEF DraftInv, StatusHonest, PublishedAsStored, Answering, OneInserts, Inserted
  <2> QED BY <2>2, <2>3, <2>4 DEF DraftInv
<1> QED BY <1>1, <1>2 DEF NextDrafts

\* services/post_draft_service.py publish and save keep the draft, claim and request
\* records well formed at every interleaving.
THEOREM DraftTypesAlways == DraftSpec => []DraftTypeOK
<1>1. DraftInv => DraftTypeOK
    BY DEF DraftInv
<1> QED BY <1>1, DraftInit, DraftInvStep, PTL DEF DraftSpec

\* "published" is said only of a post that Telegram accepted exactly once; every post
\* has the content of the row; and what a saver was told is stored is, unless its
\* transaction, committed after the answer, is still open or was lost.
THEOREM DraftPublishedAsStored == DraftSpec => []PublishedAsStored
<1>1. DraftInv => PublishedAsStored
    BY DEF DraftInv
<1> QED BY <1>1, DraftInit, DraftInvStep, PTL DEF DraftSpec

\* Each step is a step of PostOnce, or changes nothing it speaks of.
LEMMA StepsPostOnce == ASSUME DraftInv, NEW r \in DraftCalls, DraftStep(r)
                       PROVE  Posts!NextPosts \/ UNCHANGED Posts!postVars
<1> DEFINE text == [d \in Drafts |-> draft[d].content]
           b == call[r].id
<1>i. b \in Drafts
    BY DEF DraftInv, DraftTypeOK
<1>u. text' = text /\ posted' = posted /\ told' = told => UNCHANGED Posts!postVars
    BY DEF Posts!postVars
<1>t. ASSUME NEW e \in Drafts, posted[e] = 1, told' = told \cup {e}, text' = text, posted' = posted
      PROVE  Posts!NextPosts
    BY <1>t DEF Posts!NextPosts, Posts!Tell
<1>s. ASSUME NEW s, Becomes(b, s) PROVE text' = text
    BY <1>s, <1>i, BecomesRow DEF DraftInv
<1>1. ASSUME NEW d \in Drafts, NEW c \in Contents, SaveLooks(r, d, c) PROVE UNCHANGED Posts!postVars
    BY <1>1, <1>u DEF SaveLooks
<1>2. CASE SaveStores(r) \/ SaveAnswers(r)
    BY <1>2, <1>u DEF SaveStores, SaveAnswers
<1>9. CASE SaveCommits(r)
  <2>1. call[r].content \in Contents
      BY <1>9 DEF SaveCommits, Inserted, CallsHaveContent, DraftInv
  <2>2. text[b] = NoContent
      BY <1>i, <1>9 DEF SaveCommits, OneInserts, StatusHonest, DraftInv
  <2>3. text' = [text EXCEPT ![b] = call[r].content]
      BY <1>i, <1>9 DEF SaveCommits, DraftInv, DraftTypeOK
  <2>4. posted' = posted /\ told' = told
      BY <1>9 DEF SaveCommits
  <2> QED BY <1>i, <2>1, <2>2, <2>3, <2>4 DEF Posts!NextPosts, Posts!Keep
<1>3. ASSUME NEW d \in Drafts, PublishLoads(r, d)
      PROVE  Posts!NextPosts \/ UNCHANGED Posts!postVars
  <2>1. CASE draft[d].status = "published" /\ told' = told \cup {d}
    <3>1. posted[d] = 1
        BY <2>1 DEF StatusHonest, DraftInv
    <3> QED BY <1>3, <1>t, <2>1, <3>1 DEF PublishLoads
  <2>2. CASE told' = told
      BY <1>3, <1>u, <2>2 DEF PublishLoads
  <2> QED BY <1>3, <2>1, <2>2 DEF PublishLoads
<1>4. CASE PublishClaims(r)
    BY <1>4, <1>u, <1>s DEF PublishClaims
<1>5. CASE TelegramPosts(r)
  <2>1. posted[b] = 0 /\ draft[b].status = "publishing"
      BY <1>5 DEF TelegramPosts, Claiming, ClaimHeld, DraftInv
  <2>2. text[b] # NoContent
      BY <1>i, <2>1 DEF StatusHonest, DraftInv
  <2>3. posted' = [posted EXCEPT ![b] = 1]
      BY <1>5, <1>i, <2>1 DEF TelegramPosts, DraftInv, DraftTypeOK
  <2>4. text' = text /\ told' = told
      BY <1>5 DEF TelegramPosts
  <2>5. Posts!Appear(b)
      BY <2>1, <2>2, <2>3, <2>4 DEF Posts!Appear
  <2> QED BY <1>i, <2>5 DEF Posts!NextPosts
<1>6. CASE PublishFails(r)
    BY <1>6, <1>u, <1>s DEF PublishFails
<1>7. CASE Confirmed(r)
  <2>1. posted[b] = 1
      BY <1>7 DEF Confirmed, Claiming, ClaimHeld, DraftInv
  <2> QED BY <1>7, <1>i, <1>s, <1>t, <2>1 DEF Confirmed
<1>8. CASE DraftCallDies(r)
    BY <1>8, <1>u DEF DraftCallDies
<1> QED BY <1>1, <1>2, <1>3, <1>4, <1>5, <1>6, <1>7, <1>8, <1>9 DEF DraftStep

\* Saving and publishing, with their claims, lost answers and crashes, do what
\* PostOnce promises: one content per identifier, one post, told only afterwards.
THEOREM DraftsPostOnce == DraftSpec => DraftsArePostedOnce
<1>1. InitDrafts => Posts!InitPosts
    BY DEF InitDrafts, Posts!InitPosts
<1>2. DraftInv /\ [NextDrafts]_draftVars => [Posts!NextPosts]_(Posts!postVars)
  <2> SUFFICES ASSUME DraftInv, [NextDrafts]_draftVars
               PROVE  Posts!NextPosts \/ UNCHANGED Posts!postVars
      OBVIOUS
  <2>1. CASE NextDrafts
      BY <2>1, StepsPostOnce DEF NextDrafts
  <2>2. CASE UNCHANGED draftVars
      BY <2>2 DEF draftVars, Posts!postVars
  <2> QED BY <2>1, <2>2
<1> QED BY <1>1, <1>2, DraftInit, DraftInvStep, PTL DEF DraftSpec, DraftsArePostedOnce
=============================================================================
