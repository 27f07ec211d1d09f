------------------------- MODULE Assistant_proofs ---------------------------
(* Proofs about the parts that MCAssistant runs side by side: invited accounts, *)
(* the metadata reconciliation, the bot, the media cache, paging and the        *)
(* peer-number migrations, each for any value of its constants; and about the   *)
(* composition.                                                                 *)
EXTENDS MCAssistant, PostDraft_proofs, FiniteSetTheorems, SequenceTheorems, WellFoundedInduction

(***************************************************************************)
(* Accounts.                                                               *)
(***************************************************************************)

\* A link that waits has never been used, and links that are not made yet neither.
LinksFresh ==
    /\ link <= made
    /\ \A l \in Links : l = link \/ l > made => accepted[l] = 0

\* A request at work came by a link that was accepted.
TokensAccepted ==
    \A v \in Verifiers : verifier[v].at # "idle" =>
        verifier[v].token \in Links /\ accepted[verifier[v].token] > 0

AccountInv == AccountTypeOK /\ LinksFresh /\ TokensAccepted /\ OnlyTheInvited

VerifierState == [at : {"idle", "signing", "signed"}, token : 0..MaxLinks,
                  who : People \cup {NoOne}]

LEMMA InitAccountInv == InitAccounts => AccountInv
<1> SUFFICES ASSUME InitAccounts PROVE AccountInv
    OBVIOUS
<1> USE AccountConstants DEF InitAccounts, NotVerifying, Links
<1>1. AccountTypeOK
    BY DEF AccountTypeOK
<1>2. LinksFresh /\ TokensAccepted /\ OnlyTheInvited
    BY DEF LinksFresh, TokensAccepted, OnlyTheInvited
<1> QED BY <1>1, <1>2 DEF AccountInv

\* The links, their use and the account, at each step.
LEMMA LinkSteps == ASSUME AccountInv, [NextAccounts]_accountVars
                   PROVE  /\ account' \in {"absent", "invited", "active"}
                          /\ link' \in 0..MaxLinks /\ made' \in 0..MaxLinks
                          /\ accepted' \in [Links -> Nat]
                          /\ LinksFresh'
                          /\ \A l \in Links : accepted'[l] <= 1 /\ accepted[l] <= accepted'[l]
<1> USE AccountConstants DEF AccountInv, AccountTypeOK, LinksFresh, OnlyTheInvited, Links
<1>1. CASE Invites
    BY <1>1 DEF Invites
<1>2. CASE LinkExpires
    BY <1>2 DEF LinkExpires
<1>3. ASSUME NEW l \in Links, AcceptsLink(l)
      PROVE  /\ account' \in {"absent", "invited", "active"}
             /\ link' \in 0..MaxLinks /\ made' \in 0..MaxLinks
             /\ accepted' \in [Links -> Nat]
             /\ LinksFresh'
             /\ \A k \in Links : accepted'[k] <= 1 /\ accepted[k] <= accepted'[k]
    BY <1>3 DEF AcceptsLink
<1>4. CASE UNCHANGED <<account, link, made, accepted>>
    BY <1>4
<1>5. NextAccounts => \/ Invites \/ LinkExpires \/ \E l \in Links : AcceptsLink(l)
                      \/ UNCHANGED <<account, link, made, accepted>>
    BY DEF NextAccounts, ClientsGo, RequestsCode, Verifies, SignsIn, Verified
<1>6. UNCHANGED accountVars => UNCHANGED <<account, link, made, accepted>>
    BY DEF accountVars
<1> QED BY <1>1, <1>2, <1>3, <1>4, <1>5, <1>6

\* The clients, the requests and the sessions, at each step.
LEMMA VerifierSteps == ASSUME AccountInv, [NextAccounts]_accountVars
                       PROVE  /\ pending' \subseteq Links \X People
                              /\ verifier' \in [Verifiers -> VerifierState]
                              /\ breaks' \in 0..MaxBreaks
                              /\ sessions' \subseteq {"expected"}
                              /\ \A v \in Verifiers : verifier'[v].at # "idle" =>
                                   /\ verifier'[v].token \in Links
                                   /\ accepted[verifier'[v].token] > 0
                              /\ sessions' # {} => \E l \in Links : accepted[l] > 0
<1> USE AccountConstants
<1> DEFINE Good == /\ pending' \subseteq Links \X People
                   /\ verifier' \in [Verifiers -> VerifierState]
                   /\ breaks' \in 0..MaxBreaks
                   /\ sessions' \subseteq {"expected"}
                   /\ \A v \in Verifiers : verifier'[v].at # "idle" =>
                        /\ verifier'[v].token \in Links
                        /\ accepted[verifier'[v].token] > 0
                   /\ sessions' # {} => \E l \in Links : accepted[l] > 0
<1>t. /\ pending \subseteq Links \X People
      /\ verifier \in [Verifiers -> VerifierState]
      /\ breaks \in 0..MaxBreaks
      /\ sessions \subseteq {"expected"}
      /\ accepted \in [Links -> Nat]
    BY DEF AccountInv, AccountTypeOK, OnlyTheInvited, VerifierState
<1>a. /\ \A v \in Verifiers : verifier[v].at # "idle" =>
           verifier[v].token \in Links /\ accepted[verifier[v].token] > 0
      /\ sessions # {} => \E l \in Links : accepted[l] > 0
    BY DEF AccountInv, TokensAccepted, OnlyTheInvited
<1>n. NotVerifying \in VerifierState /\ NotVerifying.at = "idle"
    BY DEF NotVerifying, VerifierState
<1>b. Break => breaks' \in 0..MaxBreaks
    BY <1>t DEF Break
<1>p. \A v \in Verifiers : Popped(v) => pending' \subseteq Links \X People
    BY <1>t DEF Popped
<1>d. ASSUME NEW v \in Verifiers, Departs(v)
      PROVE  /\ verifier' \in [Verifiers -> VerifierState]
             /\ \A u \in Verifiers : verifier'[u].at # "idle" =>
                  verifier'[u].token \in Links /\ accepted[verifier'[u].token] > 0
    BY <1>d, <1>t, <1>a, <1>n DEF Departs
<1>1. CASE UNCHANGED <<pending, verifier, sessions, breaks>>
    BY <1>1, <1>t, <1>a
<1>2. ASSUME NEW t \in Links, NEW who \in People, RequestsCode(t, who) PROVE Good
    BY <1>2, <1>t, <1>a DEF RequestsCode
<1>3. ASSUME NEW v \in Verifiers, NEW t \in Links, NEW who \in People, Verifies(v, t, who)
      PROVE  Good
  <2>1. [at |-> "signing", token |-> t, who |-> who] \in VerifierState
      BY DEF VerifierState, Links
  <2>2. accepted[t] > 0
      BY <1>3 DEF Verifies, Authenticated
  <2> QED BY <1>3, <1>t, <1>a, <2>1, <2>2 DEF Verifies
<1>4. ASSUME NEW v \in Verifiers, SignsIn(v) PROVE Good
  <2>1. verifier[v].token \in Links /\ accepted[verifier[v].token] > 0 /\ verifier[v] \in VerifierState
      BY <1>4, <1>t, <1>a DEF SignsIn
  <2>2. CASE verifier' = [verifier EXCEPT ![v].at = "signed"] /\ UNCHANGED <<pending, breaks>>
    <3>1. verifier' = [verifier EXCEPT ![v] = [verifier[v] EXCEPT !.at = "signed"]]
        BY <2>2
    <3>2. /\ [verifier[v] EXCEPT !.at = "signed"] \in VerifierState
          /\ [verifier[v] EXCEPT !.at = "signed"].token = verifier[v].token
        BY <2>1 DEF VerifierState
    <3> QED BY <1>4, <1>t, <1>a, <2>1, <2>2, <3>1, <3>2 DEF SignsIn
  <2>3. CASE Departs(v) /\ Break /\ UNCHANGED pending
      BY <1>4, <1>t, <1>a, <1>b, <1>d, <2>3 DEF SignsIn
  <2>4. CASE Departs(v) /\ Break /\ Popped(v)
      BY <1>4, <1>t, <1>a, <1>b, <1>d, <1>p, <2>1, <2>4 DEF SignsIn
  <2> QED BY <1>4, <2>2, <2>3, <2>4 DEF SignsIn
<1>5. ASSUME NEW v \in Verifiers, Verified(v) PROVE Good
  <2>1. verifier[v].token \in Links /\ accepted[verifier[v].token] > 0
      BY <1>5, <1>a DEF Verified
  <2>2. sessions' \subseteq {"expected"}
      BY <1>5, <1>t DEF Verified
  <2>3. pending' \subseteq Links \X People
      BY <1>5, <1>p DEF Verified
  <2> QED BY <1>5, <1>t, <1>d, <2>1, <2>2, <2>3 DEF Verified
<1>6. CASE ClientsGo
  <2>1. pending' \subseteq Links \X People
      BY <1>6, <1>t DEF ClientsGo
  <2>2. /\ verifier' \in [Verifiers -> VerifierState]
        /\ \A v \in Verifiers : verifier'[v].at # "idle" => verifier'[v] = verifier[v]
      BY <1>6, <1>t, <1>n DEF ClientsGo
  <2> QED BY <1>6, <1>t, <1>a, <1>b, <2>1, <2>2 DEF ClientsGo
<1>7. NextAccounts => \/ UNCHANGED <<pending, verifier, sessions, breaks>>
                      \/ \E t \in Links, who \in People : RequestsCode(t, who)
                      \/ \E v \in Verifiers, t \in Links, who \in People : Verifies(v, t, who)
                      \/ \E v \in Verifiers : SignsIn(v) \/ Verified(v)
                      \/ ClientsGo
    BY DEF NextAccounts, Invites, LinkExpires, AcceptsLink
<1>8. UNCHANGED accountVars => UNCHANGED <<pending, verifier, sessions, breaks>>
    BY DEF accountVars
<1> QED BY <1>1, <1>2, <1>3, <1>4, <1>5, <1>6, <1>7, <1>8

LEMMA AccountInvStep == AccountInv /\ [NextAccounts]_accountVars => AccountInv'
<1> SUFFICES ASSUME AccountInv, [NextAccounts]_accountVars PROVE AccountInv'
    OBVIOUS
<1>1. AccountTypeOK'
  <2>1. sessions' \subseteq People
      BY VerifierSteps DEF People
  <2> QED BY LinkSteps, VerifierSteps, <2>1 DEF AccountTypeOK, VerifierState
<1>2. \A l \in Links : accepted[l] \in Nat /\ accepted'[l] \in Nat
    BY LinkSteps DEF AccountInv, AccountTypeOK
<1>3. TokensAccepted'
  <2> SUFFICES ASSUME NEW v \in Verifiers, verifier'[v].at # "idle"
               PROVE  verifier'[v].token \in Links /\ accepted'[verifier'[v].token] > 0
      BY DEF TokensAccepted
  <2> QED BY VerifierSteps, LinkSteps, <1>2
<1>4. OnlyTheInvited'
  <2>1. \A l \in Links : accepted[l] > 0 => accepted'[l] = 1
      BY LinkSteps, <1>2
  <2> QED BY VerifierSteps, LinkSteps, <2>1 DEF OnlyTheInvited
<1> QED BY LinkSteps, <1>1, <1>3, <1>4 DEF AccountInv

\* A link lets in once, and only the Telegram account that was invited gets a session
\* (accept_invitation, verify_code), however links, codes and requests overlap and fail.
THEOREM OnlyTheInvitedEnter == AccountSpec => []OnlyTheInvited
<1>1. AccountInv => OnlyTheInvited
    BY DEF AccountInv
<1> QED BY <1>1, InitAccountInv, AccountInvStep, PTL DEF AccountSpec

(***************************************************************************)
(* Reconcile.                                                              *)
(***************************************************************************)

LEMMA Least == ASSUME NEW T \in SUBSET Nat, T # {} PROVE Min(T) \in T /\ \A y \in T : Min(T) <= y
<1>1. IsWellFoundedOn(OpToRel(<, Nat), Nat)
    BY NatLessThanWellFounded
<1>2. PICK x \in T : \A y \in T : ~ (<<y, x>> \in OpToRel(<, Nat))
    BY <1>1, WFMin
<1>3. \A y \in T : ~ (y < x)
    BY <1>2 DEF OpToRel
<1>4. \E z \in T : \A y \in T : z <= y
    BY <1>3
<1> QED BY <1>4 DEF Min

\* What a pass holds: a number of messages, each in a text it has had.
Batches == UNION {[S -> 1..Texts] : S \in SUBSET Numbers}
PassState == [at : {"idle", "walking", "stopping", "ended"}, batch : Batches,
              last : {0} \cup Numbers, locked : SUBSET (Numbers \cup {0})]

ReconcileTypes ==
    /\ said \in [Numbers -> 0..Texts] /\ heard \in [Numbers -> 0..Texts]
    /\ text \in [Numbers -> 0..Texts]
    /\ removed \subseteq Numbers /\ slipped \subseteq Numbers
    /\ revisions \in [Numbers -> SUBSET (1..Texts)] /\ held \in [Numbers -> SUBSET (1..Texts)]
    /\ point \in [status : {"pending", "running", "paused", "complete", "failed"},
                  last : {0} \cup Numbers]
    /\ pass \in [Passes -> PassState]
    /\ snags \in 0..MaxSnags

\* Numbers are given in order, and neither the checkpoint nor a walk is beyond them.
NumbersAscend ==
    /\ \A m, o \in Numbers : o < m /\ said[m] > 0 => said[o] > 0
    /\ \A m \in Numbers : m <= point.last => said[m] > 0
    /\ \A p \in Passes, m \in Numbers : m <= pass[p].last => said[m] > 0

\* Whatever a walk has passed is stored or in its batch.
WalksCover ==
    \A p \in Passes, m \in Numbers \ (Blank \cup removed) :
      m <= pass[p].last => m \in Batch(p) \/ text[m] # 0

\* A row that a write did not find to lock has no text to lose, or has slipped in since.
UnlockedIsNew ==
    \A p \in Passes : Writing(p) =>
      \A m \in Batch(p) : m \in pass[p].locked \/ text[m] = 0 \/ m \in slipped

\* The locked ones are rows with a text.
LockedAreRows ==
    \A p \in Passes : \A m \in pass[p].locked \ {0} : m \in Batch(p) /\ text[m] # 0

LEMMA EmptyBatch == Off \in PassState /\ Off.at = "idle" /\ DOMAIN Off.batch = {} /\ Off.last = 0
                    /\ Off.locked = {}
<1>1. [m \in {} |-> 0] \in [{} -> 1..Texts] /\ DOMAIN [m \in {} |-> 0] = {}
    OBVIOUS
<1>2. [m \in {} |-> 0] \in Batches
    BY <1>1 DEF Batches
<1> QED BY <1>1, <1>2 DEF Off, PassState

LEMMA BatchFacts == ASSUME NEW b \in Batches
                    PROVE  DOMAIN b \subseteq Numbers /\ \A m \in DOMAIN b : b[m] \in 1..Texts
    BY DEF Batches

LEMMA ReconcileTypesInit == InitReconcile => ReconcileTypes
    BY ReconcileConstants, EmptyBatch DEF InitReconcile, ReconcileTypes

\* What a write or the listener does to texts and what has been held.
LEMMA HoldsFacts ==
    ASSUME ReconcileTypes, NEW b \in Batches, Holds(b)
    PROVE  /\ text' \in [Numbers -> 0..Texts] /\ held' \in [Numbers -> SUBSET (1..Texts)]
           /\ \A m \in Numbers : \/ m \in DOMAIN b /\ text'[m] = b[m] /\ b[m] \in 1..Texts
                                    /\ held'[m] = held[m] \cup {b[m]}
                                 \/ m \notin DOMAIN b /\ text'[m] = text[m] /\ held'[m] = held[m]
<1>1. \A m \in DOMAIN b : b[m] \in 1..Texts
    BY BatchFacts
<1>2. text' = [m \in Numbers |-> IF m \in DOMAIN b THEN b[m] ELSE text[m]]
      /\ held' = [m \in Numbers |-> held[m] \cup {b[n] : n \in {m} \cap DOMAIN b}]
    BY DEF Holds
<1>3. ASSUME NEW m \in Numbers
      PROVE  \/ m \in DOMAIN b /\ {b[n] : n \in {m} \cap DOMAIN b} = {b[m]}
             \/ m \notin DOMAIN b /\ {b[n] : n \in {m} \cap DOMAIN b} = {}
    OBVIOUS
<1>4. ASSUME NEW m \in Numbers
      PROVE  /\ text'[m] \in 0..Texts /\ held'[m] \in SUBSET (1..Texts)
             /\ \/ m \in DOMAIN b /\ text'[m] = b[m] /\ b[m] \in 1..Texts
                   /\ held'[m] = held[m] \cup {b[m]}
                \/ m \notin DOMAIN b /\ text'[m] = text[m] /\ held'[m] = held[m]
  <2>1. CASE m \in DOMAIN b
      BY <1>1, <1>2, <1>3, <2>1, ReconcileConstants DEF ReconcileTypes
  <2>2. CASE m \notin DOMAIN b
    <3>1. held'[m] = held[m] \cup {} /\ text'[m] = text[m]
        BY <1>2, <1>3, <2>2
    <3> QED BY <2>2, <3>1 DEF ReconcileTypes
  <2> QED BY <2>1, <2>2
<1> QED BY <1>2, <1>4

LEMMA RevisedFacts ==
    ASSUME ReconcileTypes, NEW those, Revised(those),
           \A m \in Numbers : m \in those => text[m] # 0
    PROVE  /\ revisions' \in [Numbers -> SUBSET (1..Texts)]
           /\ \A m \in Numbers : revisions'[m] = IF m \in those THEN revisions[m] \cup {text[m]}
                                                ELSE revisions[m]
    BY ReconcileConstants DEF ReconcileTypes, Revised

ReconcileInv == ReconcileTypes /\ NumbersAscend /\ WalksCover /\ UnlockedIsNew
                /\ LockedAreRows /\ CheckpointCovers /\ HistoryKept

LEMMA ReconcileInvInit == InitReconcile => ReconcileInv
<1> SUFFICES ASSUME InitReconcile PROVE ReconcileInv
    OBVIOUS
<1>1. ReconcileTypes
    BY ReconcileTypesInit
<1>2. \A p \in Passes : pass[p] = Off
    BY DEF InitReconcile
<1>3. \A m \in Numbers : m \in Nat /\ m > 0
    BY ReconcileConstants
<1>4. NumbersAscend
    BY <1>2, <1>3, EmptyBatch DEF InitReconcile, NumbersAscend
<1>5. WalksCover /\ UnlockedIsNew /\ LockedAreRows
    BY <1>2, <1>3, EmptyBatch
       DEF InitReconcile, WalksCover, UnlockedIsNew, LockedAreRows, Writing, Batch
<1>6. CheckpointCovers /\ HistoryKept
    BY <1>3 DEF InitReconcile, CheckpointCovers, HistoryKept
<1> QED BY <1>1, <1>4, <1>5, <1>6 DEF ReconcileInv

\* Telegram.
LEMMA SpeaksKeeps == ASSUME ReconcileInv, NEW m \in Numbers, Speaks(m) PROVE ReconcileInv'
<1>1. /\ said \in [Numbers -> 0..Texts] /\ removed \subseteq Numbers /\ Texts \in Nat
      /\ UNCHANGED <<heard, text, revisions, held, slipped, point, pass, snags>>
    BY ReconcileConstants DEF ReconcileInv, ReconcileTypes, Speaks
<1>2. /\ said' \in [Numbers -> 0..Texts] /\ removed' \subseteq Numbers /\ removed \subseteq removed'
      /\ \A n \in Numbers : said[n] > 0 => said'[n] > 0
      /\ \A n \in Numbers : said'[n] > 0 /\ said[n] = 0 =>
           n = m /\ \A o \in Numbers : o < m => said[o] > 0
    BY <1>1 DEF Speaks
<1>3. ReconcileTypes'
    BY <1>1, <1>2 DEF ReconcileInv, ReconcileTypes
<1>4. NumbersAscend'
    BY <1>1, <1>2 DEF ReconcileInv, NumbersAscend
<1>5. WalksCover' /\ UnlockedIsNew' /\ LockedAreRows' /\ HistoryKept'
    BY <1>1, <1>2
       DEF ReconcileInv, WalksCover, UnlockedIsNew, LockedAreRows, HistoryKept, Batch, Writing
<1>6. CheckpointCovers'
    BY <1>1, <1>2 DEF ReconcileInv, CheckpointCovers, NumbersAscend
<1> QED BY <1>3, <1>4, <1>5, <1>6 DEF ReconcileInv

LEMMA OneBatch == ASSUME NEW m \in Numbers, NEW t \in 1..Texts
                  PROVE  [n \in {m} |-> t] \in Batches /\ DOMAIN [n \in {m} |-> t] = {m}
                         /\ [n \in {m} |-> t][m] = t
<1>1. [n \in {m} |-> t] \in [{m} -> 1..Texts]
    OBVIOUS
<1> QED BY <1>1 DEF Batches

LEMMA HoldsOne ==
    ASSUME ReconcileTypes, NEW m \in Numbers, NEW t \in 1..Texts, Holds([n \in {m} |-> t])
    PROVE  /\ text' \in [Numbers -> 0..Texts] /\ held' \in [Numbers -> SUBSET (1..Texts)]
           /\ text'[m] = t /\ held'[m] = held[m] \cup {t}
           /\ \A n \in Numbers \ {m} : text'[n] = text[n] /\ held'[n] = held[n]
<1> DEFINE b == [n \in {m} |-> t]
<1>1. b \in Batches /\ DOMAIN b = {m} /\ b[m] = t /\ Holds(b)
    BY OneBatch
<1> HIDE DEF b
<1>2. /\ text' \in [Numbers -> 0..Texts] /\ held' \in [Numbers -> SUBSET (1..Texts)]
      /\ \A n \in Numbers : \/ n \in DOMAIN b /\ text'[n] = b[n] /\ held'[n] = held[n] \cup {b[n]}
                            \/ n \notin DOMAIN b /\ text'[n] = text[n] /\ held'[n] = held[n]
    BY <1>1, HoldsFacts
<1> QED BY <1>1, <1>2

\* Whatever the listener does, the text of one row at most changes, and is kept.
LEMMA ListenerEffect ==
    ASSUME ReconcileInv, NEW m \in Numbers, ListenerHears(m)
    PROVE  /\ UNCHANGED <<said, removed, point, pass>>
           /\ heard' \in [Numbers -> 0..Texts] /\ snags' \in 0..MaxSnags
           /\ text' \in [Numbers -> 0..Texts] /\ held' \in [Numbers -> SUBSET (1..Texts)]
           /\ revisions' \in [Numbers -> SUBSET (1..Texts)]
           /\ slipped \subseteq slipped' /\ slipped' \subseteq Numbers
           /\ \A n \in Numbers \ {m} : text'[n] = text[n] /\ held'[n] = held[n]
                                       /\ revisions'[n] = revisions[n]
           /\ text[m] # 0 => text'[m] # 0
           /\ (\E p \in Passes : Writing(p) /\ m \in Batch(p)) =>
                text'[m] = text[m] \/ m \in slipped' \/ text[m] # 0
           /\ m \notin slipped => held'[m] \subseteq revisions'[m] \cup {text'[m]}
<1>1. /\ said \in [Numbers -> 0..Texts] /\ heard \in [Numbers -> 0..Texts]
      /\ text \in [Numbers -> 0..Texts] /\ held \in [Numbers -> SUBSET (1..Texts)]
      /\ revisions \in [Numbers -> SUBSET (1..Texts)] /\ slipped \subseteq Numbers
      /\ snags \in 0..MaxSnags /\ Texts \in Nat \ {0} /\ MaxSnags \in Nat
      /\ m \notin slipped => held[m] \subseteq revisions[m] \cup {text[m]}
      /\ heard[m] < said[m]
    BY ReconcileConstants DEF ReconcileInv, ReconcileTypes, HistoryKept, ListenerHears
<1>2. UNCHANGED <<said, removed, point, pass>> /\ heard' = [heard EXCEPT ![m] = @ + 1]
    BY DEF ListenerHears
<1>3. heard' \in [Numbers -> 0..Texts] /\ heard[m] + 1 \in 1..Texts
    BY <1>1, <1>2
<1>4. ReconcileTypes
    BY DEF ReconcileInv
<1>5. CASE /\ heard[m] = 0 /\ text[m] = 0
           /\ Holds([n \in {m} |-> 1])
           /\ slipped' = IF \E p \in Passes : Writing(p) /\ m \in Batch(p)
                         THEN slipped \cup {m} ELSE slipped
           /\ UNCHANGED <<revisions, snags>>
  <2>1. 1 \in 1..Texts
      BY <1>1
  <2>2. /\ text' \in [Numbers -> 0..Texts] /\ held' \in [Numbers -> SUBSET (1..Texts)]
        /\ text'[m] = 1 /\ held'[m] = held[m] \cup {1}
        /\ \A n \in Numbers \ {m} : text'[n] = text[n] /\ held'[n] = held[n]
      BY <1>4, <1>5, <2>1, HoldsOne
  <2>3. m \notin slipped => held[m] \subseteq revisions[m]
      BY <1>1, <1>5
  <2> QED BY <1>1, <1>2, <1>3, <1>5, <2>2, <2>3
<1>6. CASE /\ heard[m] > 0 /\ text[m] # 0
           /\ Revised({m}) /\ Holds([n \in {m} |-> heard[m] + 1])
           /\ UNCHANGED <<slipped, snags>>
  <2>1. /\ text' \in [Numbers -> 0..Texts] /\ held' \in [Numbers -> SUBSET (1..Texts)]
        /\ text'[m] = heard[m] + 1 /\ held'[m] = held[m] \cup {heard[m] + 1}
        /\ \A n \in Numbers \ {m} : text'[n] = text[n] /\ held'[n] = held[n]
      BY <1>3, <1>4, <1>6, HoldsOne
  <2>2. /\ revisions' \in [Numbers -> SUBSET (1..Texts)]
        /\ \A n \in Numbers : revisions'[n] = IF n \in {m} THEN revisions[n] \cup {text[n]}
                                              ELSE revisions[n]
      BY <1>4, <1>6, RevisedFacts
  <2> QED BY <1>1, <1>2, <1>3, <1>6, <2>1, <2>2
<1>7. CASE UNCHANGED <<text, revisions, held, slipped>> /\ snags' \in 0..MaxSnags
    BY <1>1, <1>2, <1>3, <1>7
<1>8. Snag => snags' \in 0..MaxSnags
    BY <1>1 DEF Snag
<1> QED BY <1>1, <1>5, <1>6, <1>7, <1>8 DEF ListenerHears

LEMMA ListenerKeeps == ASSUME ReconcileInv, NEW m \in Numbers, ListenerHears(m) PROVE ReconcileInv'
<1>1. ReconcileTypes'
    BY ListenerEffect DEF ReconcileInv, ReconcileTypes
<1>2. NumbersAscend'
    BY ListenerEffect DEF ReconcileInv, NumbersAscend
<1>3. \A n \in Numbers : text[n] # 0 => text'[n] # 0
    BY ListenerEffect
<1>4. WalksCover' /\ CheckpointCovers'
    BY <1>3, ListenerEffect DEF ReconcileInv, WalksCover, CheckpointCovers, Batch
<1>5. UnlockedIsNew'
  <2> SUFFICES ASSUME NEW p \in Passes, Writing(p), NEW n \in Batch(p)
               PROVE  n \in pass[p].locked \/ text'[n] = 0 \/ n \in slipped'
      BY ListenerEffect DEF UnlockedIsNew, Batch, Writing
  <2>1. n \in Numbers
      BY BatchFacts DEF ReconcileInv, ReconcileTypes, PassState, Batch
  <2>2. n \in pass[p].locked \/ text[n] = 0 \/ n \in slipped
      BY DEF ReconcileInv, UnlockedIsNew
  <2> QED BY <2>1, <2>2, ListenerEffect
<1>6. LockedAreRows'
  <2>1. \A p \in Passes : Batch(p) \subseteq Numbers
      BY BatchFacts DEF ReconcileInv, ReconcileTypes, PassState, Batch
  <2> QED BY <1>3, <2>1, ListenerEffect DEF ReconcileInv, LockedAreRows, Batch
<1>7. HistoryKept'
    BY ListenerEffect DEF ReconcileInv, HistoryKept
<1> QED BY <1>1, <1>2, <1>4, <1>5, <1>6, <1>7 DEF ReconcileInv

\* One pass moves and the checkpoint with it, but nothing is written.
LEMMA PassMoves ==
    ASSUME ReconcileInv, NEW p \in Passes, NEW r \in PassState, pass' = [pass EXCEPT ![p] = r],
           UNCHANGED <<said, removed, heard, text, revisions, held, slipped>>,
           snags' \in 0..MaxSnags,
           point' \in [status : {"pending", "running", "paused", "complete", "failed"},
                       last : {0} \cup Numbers],
           \A m \in Numbers : m <= r.last => said[m] > 0,
           \A m \in Numbers \ (Blank \cup removed) :
             m <= r.last => m \in DOMAIN r.batch \/ text[m] # 0,
           r.locked # {} => \A m \in DOMAIN r.batch : m \in r.locked \/ text[m] = 0 \/ m \in slipped,
           \A m \in r.locked \ {0} : m \in DOMAIN r.batch /\ text[m] # 0,
           \A m \in Numbers : m <= point'.last => said[m] > 0,
           \A m \in Numbers \ (Blank \cup removed) : m <= point'.last => text[m] # 0
    PROVE  ReconcileInv'
<1>1. pass \in [Passes -> PassState] /\ pass' \in [Passes -> PassState] /\ pass'[p] = r
      /\ \A o \in Passes \ {p} : pass'[o] = pass[o]
    BY DEF ReconcileInv, ReconcileTypes
<1>2. ReconcileTypes'
    BY <1>1 DEF ReconcileInv, ReconcileTypes
<1>3. NumbersAscend'
    BY <1>1 DEF ReconcileInv, NumbersAscend
<1>4. WalksCover' /\ UnlockedIsNew' /\ LockedAreRows'
    BY <1>1 DEF ReconcileInv, WalksCover, UnlockedIsNew, LockedAreRows, Batch, Writing
<1>5. CheckpointCovers' /\ HistoryKept'
    BY DEF ReconcileInv, CheckpointCovers, HistoryKept
<1> QED BY <1>2, <1>3, <1>4, <1>5 DEF ReconcileInv

\* What is known of a pass and of the checkpoint.
LEMMA PassFacts ==
    ASSUME ReconcileInv, NEW p \in Passes
    PROVE  /\ pass \in [Passes -> PassState] /\ pass[p] \in PassState /\ snags \in 0..MaxSnags
           /\ point \in [status : {"pending", "running", "paused", "complete", "failed"},
                         last : {0} \cup Numbers]
           /\ point.last \in {0} \cup Numbers /\ pass[p].last \in {0} \cup Numbers
           /\ Batch(p) \subseteq Numbers /\ pass[p].locked \subseteq Numbers \cup {0}
           /\ \A m \in Numbers : m \in Nat /\ m > 0
           /\ \A m \in Batch(p) : pass[p].batch[m] \in 1..Texts
           /\ \A m \in Numbers : m <= point.last => said[m] > 0
           /\ \A m \in Numbers \ (Blank \cup removed) : m <= point.last => text[m] # 0
           /\ \A m \in Numbers : m <= pass[p].last => said[m] > 0
           /\ \A m \in Numbers \ (Blank \cup removed) :
                m <= pass[p].last => m \in Batch(p) \/ text[m] # 0
           /\ Snag => snags' \in 0..MaxSnags
<1>1. /\ pass \in [Passes -> PassState] /\ pass[p] \in PassState /\ snags \in 0..MaxSnags
      /\ point \in [status : {"pending", "running", "paused", "complete", "failed"},
                    last : {0} \cup Numbers]
      /\ \A m \in Numbers : m \in Nat /\ m > 0
    BY ReconcileConstants DEF ReconcileInv, ReconcileTypes
<1>2. /\ point.last \in {0} \cup Numbers /\ pass[p].last \in {0} \cup Numbers
      /\ pass[p].batch \in Batches /\ pass[p].locked \subseteq Numbers \cup {0}
    BY <1>1 DEF PassState
<1>3. Batch(p) \subseteq Numbers /\ \A m \in Batch(p) : pass[p].batch[m] \in 1..Texts
    BY <1>2, BatchFacts DEF Batch
<1>4. /\ \A m \in Numbers : m <= point.last => said[m] > 0
      /\ \A m \in Numbers : m <= pass[p].last => said[m] > 0
    BY DEF ReconcileInv, NumbersAscend
<1>5. \A m \in Numbers \ (Blank \cup removed) : m <= point.last => text[m] # 0
    BY <1>4 DEF ReconcileInv, CheckpointCovers
<1>6. \A m \in Numbers \ (Blank \cup removed) :
        m <= pass[p].last => m \in Batch(p) \/ text[m] # 0
    BY DEF ReconcileInv, WalksCover
<1>7. Snag => snags' \in 0..MaxSnags
    BY <1>1, ReconcileConstants DEF Snag
<1> QED BY <1>1, <1>2, <1>3, <1>4, <1>5, <1>6, <1>7

LEMMA PassBeginsKeeps == ASSUME ReconcileInv, NEW p \in Passes, PassBegins(p) PROVE ReconcileInv'
<1> DEFINE r == [Off EXCEPT !.at = "walking", !.last = point.last]
<1>1. r \in PassState /\ r.last = point.last /\ r.locked = {} /\ DOMAIN r.batch = {}
    BY EmptyBatch, PassFacts DEF PassState
<1>2. pass' = [pass EXCEPT ![p] = r] /\ point' = [point EXCEPT !.status = "running"]
      /\ UNCHANGED <<said, removed, heard, text, revisions, held, slipped, snags>>
    BY DEF PassBegins
<1> HIDE DEF r
<1>3. point'.last = point.last
      /\ point' \in [status : {"pending", "running", "paused", "complete", "failed"},
                     last : {0} \cup Numbers]
    BY <1>2, PassFacts
<1> QED BY <1>1, <1>2, <1>3, PassFacts, PassMoves

LEMMA WalksKeeps == ASSUME ReconcileInv, NEW p \in Passes, Walks(p) PROVE ReconcileInv'
<1> DEFINE m == Min(Ahead(p))
           b == [n \in Batch(p) \cup ({m} \ Blank) |-> IF n = m THEN said[m] ELSE pass[p].batch[n]]
           r == [pass[p] EXCEPT !.last = m, !.batch = b]
<1>1. Ahead(p) \subseteq Numbers /\ Numbers \subseteq Nat \ {0} /\ Ahead(p) # {}
      /\ pass[p].locked = {}
    BY ReconcileConstants DEF Ahead, Walks, Writing
<1>2. m \in Ahead(p) /\ \A o \in Ahead(p) : m <= o
    BY <1>1, Least
<1>3. pass' = [pass EXCEPT ![p] = r]
      /\ UNCHANGED <<said, removed, heard, text, revisions, held, slipped, point, snags>>
    BY PassFacts DEF Walks, PassState
<1> HIDE DEF m
<1>4. m \in Numbers /\ said[m] \in 1..Texts /\ said \in [Numbers -> 0..Texts]
  <2>1. said \in [Numbers -> 0..Texts] /\ Texts \in Nat
      BY ReconcileConstants DEF ReconcileInv, ReconcileTypes
  <2>2. m \in Numbers /\ said[m] > 0
      BY <1>2 DEF Ahead
  <2> QED BY <2>1, <2>2
<1>5. \A o \in Numbers \ removed : o <= m /\ ~ (o <= pass[p].last) => o = m \/ said[o] = 0
  <2> SUFFICES ASSUME NEW o \in Numbers \ removed, o <= m, ~ (o <= pass[p].last), said[o] # 0
               PROVE  o = m
      OBVIOUS
  <2>1. o \in Nat /\ m \in Nat /\ pass[p].last \in Nat /\ said[o] \in 0..Texts
      BY <1>4, PassFacts, ReconcileConstants
  <2>2. o \in Ahead(p)
      BY <2>1 DEF Ahead
  <2> QED BY <1>2, <2>1, <2>2
<1>6. b \in Batches /\ DOMAIN b = Batch(p) \cup ({m} \ Blank)
  <2>1. DOMAIN b \in SUBSET Numbers /\ b \in [DOMAIN b -> 1..Texts]
      BY <1>4, PassFacts
  <2> HIDE DEF b
  <2>2. b \in Batches
      BY <2>1 DEF Batches
  <2> QED BY <2>2 DEF b
<1> HIDE DEF b
<1>7. r \in PassState /\ r.last = m /\ r.batch = b /\ r.locked = {}
    BY <1>1, <1>4, <1>6, PassFacts DEF PassState
<1> HIDE DEF r
<1>8. \A o \in Numbers : o <= m => said[o] > 0
    BY <1>4, PassFacts DEF ReconcileInv, NumbersAscend
<1>9. ASSUME NEW o \in Numbers \ (Blank \cup removed), o <= m PROVE o \in DOMAIN b \/ text[o] # 0
    BY <1>4, <1>5, <1>6, <1>8, <1>9, PassFacts
<1> QED BY <1>3, <1>7, <1>8, <1>9, PassFacts, PassMoves

LEMMA WalkEndsKeeps == ASSUME ReconcileInv, NEW p \in Passes, WalkEnds(p) PROVE ReconcileInv'
<1>1. PICK place \in {"stopping", "ended"} : pass' = [pass EXCEPT ![p].at = place]
    BY DEF WalkEnds
<1> DEFINE r == [pass[p] EXCEPT !.at = place]
<1>2. r \in PassState /\ r.last = pass[p].last /\ r.batch = pass[p].batch /\ r.locked = pass[p].locked
    BY PassFacts DEF PassState
<1>3. pass' = [pass EXCEPT ![p] = r]
    BY <1>1, PassFacts DEF PassState
<1> HIDE DEF r
<1>4. UNCHANGED <<said, removed, heard, text, revisions, held, slipped, point>>
      /\ snags' \in 0..MaxSnags /\ pass[p].locked = {}
    BY PassFacts DEF WalkEnds, Writing
<1>5. /\ \A m \in Numbers : m <= r.last => said[m] > 0
      /\ \A m \in Numbers \ (Blank \cup removed) :
           m <= r.last => m \in DOMAIN r.batch \/ text[m] # 0
    BY <1>2, PassFacts DEF Batch
<1>6. /\ r.locked = {}
      /\ point' \in [status : {"pending", "running", "paused", "complete", "failed"},
                     last : {0} \cup Numbers]
    BY <1>2, <1>4, PassFacts
<1>7. /\ \A m \in Numbers : m <= point'.last => said[m] > 0
      /\ \A m \in Numbers \ (Blank \cup removed) : m <= point'.last => text[m] # 0
    BY <1>4, PassFacts
<1> QED BY <1>2, <1>3, <1>4, <1>5, <1>6, <1>7, PassMoves

LEMMA BatchLocksKeeps == ASSUME ReconcileInv, NEW p \in Passes, BatchLocks(p) PROVE ReconcileInv'
<1> DEFINE l == {0} \cup {m \in Batch(p) : text[m] # 0}
           r == [pass[p] EXCEPT !.locked = l]
<1>1. /\ l \subseteq Numbers \cup {0} /\ \A m \in Batch(p) : m \in l \/ text[m] = 0
      /\ \A m \in l \ {0} : m \in Batch(p) /\ text[m] # 0
    BY PassFacts
<1>2. pass' = [pass EXCEPT ![p] = r]
      /\ UNCHANGED <<said, removed, heard, text, revisions, held, slipped, point, snags>>
    BY PassFacts DEF BatchLocks, PassState
<1> HIDE DEF l
<1>3. r \in PassState /\ r.last = pass[p].last /\ r.batch = pass[p].batch /\ r.locked = l
    BY <1>1, PassFacts DEF PassState
<1> HIDE DEF r
<1>4. /\ snags' \in 0..MaxSnags
      /\ point' \in [status : {"pending", "running", "paused", "complete", "failed"},
                     last : {0} \cup Numbers]
    BY <1>2, PassFacts
<1>5. /\ \A m \in Numbers : m <= r.last => said[m] > 0
      /\ \A m \in Numbers \ (Blank \cup removed) :
           m <= r.last => m \in DOMAIN r.batch \/ text[m] # 0
    BY <1>3, PassFacts DEF Batch
<1>6. /\ r.locked # {} => \A m \in DOMAIN r.batch : m \in r.locked \/ text[m] = 0 \/ m \in slipped
      /\ \A m \in r.locked \ {0} : m \in DOMAIN r.batch /\ text[m] # 0
    BY <1>1, <1>3 DEF Batch
<1>7. /\ \A m \in Numbers : m <= point'.last => said[m] > 0
      /\ \A m \in Numbers \ (Blank \cup removed) : m <= point'.last => text[m] # 0
    BY <1>2, PassFacts
<1> QED BY <1>2, <1>3, <1>4, <1>5, <1>6, <1>7, PassMoves

\* A pass that leaves with nothing to write, or fails, keeps a number that is covered.
LEMMA PassEndsKeeps == ASSUME ReconcileInv, NEW p \in Passes, PassEnds(p) PROVE ReconcileInv'
<1>1. pass' = [pass EXCEPT ![p] = Off] /\ Batch(p) = {}
      /\ UNCHANGED <<said, removed, heard, text, revisions, held, slipped, snags>>
    BY DEF PassEnds
<1>2. point' \in [status : {"pending", "running", "paused", "complete", "failed"},
                  last : {0} \cup Numbers]
      /\ point'.last = pass[p].last
    BY PassFacts DEF PassEnds
<1>3. /\ \A m \in Numbers : ~ (m <= Off.last)
      /\ \A m \in Numbers : m <= point'.last => said[m] > 0
      /\ \A m \in Numbers \ (Blank \cup removed) : m <= point'.last => text[m] # 0
    BY <1>1, <1>2, EmptyBatch, PassFacts
<1> QED BY <1>1, <1>2, <1>3, EmptyBatch, PassFacts, PassMoves

LEMMA PassFailsKeeps == ASSUME ReconcileInv, NEW p \in Passes, PassFails(p) PROVE ReconcileInv'
<1>1. pass' = [pass EXCEPT ![p] = Off] /\ snags' \in 0..MaxSnags
      /\ UNCHANGED <<said, removed, heard, text, revisions, held, slipped>>
    BY PassFacts DEF PassFails
<1>2. point' \in [status : {"pending", "running", "paused", "complete", "failed"},
                  last : {0} \cup Numbers]
      /\ point'.last = point.last
    BY PassFacts DEF PassFails
<1>3. /\ \A m \in Numbers : ~ (m <= Off.last)
      /\ \A m \in Numbers : m <= point'.last => said[m] > 0
      /\ \A m \in Numbers \ (Blank \cup removed) : m <= point'.last => text[m] # 0
    BY <1>2, EmptyBatch, PassFacts
<1> QED BY <1>1, <1>2, <1>3, EmptyBatch, PassMoves

\* The write of a batch: its rows, what they have been, and the checkpoint.
LEMMA WriteEffect ==
    ASSUME ReconcileInv, NEW p \in Passes, BatchWrites(p)
    PROVE  /\ UNCHANGED <<said, removed, heard, snags>>
           /\ text' \in [Numbers -> 0..Texts] /\ held' \in [Numbers -> SUBSET (1..Texts)]
           /\ revisions' \in [Numbers -> SUBSET (1..Texts)]
           /\ \A m \in Numbers \ Batch(p) : text'[m] = text[m] /\ held'[m] = held[m]
                                            /\ revisions'[m] = revisions[m]
           /\ \A m \in Batch(p) :
                /\ m \in Numbers /\ text'[m] # 0 /\ held'[m] = held[m] \cup {text'[m]}
                /\ revisions[m] \subseteq revisions'[m]
                /\ m \in pass[p].locked /\ text[m] # text'[m] => text[m] \in revisions'[m]
<1>1. ReconcileTypes /\ pass[p].batch \in Batches /\ DOMAIN pass[p].batch = Batch(p)
      /\ Batch(p) \subseteq Numbers
    BY PassFacts DEF ReconcileInv, PassState, Batch
<1>2. Holds(pass[p].batch) /\ UNCHANGED <<said, removed, heard, snags>>
    BY DEF BatchWrites, Written
<1>3. /\ text' \in [Numbers -> 0..Texts] /\ held' \in [Numbers -> SUBSET (1..Texts)]
      /\ \A m \in Numbers : \/ m \in Batch(p) /\ text'[m] = pass[p].batch[m]
                               /\ pass[p].batch[m] \in 1..Texts
                               /\ held'[m] = held[m] \cup {pass[p].batch[m]}
                            \/ m \notin Batch(p) /\ text'[m] = text[m] /\ held'[m] = held[m]
    BY <1>1, <1>2, HoldsFacts
<1> DEFINE those == {m \in pass[p].locked \ {0} : text[m] # pass[p].batch[m]}
           changed == {m \in those : m \in Batch(p)}
<1>4. Revised(those)
    BY DEF BatchWrites
<1>5. \A m \in Numbers : m \notin those => revisions'[m] = revisions[m]
    BY <1>4 DEF Revised
<1>6. \A m \in Numbers : m \in those => revisions'[m] = revisions[m] \cup {text[m]}
    BY <1>4 DEF Revised
<1>7. \A m \in Numbers : m \in pass[p].locked => m \in Batch(p) /\ text[m] # 0
    BY ReconcileConstants DEF ReconcileInv, LockedAreRows
<1>8. \A m \in Numbers : m \in those => m \in Batch(p) /\ text[m] # 0
    BY <1>7
<1>9. revisions' \in [Numbers -> SUBSET (1..Texts)]
    BY <1>1, <1>4, <1>8, RevisedFacts
<1>10. \A m \in Numbers \ Batch(p) : revisions'[m] = revisions[m]
    BY <1>5, <1>8
<1>11. ASSUME NEW m \in Batch(p)
       PROVE  /\ m \in Numbers /\ text'[m] # 0 /\ held'[m] = held[m] \cup {text'[m]}
              /\ revisions[m] \subseteq revisions'[m]
              /\ m \in pass[p].locked /\ text[m] # text'[m] => text[m] \in revisions'[m]
  <2>1. m \in Numbers /\ m # 0 /\ text'[m] = pass[p].batch[m] /\ text'[m] # 0
        /\ held'[m] = held[m] \cup {text'[m]}
      BY <1>1, <1>3, ReconcileConstants
  <2>2. m \in pass[p].locked /\ text[m] # text'[m] => m \in those
      BY <2>1
  <2> QED BY <1>5, <1>6, <2>1, <2>2
<1> QED BY <1>2, <1>3, <1>9, <1>10, <1>11

LEMMA BatchWritesKeeps == ASSUME ReconcileInv, NEW p \in Passes, BatchWrites(p) PROVE ReconcileInv'
<1> DEFINE r == [pass[p] EXCEPT !.batch = Off.batch, !.locked = {}]
           crossed == {m \in Batch(p) : text[m] = 0 /\ \E o \in Passes \ {p} :
                                                         Writing(o) /\ m \in Batch(o)}
<1>1. /\ point' = [point EXCEPT !.last = pass[p].last] /\ slipped' = slipped \cup crossed
      /\ Writing(p) /\ UNCHANGED <<said, removed, heard, snags>>
    BY DEF BatchWrites, Written
<1>2. pass' = [pass EXCEPT ![p] = r]
    BY PassFacts DEF BatchWrites, Written, PassState
<1>3. r \in PassState /\ r.last = pass[p].last /\ r.locked = {} /\ DOMAIN r.batch = {}
    BY EmptyBatch, PassFacts DEF PassState
<1> HIDE DEF r
<1>4. pass' \in [Passes -> PassState] /\ pass'[p] = r /\ \A o \in Passes \ {p} : pass'[o] = pass[o]
    BY <1>2, <1>3, PassFacts
<1>5. point'.last = pass[p].last
      /\ point' \in [status : {"pending", "running", "paused", "complete", "failed"},
                     last : {0} \cup Numbers]
    BY <1>1, PassFacts
<1>6. Batch(p) \subseteq Numbers
    BY PassFacts
<1>7. \A m \in Numbers : text[m] # 0 => text'[m] # 0
    BY WriteEffect
<1>8. \A m \in Batch(p) : text'[m] # 0
    BY WriteEffect
<1>9. ReconcileTypes'
    BY <1>1, <1>4, <1>5, <1>6, WriteEffect DEF ReconcileInv, ReconcileTypes
<1>10. NumbersAscend'
    BY <1>1, <1>3, <1>4, <1>5, PassFacts DEF ReconcileInv, NumbersAscend
<1>11. WalksCover'
    BY <1>1, <1>3, <1>4, <1>7, <1>8, PassFacts DEF ReconcileInv, WalksCover, Batch
<1>12. CheckpointCovers'
    BY <1>1, <1>5, <1>7, <1>8, PassFacts DEF CheckpointCovers
<1>13. LockedAreRows'
  <2> SUFFICES ASSUME NEW o \in Passes, NEW m \in pass'[o].locked \ {0}
               PROVE  m \in DOMAIN pass'[o].batch /\ text'[m] # 0
      BY DEF LockedAreRows, Batch
  <2>1. o # p /\ m \in pass[o].locked \ {0}
      BY <1>3, <1>4
  <2>2. m \in DOMAIN pass[o].batch /\ text[m] # 0 /\ m \in Numbers
      BY <2>1, PassFacts DEF ReconcileInv, LockedAreRows, Batch
  <2> QED BY <1>4, <1>7, <2>1, <2>2
<1>14. UnlockedIsNew'
  <2> SUFFICES ASSUME NEW o \in Passes, pass'[o].locked # {}, NEW m \in DOMAIN pass'[o].batch
               PROVE  m \in pass'[o].locked \/ text'[m] = 0 \/ m \in slipped'
      BY DEF UnlockedIsNew, Batch, Writing
  <2>1. o # p /\ pass'[o] = pass[o]
      BY <1>3, <1>4
  <2>2. Writing(o) /\ m \in Batch(o) /\ m \in Numbers
      BY <2>1, PassFacts DEF Writing, Batch
  <2>3. m \in pass[o].locked \/ text[m] = 0 \/ m \in slipped
      BY <2>2 DEF ReconcileInv, UnlockedIsNew
  <2>4. CASE m \in Batch(p) /\ text[m] = 0
      BY <1>1, <2>1, <2>2, <2>4
  <2>5. CASE m \notin Batch(p)
      BY <1>1, <2>1, <2>2, <2>3, <2>5, WriteEffect
  <2> QED BY <1>1, <2>1, <2>3, <2>4, <2>5
<1>15. HistoryKept'
  <2> SUFFICES ASSUME NEW m \in Numbers, m \notin slipped'
               PROVE  held'[m] \subseteq revisions'[m] \cup {text'[m]}
      BY DEF HistoryKept
  <2>1. m \notin slipped /\ held[m] \subseteq revisions[m] \cup {text[m]} /\ held[m] \subseteq 1..Texts
      BY <1>1 DEF ReconcileInv, HistoryKept, ReconcileTypes
  <2>2. CASE m \notin Batch(p)
      BY <2>1, <2>2, WriteEffect
  <2>3. CASE m \in Batch(p)
    <3>1. m \in pass[p].locked \/ text[m] = 0
        BY <1>1, <2>1, <2>3 DEF ReconcileInv, UnlockedIsNew
    <3>2. CASE text[m] = 0
      <4>1. held[m] \subseteq revisions[m]
          BY <2>1, <3>2
      <4> QED BY <2>3, <4>1, WriteEffect
    <3>3. CASE m \in pass[p].locked
        BY <2>1, <2>3, <3>3, WriteEffect
    <3> QED BY <3>1, <3>2, <3>3
  <2> QED BY <2>2, <2>3
<1> QED BY <1>9, <1>10, <1>11, <1>12, <1>13, <1>14, <1>15 DEF ReconcileInv

LEMMA ReconcileInvStep == ReconcileInv /\ [NextReconcile]_reconcileVars => ReconcileInv'
<1> SUFFICES ASSUME ReconcileInv, [NextReconcile]_reconcileVars PROVE ReconcileInv'
    OBVIOUS
<1>1. CASE UNCHANGED reconcileVars
    BY <1>1 DEF reconcileVars, ReconcileInv, ReconcileTypes, NumbersAscend, WalksCover,
                UnlockedIsNew, LockedAreRows, CheckpointCovers, HistoryKept, Batch, Writing
<1>2. ASSUME NEW m \in Numbers, Speaks(m) \/ ListenerHears(m) PROVE ReconcileInv'
    BY <1>2, SpeaksKeeps, ListenerKeeps
<1>3. ASSUME NEW p \in Passes,
             \/ PassBegins(p) \/ Walks(p) \/ WalkEnds(p) \/ BatchLocks(p) \/ BatchWrites(p)
             \/ PassEnds(p) \/ PassFails(p)
      PROVE  ReconcileInv'
    BY <1>3, PassBeginsKeeps, WalksKeeps, WalkEndsKeeps, BatchLocksKeeps, BatchWritesKeeps,
       PassEndsKeeps, PassFailsKeeps
<1> QED BY <1>1, <1>2, <1>3 DEF NextReconcile

LEMMA ReconcileIsInductive == ReconcileSpec => []ReconcileInv
<1> QED BY ReconcileInvInit, ReconcileInvStep, PTL DEF ReconcileSpec

\* However a reconciliation is limited, fails, is killed or is run twice at a time, with
\* any number of messages and any batch size, its checkpoint passes over no message that
\* Telegram still has and the archive has not.
THEOREM CheckpointsPassOverNothing == ReconcileSpec => []CheckpointCovers
<1>1. ReconcileInv => CheckpointCovers
    BY DEF ReconcileInv
<1> QED BY <1>1, ReconcileIsInductive, PTL

\* The reconciliation and the listener write over each other's rows without losing a text:
\* all that a row has held is its text or a revision, unless the row slipped in between the
\* lock and the write of a batch.
THEOREM RevisionsAreComplete == ReconcileSpec => []HistoryKept
<1>1. ReconcileInv => HistoryKept
    BY DEF ReconcileInv
<1> QED BY <1>1, ReconcileIsInductive, PTL

\* A batch is written when it is full: it never holds more.
BatchesFit == \A p \in Passes : IsFiniteSet(Batch(p)) /\ Cardinality(Batch(p)) <= BatchSize

\* A pass that has no more in its batch than before, or nothing.
LEMMA BatchNotGrown ==
    ASSUME ReconcileInv, BatchesFit, NEW p \in Passes, NEW r, pass' = [pass EXCEPT ![p] = r],
           DOMAIN r.batch \in {Batch(p), {}}
    PROVE  BatchesFit'
<1>1. pass \in [Passes -> PassState]
    BY PassFacts
<1>2. \A o \in Passes \ {p} : pass'[o] = pass[o]
    BY <1>1
<1>3. pass'[p] = r
    BY <1>1
<1>4. IsFiniteSet({}) /\ Cardinality({}) <= BatchSize
    BY FS_EmptySet, ReconcileConstants
<1> QED BY <1>2, <1>3, <1>4 DEF BatchesFit, Batch

LEMMA BatchesFitStep == ReconcileInv /\ BatchesFit /\ [NextReconcile]_reconcileVars => BatchesFit'
<1> SUFFICES ASSUME ReconcileInv, BatchesFit, [NextReconcile]_reconcileVars PROVE BatchesFit'
    OBVIOUS
<1>1. CASE UNCHANGED pass
    BY <1>1 DEF BatchesFit, Batch
<1>2. ASSUME NEW p \in Passes, Walks(p) PROVE BatchesFit'
  <2> DEFINE m == Min(Ahead(p))
             b == [n \in Batch(p) \cup ({m} \ Blank) |-> IF n = m THEN said[m] ELSE pass[p].batch[n]]
  <2>1. pass \in [Passes -> PassState] /\ pass[p] \in PassState
      BY PassFacts
  <2>2. pass' = [pass EXCEPT ![p].last = m, ![p].batch = b]
      BY <1>2 DEF Walks
  <2>3. \A o \in Passes \ {p} : pass'[o] = pass[o]
      BY <2>1, <2>2
  <2>4. pass'[p].batch = b
      BY <2>1, <2>2 DEF PassState
  <2>5. Batch(p)' = Batch(p) \cup ({m} \ Blank)
      BY <2>4 DEF Batch
  <2> HIDE DEF m, b
  <2>6. IsFiniteSet(Batch(p)) /\ Cardinality(Batch(p)) < BatchSize /\ Cardinality(Batch(p)) \in Nat
      BY <1>2, FS_CardinalityType DEF Walks, BatchesFit
  <2>7. Batch(p)' = Batch(p) \/ Batch(p)' = Batch(p) \cup {m}
      BY <2>5
  <2>8. /\ IsFiniteSet(Batch(p) \cup {m})
        /\ Cardinality(Batch(p) \cup {m}) \in {Cardinality(Batch(p)), Cardinality(Batch(p)) + 1}
      BY <2>6, FS_AddElement
  <2>9. IsFiniteSet(Batch(p)') /\ Cardinality(Batch(p)') <= BatchSize
      BY <2>6, <2>7, <2>8, ReconcileConstants
  <2> QED BY <2>3, <2>9 DEF BatchesFit, Batch
<1>3. ASSUME NEW p \in Passes, PassBegins(p) PROVE BatchesFit'
  <2> DEFINE r == [Off EXCEPT !.at = "walking", !.last = point.last]
  <2>1. pass' = [pass EXCEPT ![p] = r] /\ DOMAIN r.batch = {}
      BY <1>3, EmptyBatch DEF PassBegins, PassState
  <2> HIDE DEF r
  <2> QED BY <2>1, BatchNotGrown
<1>4. ASSUME NEW p \in Passes, WalkEnds(p) PROVE BatchesFit'
  <2>1. PICK place : pass' = [pass EXCEPT ![p].at = place]
      BY <1>4 DEF WalkEnds
  <2> DEFINE r == [pass[p] EXCEPT !.at = place]
  <2>2. pass' = [pass EXCEPT ![p] = r] /\ DOMAIN r.batch = Batch(p)
      BY <2>1, PassFacts DEF PassState, Batch
  <2> HIDE DEF r
  <2> QED BY <2>2, BatchNotGrown
<1>5. ASSUME NEW p \in Passes, BatchLocks(p) PROVE BatchesFit'
  <2> DEFINE r == [pass[p] EXCEPT !.locked = {0} \cup {m \in Batch(p) : text[m] # 0}]
  <2>1. pass' = [pass EXCEPT ![p] = r] /\ DOMAIN r.batch = Batch(p)
      BY <1>5, PassFacts DEF BatchLocks, PassState, Batch
  <2> HIDE DEF r
  <2> QED BY <2>1, BatchNotGrown
<1>6. ASSUME NEW p \in Passes, BatchWrites(p) PROVE BatchesFit'
  <2> DEFINE r == [pass[p] EXCEPT !.batch = Off.batch, !.locked = {}]
  <2>1. pass' = [pass EXCEPT ![p] = r] /\ DOMAIN r.batch = {}
      BY <1>6, PassFacts, EmptyBatch DEF BatchWrites, Written, PassState
  <2> HIDE DEF r
  <2> QED BY <2>1, BatchNotGrown
<1>7. ASSUME NEW p \in Passes, PassEnds(p) \/ PassFails(p) PROVE BatchesFit'
    BY <1>7, EmptyBatch, BatchNotGrown DEF PassEnds, PassFails
<1> QED BY <1>1, <1>2, <1>3, <1>4, <1>5, <1>6, <1>7
        DEF NextReconcile, Speaks, ListenerHears, reconcileVars

\* The values of the reconciliation's variables are what the code can hold, a batch no
\* larger than batch_size, whatever overlaps, fails or is killed.
THEOREM ReconcileTypesAlways == ReconcileSpec => []ReconcileTypeOK
<1>1. InitReconcile => BatchesFit
    BY EmptyBatch, FS_EmptySet, ReconcileConstants DEF InitReconcile, BatchesFit, Batch
<1>2. ReconcileInv /\ BatchesFit => ReconcileTypeOK
  <2> SUFFICES ASSUME ReconcileInv, BatchesFit PROVE ReconcileTypeOK
      OBVIOUS
  <2>1. ASSUME NEW p \in Passes
        PROVE  /\ pass[p].at \in {"idle", "walking", "stopping", "ended"}
               /\ DOMAIN pass[p].batch \subseteq Numbers
               /\ Cardinality(DOMAIN pass[p].batch) <= BatchSize
               /\ pass[p].last \in {0} \cup Numbers /\ pass[p].locked \subseteq Numbers \cup {0}
      BY PassFacts DEF PassState, Batch, BatchesFit
  <2> QED BY <2>1 DEF ReconcileTypeOK, ReconcileInv, ReconcileTypes
<1> QED BY <1>1, <1>2, ReconcileInvInit, ReconcileInvStep, BatchesFitStep, PTL DEF ReconcileSpec

(***************************************************************************)
(* Bot.                                                                    *)
(***************************************************************************)

Stages == {"arrived", "starting", "thinking", "making", "deployed", "replying", "reporting",
           "apologising"}
RequestState == [at : Stages \cup {"idle"}, update : 0..MaxUpdates, kind : UpdateKinds \cup {"acked"}]

\* Up to here an attempt has had no effect yet.
Early == {"arrived", "starting", "thinking", "making"}

BotTypes ==
    /\ kind \in [Updates -> UpdateKinds \cup {"unsent", "acked"}]
    /\ seen \subseteq Updates /\ answered \subseteq Updates
    /\ request \in [Requests -> RequestState]
    /\ \A r \in Requests : request[r].at # "idle" => request[r].update \in Updates
    /\ \A r \in Requests : request[r].at = "idle" => request[r].update = 0
    /\ done \in [Updates -> Nat] /\ excused \in [Updates -> Nat]

\* What a step of a request is to the others: it goes on, ...
GoesOn(r) ==
    /\ request' \in [Requests -> RequestState]
    /\ \A o \in Requests \ {r} : request'[o] = request[o]
    /\ request[r].at # "idle" /\ request'[r].at # "idle"
    /\ request'[r].update = request[r].update
    /\ UNCHANGED <<kind, seen, excused>>
    /\ answered' \in {answered, answered \cup {request[r].update}}

GoesQuietly(r) ==
    /\ GoesOn(r) /\ UNCHANGED done
    /\ request'[r].at \in Early => request[r].at \in Early

\* ... takes effect, ...
Effective(r) ==
    /\ GoesOn(r) /\ TakesEffect(r)
    /\ request[r].at \in Early /\ request'[r].at \notin Early

\* ... or ends, with an error or with an answer.
Finishing(r) ==
    /\ request[r].at # "idle" /\ request' = [request EXCEPT ![r] = Waiting]
    /\ UNCHANGED done

Failing(r) ==
    /\ Finishing(r)
    /\ seen' = seen \ {request[r].update}
    /\ excused' = [excused EXCEPT ![request[r].update] = @ + 1]
    /\ UNCHANGED <<kind, answered>>

Ending(r) ==
    /\ Finishing(r)
    /\ answered' = answered \cup {request[r].update}
    /\ kind' \in {kind, [kind EXCEPT ![request[r].update] = "acked"]}
    /\ UNCHANGED <<seen, excused>>

LEMMA WaitingIs == Waiting \in RequestState /\ Waiting.at = "idle" /\ Waiting.update = 0
    BY BotConstants DEF Waiting, RequestState

LEMMA ArrivedIs ==
    ASSUME NEW u \in Updates, NEW k \in UpdateKinds
    PROVE  LET s == [Waiting EXCEPT !.at = "arrived", !.update = u, !.kind = k]
           IN  s \in RequestState /\ s.at = "arrived" /\ s.update = u
<1> DEFINE s == [Waiting EXCEPT !.at = "arrived", !.update = u, !.kind = k]
<1>1. u \in 0..MaxUpdates /\ "arrived" \in Stages
    BY BotConstants DEF Updates, Stages
<1>2. s \in RequestState /\ s.at = "arrived" /\ s.update = u
    BY <1>1, WaitingIs DEF RequestState
<1> QED BY <1>2

LEMMA ProceedsIs ==
    ASSUME BotTypes, NEW r \in Requests, NEW place \in Stages, Proceeds(r, place)
    PROVE  /\ request' \in [Requests -> RequestState]
           /\ \A o \in Requests \ {r} : request'[o] = request[o]
           /\ request'[r].at = place /\ request'[r].update = request[r].update
<1> DEFINE s == [request[r] EXCEPT !.at = place]
<1>1. request \in [Requests -> RequestState] /\ request[r] \in RequestState
    BY DEF BotTypes
<1>2. s \in RequestState /\ s.at = place /\ s.update = request[r].update
    BY <1>1 DEF RequestState
<1>3. request' = [request EXCEPT ![r] = s]
    BY <1>1 DEF Proceeds, RequestState
<1> HIDE DEF s
<1> QED BY <1>1, <1>2, <1>3

LEMMA DispatchedIs == ASSUME BotTypes, NEW r \in Requests, Dispatched(r)
                      PROVE  GoesQuietly(r) \/ Effective(r)
<1>1. request[r].at = "arrived" /\ UNCHANGED <<kind, seen, page, excused, answered, troubles>>
    BY DEF Dispatched, Stage
<1>2. /\ \E place \in Stages : Proceeds(r, place)
      /\ (Proceeds(r, "reporting") /\ TakesEffect(r)) \/ UNCHANGED done
    BY DEF Dispatched, Refused, Asks, AsksModel, Clears, CallsSkill, Talks, Generates, Redrafts,
           build_site, build_document, build_presentation, build_table, edit_site, edit_document, create_skill,
           Stages
<1>3. CASE Proceeds(r, "reporting") /\ TakesEffect(r)
  <2>1. "reporting" \in Stages /\ "reporting" \notin Early /\ "arrived" \in Early
      BY DEF Stages, Early
  <2> QED BY <1>1, <1>3, <2>1, ProceedsIs DEF Effective, GoesOn
<1>4. CASE UNCHANGED done
  <2>1. PICK place \in Stages : Proceeds(r, place)
      BY <1>2
  <2>2. place # "idle" /\ "arrived" \in Early
      BY DEF Stages, Early
  <2> QED BY <1>1, <1>4, <2>1, <2>2, ProceedsIs DEF GoesQuietly, GoesOn
<1> QED BY <1>2, <1>3, <1>4

\* The steps of a turn, of what it makes and of its reply.
LEMMA TurnIs ==
    ASSUME BotTypes, NEW r \in Requests,
           \/ Forwarded(r) \/ TurnBegins(r) \/ MakingFails(r) \/ StoresPage(r)
           \/ ThinkingFails(r) \/ ReplyCaught(r)
    PROVE  GoesQuietly(r)
<1>1. \E place \in Stages : Proceeds(r, place) /\ (place \in Early => request[r].at \in Early)
    BY DEF Forwarded, TurnBegins, MakingFails, StoresPage, ThinkingFails, ReplyCaught, Generates,
           Stages, Early, Stage
<1>2. PICK place \in Stages : Proceeds(r, place) /\ (place \in Early => request[r].at \in Early)
    BY <1>1
<1>3. /\ request[r].at # "idle" /\ UNCHANGED <<kind, seen, excused, done>>
      /\ answered' \in {answered, answered \cup {request[r].update}}
    BY DEF Forwarded, TurnBegins, MakingFails, StoresPage, ThinkingFails, ReplyCaught, Generates,
           Stage
<1>4. place # "idle"
    BY DEF Stages
<1> QED BY <1>2, <1>3, <1>4, ProceedsIs DEF GoesQuietly, GoesOn

LEMMA EffectIs ==
    ASSUME BotTypes, NEW r \in Requests, SkillCreated(r) \/ Deployed(r) \/ Thinks(r)
    PROVE  Effective(r)
<1>1. \E place \in Stages : Proceeds(r, place) /\ place \notin Early
    BY DEF SkillCreated, Deployed, Thinks, Stages, Early
<1>2. PICK place \in Stages : Proceeds(r, place) /\ place \notin Early
    BY <1>1
<1>3. request[r].at \in Early /\ TakesEffect(r) /\ UNCHANGED <<kind, seen, excused, answered>>
    BY DEF SkillCreated, Deployed, Thinks, Early, Stage
<1>4. place # "idle" /\ "idle" \notin Early
    BY DEF Stages, Early
<1> QED BY <1>2, <1>3, <1>4, ProceedsIs DEF Effective, GoesOn

LEMMA FailureIs ==
    ASSUME BotTypes, NEW r \in Requests, Fails(r), UNCHANGED <<kind, done, answered>>,
           request[r].at # "idle"
    PROVE  Failing(r)
    BY DEF Fails, Failing, Finishing

LEMMA EndIs ==
    ASSUME BotTypes, NEW r \in Requests,
           Unresolved(r) \/ TurnFails(r) \/ ReplyFails(r) \/ Replies(r)
    PROVE  Failing(r) \/ Ending(r)
<1>1. CASE Unresolved(r)
    BY <1>1, FailureIs DEF Unresolved, Stage, Answers, Ending, Finishing
<1>2. CASE TurnFails(r)
    BY <1>2, FailureIs DEF TurnFails, Stage
<1>3. CASE ReplyFails(r)
    BY <1>3, FailureIs DEF ReplyFails
<1>4. CASE Replies(r)
    BY <1>4 DEF Replies, Answers, Ending, Finishing
<1> QED BY <1>1, <1>2, <1>3, <1>4

LEMMA RequestStepIs ==
    ASSUME BotTypes, NEW r \in Requests, RequestStep(r)
    PROVE  \/ GoesQuietly(r) \/ Effective(r) \/ Failing(r) \/ Ending(r)
           \/ \E u \in Updates, k \in UpdateKinds : Delivered(r, u, k)
    BY DispatchedIs, TurnIs, EffectIs, EndIs DEF RequestStep

LEMMA RememberedIs == ASSUME NEW u, NEW v, v \in Remembered(u) PROVE v \in seen \cup {u}
    BY DEF Remembered

LEMMA BotTypesStep == BotTypes /\ [NextBot]_botVars => BotTypes'
<1> SUFFICES ASSUME BotTypes, [NextBot]_botVars PROVE BotTypes'
    OBVIOUS
<1> USE WaitingIs
<1>1. CASE UNCHANGED botVars
    BY <1>1 DEF botVars, BotTypes
<1>2. CASE BotRestarts
  <2>1. request' \in [Requests -> RequestState] /\ \A r \in Requests : request'[r] = Waiting
      BY <1>2 DEF BotRestarts
  <2>2. excused' \in [Updates -> Nat] /\ UNCHANGED <<kind, done, answered>> /\ seen' = {}
      BY <1>2 DEF BotRestarts, BotTypes
  <2> QED BY <2>1, <2>2 DEF BotTypes
<1>3. ASSUME NEW r \in Requests, GoesQuietly(r) \/ Effective(r) PROVE BotTypes'
  <2>1. request[r].update \in Updates
      BY <1>3 DEF BotTypes, GoesQuietly, Effective, GoesOn
  <2>2. done' \in [Updates -> Nat]
      BY <1>3 DEF BotTypes, GoesQuietly, Effective, TakesEffect
  <2> QED BY <1>3, <2>1, <2>2 DEF BotTypes, GoesQuietly, Effective, GoesOn
<1>4. ASSUME NEW r \in Requests, Failing(r) \/ Ending(r) PROVE BotTypes'
  <2>1. request[r].update \in Updates
      BY <1>4 DEF BotTypes, Failing, Ending, Finishing
  <2>2. request' \in [Requests -> RequestState] /\ request'[r] = Waiting
        /\ \A o \in Requests \ {r} : request'[o] = request[o]
      BY <1>4 DEF BotTypes, Failing, Ending, Finishing
  <2>3. /\ kind' \in [Updates -> UpdateKinds \cup {"unsent", "acked"}]
        /\ seen' \subseteq Updates /\ answered' \subseteq Updates
        /\ done' \in [Updates -> Nat] /\ excused' \in [Updates -> Nat]
      BY <1>4, <2>1 DEF BotTypes, Failing, Ending, Finishing
  <2> QED BY <2>2, <2>3 DEF BotTypes
<1>5. ASSUME NEW r \in Requests, NEW u \in Updates, NEW k \in UpdateKinds, Delivered(r, u, k)
      PROVE  BotTypes'
  <2>1. CASE /\ kind' = [kind EXCEPT ![u] = "acked"]
             /\ UNCHANGED <<seen, request, excused>>
      BY <1>5, <2>1 DEF Delivered, BotTypes
  <2>2. CASE /\ kind' = [kind EXCEPT ![u] = k]
             /\ seen' = Remembered(u)
             /\ excused' = [v \in Updates |-> IF v \in (seen \cup {u}) \ Remembered(u)
                                              THEN excused[v] + 1 ELSE excused[v]]
             /\ request' = [request EXCEPT ![r] = [Waiting EXCEPT !.at = "arrived",
                                                                  !.update = u, !.kind = k]]
    <3> DEFINE s == [Waiting EXCEPT !.at = "arrived", !.update = u, !.kind = k]
    <3>1. s \in RequestState /\ s.at = "arrived" /\ s.update = u
        BY ArrivedIs
    <3> HIDE DEF s
    <3>2. request' \in [Requests -> RequestState] /\ request'[r] = s
          /\ \A o \in Requests \ {r} : request'[o] = request[o]
        BY <2>2, <3>1 DEF BotTypes, s
    <3>3. excused' \in [Updates -> Nat] /\ seen' \subseteq Updates
          /\ kind' \in [Updates -> UpdateKinds \cup {"unsent", "acked"}]
        BY <2>2, RememberedIs DEF BotTypes
    <3>4. UNCHANGED <<done, answered>>
        BY <1>5 DEF Delivered
    <3> QED BY <3>1, <3>2, <3>3, <3>4 DEF BotTypes
  <2> QED BY <1>5, <2>1, <2>2 DEF Delivered
<1> QED BY <1>1, <1>2, <1>3, <1>4, <1>5, RequestStepIs DEF NextBot

\* With no early retry, nobody else works on a request's update; an update that was
\* acknowledged has been answered, and one in the set is being worked on at least.
OneAttempt ==
    \A r, o \in Requests : r # o /\ request[r].update = request[o].update => request[r].update = 0
AckedIsAnswered == Acked \subseteq answered
SeenIsHandled == \A u \in seen : u \in answered \/ InWork(u)
HandledInv == BotTypes /\ OneAttempt /\ AckedIsAnswered /\ SeenIsHandled

LEMMA HandledStep == ~ EarlyRetry => (HandledInv /\ [NextBot]_botVars => HandledInv')
<1> SUFFICES ASSUME ~ EarlyRetry, HandledInv, [NextBot]_botVars PROVE HandledInv'
    OBVIOUS
<1> USE WaitingIs
<1>1. BotTypes /\ BotTypes'
    BY BotTypesStep DEF HandledInv
<1>2. CASE UNCHANGED botVars
    BY <1>1, <1>2 DEF botVars, HandledInv, OneAttempt, AckedIsAnswered, SeenIsHandled, InWork, Acked
<1>3. CASE BotRestarts
  <2>1. \A r \in Requests : request'[r] = Waiting
      BY <1>3 DEF BotRestarts
  <2>2. UNCHANGED <<kind, answered>> /\ seen' = {}
      BY <1>3 DEF BotRestarts
  <2> QED BY <1>1, <2>1, <2>2 DEF HandledInv, OneAttempt, AckedIsAnswered, SeenIsHandled, Acked
<1>4. ASSUME NEW r \in Requests, GoesQuietly(r) \/ Effective(r) PROVE HandledInv'
  <2>1. \A o \in Requests : request'[o].update = request[o].update
      BY <1>4 DEF GoesQuietly, Effective, GoesOn
  <2>2. UNCHANGED <<kind, seen>> /\ answered \subseteq answered'
      BY <1>4 DEF GoesQuietly, Effective, GoesOn
  <2> QED BY <1>1, <2>1, <2>2
          DEF HandledInv, OneAttempt, AckedIsAnswered, SeenIsHandled, Acked, InWork
<1>5. ASSUME NEW r \in Requests, Failing(r) \/ Ending(r) PROVE HandledInv'
  <2>1. request[r].update \in Updates /\ request'[r].update = 0
        /\ \A o \in Requests \ {r} : request'[o] = request[o]
      BY <1>1, <1>5 DEF BotTypes, Failing, Ending, Finishing
  <2>2. OneAttempt'
      BY <2>1 DEF HandledInv, OneAttempt
  <2>3. AckedIsAnswered'
      BY <1>1, <1>5 DEF HandledInv, AckedIsAnswered, Acked, Failing, Ending, BotTypes
  <2>4. SeenIsHandled'
    <3> SUFFICES ASSUME NEW u \in seen' PROVE u \in answered' \/ InWork(u)'
        BY DEF SeenIsHandled
    <3>1. u \in seen /\ (u # request[r].update \/ u \in answered') /\ answered \subseteq answered'
        BY <1>5 DEF Failing, Ending
    <3>2. u \in answered \/ \E o \in Requests : request[o].update = u
        BY <3>1 DEF HandledInv, SeenIsHandled, InWork
    <3> QED BY <2>1, <3>1, <3>2 DEF InWork
  <2> QED BY <1>1, <2>2, <2>3, <2>4 DEF HandledInv
<1>6. ASSUME NEW r \in Requests, NEW u \in Updates, NEW k \in UpdateKinds, Delivered(r, u, k)
      PROVE  HandledInv'
  <2>1. ~ InWork(u) /\ answered' = answered /\ request[r].at = "idle"
      BY <1>6 DEF Delivered, Comes, Stage
  <2>2. CASE /\ u \in seen
             /\ kind' = [kind EXCEPT ![u] = "acked"]
             /\ UNCHANGED <<seen, request, excused>>
    <3>1. u \in answered
        BY <2>1, <2>2 DEF HandledInv, SeenIsHandled
    <3>2. AckedIsAnswered'
        BY <1>1, <2>1, <2>2, <3>1 DEF HandledInv, AckedIsAnswered, Acked, BotTypes
    <3> QED BY <1>1, <2>1, <2>2, <3>2 DEF HandledInv, OneAttempt, SeenIsHandled, InWork
  <2>3. CASE /\ kind' = [kind EXCEPT ![u] = k]
             /\ seen' = Remembered(u)
             /\ request' = [request EXCEPT ![r] = [Waiting EXCEPT !.at = "arrived",
                                                                  !.update = u, !.kind = k]]
    <3> DEFINE s == [Waiting EXCEPT !.at = "arrived", !.update = u, !.kind = k]
    <3>1. s.update = u
        BY ArrivedIs
    <3> HIDE DEF s
    <3>2. request'[r].update = u /\ \A o \in Requests \ {r} : request'[o] = request[o]
        BY <1>1, <2>3, <3>1 DEF BotTypes, s
    <3>3. OneAttempt'
        BY <2>1, <3>2 DEF HandledInv, OneAttempt, InWork
    <3>4. k # "acked"
        BY BotConstants DEF Kinds
    <3>5. AckedIsAnswered'
        BY <1>1, <2>1, <2>3, <3>4 DEF HandledInv, AckedIsAnswered, Acked, BotTypes
    <3>6. \A v \in seen' : v \in seen \/ v = u
        BY <2>3, RememberedIs
    <3>7. request[r].update = 0 /\ 0 \notin Updates /\ seen \subseteq Updates
        BY <1>1, <2>1 DEF BotTypes, Updates
    <3>8. SeenIsHandled'
        BY <2>1, <3>2, <3>6, <3>7 DEF HandledInv, SeenIsHandled, InWork
    <3> QED BY <1>1, <3>3, <3>5, <3>8 DEF HandledInv
  <2> QED BY <1>6, <2>2, <2>3 DEF Delivered
<1> QED BY <1>1, <1>2, <1>3, <1>4, <1>5, <1>6, RequestStepIs DEF NextBot

\* Every attempt at an update that has had no effect yet, and the one Telegram may still
\* make of an update that is not in the set, is covered by what is excused.
Tries(u) == {r \in Requests : request[r].update = u /\ request[r].at \in Early}
Owed(u) == IF u \in seen \/ kind[u] = "acked" THEN 0 ELSE 1
EffectsCounted ==
    \A u \in Updates :
      IsFiniteSet(Tries(u)) /\ done[u] + Cardinality(Tries(u)) + Owed(u) <= 1 + excused[u]

LEMMA Smaller == ASSUME NEW S, IsFiniteSet(S), NEW T, T \subseteq S
                 PROVE  /\ IsFiniteSet(T) /\ Cardinality(T) \in Nat /\ Cardinality(S) \in Nat
                        /\ Cardinality(T) <= Cardinality(S)
                        /\ T # S => Cardinality(T) + 1 <= Cardinality(S)
<1>1. IsFiniteSet(T) /\ Cardinality(T) <= Cardinality(S)
      /\ (Cardinality(S) = Cardinality(T) => S = T)
    BY FS_Subset
<1>2. Cardinality(S) \in Nat /\ Cardinality(T) \in Nat
    BY <1>1, FS_CardinalityType
<1> QED BY <1>1, <1>2

LEMMA Larger == ASSUME NEW S, IsFiniteSet(S), NEW e
                PROVE  /\ IsFiniteSet(S \cup {e}) /\ Cardinality(S \cup {e}) \in Nat
                       /\ Cardinality(S) \in Nat /\ Cardinality(S \cup {e}) <= Cardinality(S) + 1
<1>1. IsFiniteSet(S \cup {e}) /\ (Cardinality(S \cup {e}) = Cardinality(S)
                                 \/ Cardinality(S \cup {e}) = Cardinality(S) + 1)
    BY FS_AddElement
<1>2. Cardinality(S) \in Nat /\ Cardinality(S \cup {e}) \in Nat
    BY <1>1, FS_CardinalityType
<1> QED BY <1>1, <1>2

\* A step that makes no new attempt at u, and pays for what it undoes.
LEMMA NoNewTry ==
    ASSUME BotTypes, BotTypes', EffectsCounted, NEW u \in Updates, Tries(u)' \subseteq Tries(u),
           \/ done'[u] = done[u]
           \/ done'[u] = done[u] + 1 /\ Tries(u)' # Tries(u),
           \/ excused'[u] = excused[u] /\ Owed(u)' <= Owed(u)
           \/ excused'[u] = excused[u] + 1
    PROVE  /\ IsFiniteSet(Tries(u)')
           /\ done'[u] + Cardinality(Tries(u)') + Owed(u)' <= 1 + excused'[u]
<1>1. /\ done[u] \in Nat /\ excused[u] \in Nat /\ Owed(u) \in {0, 1} /\ Owed(u)' \in {0, 1}
      /\ done'[u] \in Nat /\ excused'[u] \in Nat
    BY DEF BotTypes, Owed
<1>2. IsFiniteSet(Tries(u)) /\ done[u] + Cardinality(Tries(u)) + Owed(u) <= 1 + excused[u]
    BY DEF EffectsCounted
<1>3. /\ IsFiniteSet(Tries(u)') /\ Cardinality(Tries(u)') \in Nat /\ Cardinality(Tries(u)) \in Nat
      /\ Cardinality(Tries(u)') <= Cardinality(Tries(u))
      /\ Tries(u)' # Tries(u) => Cardinality(Tries(u)') + 1 <= Cardinality(Tries(u))
    BY <1>2, Smaller
<1> HIDE DEF Tries, Owed
<1> QED BY <1>1, <1>2, <1>3

LEMMA EffectsStep == BotTypes /\ EffectsCounted /\ [NextBot]_botVars => EffectsCounted'
<1> SUFFICES ASSUME BotTypes, EffectsCounted, [NextBot]_botVars PROVE EffectsCounted'
    OBVIOUS
<1> USE WaitingIs
<1>1. BotTypes'
    BY BotTypesStep
<1>2. "idle" \notin Early
    BY DEF Early
<1>3. CASE UNCHANGED botVars
    BY <1>3 DEF botVars, EffectsCounted, Tries, Owed
<1>4. CASE BotRestarts
  <2> SUFFICES ASSUME NEW u \in Updates
               PROVE  /\ IsFiniteSet(Tries(u)')
                      /\ done'[u] + Cardinality(Tries(u)') + Owed(u)' <= 1 + excused'[u]
      BY DEF EffectsCounted
  <2>1. \A r \in Requests : request'[r] = Waiting
      BY <1>4 DEF BotRestarts
  <2>2. Tries(u)' \subseteq Tries(u)
      BY <1>2, <2>1 DEF Tries
  <2>3. /\ done'[u] = done[u] /\ kind'[u] = kind[u] /\ excused[u] \in Nat
        /\ excused'[u] = IF u \in seen \ Acked THEN excused[u] + 1 ELSE excused[u]
      BY <1>4 DEF BotRestarts, BotTypes
  <2>4. \/ excused'[u] = excused[u] /\ Owed(u)' <= Owed(u)
        \/ excused'[u] = excused[u] + 1
      BY <2>3 DEF Owed, Acked
  <2> QED BY <1>1, <2>2, <2>3, <2>4, NoNewTry
<1>5. ASSUME NEW r \in Requests, GoesQuietly(r) \/ Effective(r) PROVE EffectsCounted'
  <2> SUFFICES ASSUME NEW u \in Updates
               PROVE  /\ IsFiniteSet(Tries(u)')
                      /\ done'[u] + Cardinality(Tries(u)') + Owed(u)' <= 1 + excused'[u]
      BY DEF EffectsCounted
  <2>1. GoesOn(r) /\ (request'[r].at \in Early => request[r].at \in Early)
      BY <1>5 DEF GoesQuietly, Effective
  <2>2. Tries(u)' \subseteq Tries(u)
      BY <2>1 DEF Tries, GoesOn
  <2>3. excused'[u] = excused[u] /\ Owed(u)' <= Owed(u)
      BY <2>1 DEF GoesOn, Owed
  <2>4. \/ done'[u] = done[u]
        \/ done'[u] = done[u] + 1 /\ Tries(u)' # Tries(u)
    <3>1. CASE GoesQuietly(r) \/ u # request[r].update
        BY <1>5, <3>1 DEF GoesQuietly, Effective, TakesEffect, BotTypes
    <3>2. CASE Effective(r) /\ u = request[r].update
      <4>1. r \in Tries(u) /\ r \notin Tries(u)'
          BY <3>2 DEF Effective, Tries
      <4>2. done'[u] = done[u] + 1
          BY <3>2 DEF Effective, TakesEffect, BotTypes
      <4> QED BY <4>1, <4>2
    <3> QED BY <1>5, <3>1, <3>2
  <2> QED BY <1>1, <2>2, <2>3, <2>4, NoNewTry
<1>6. ASSUME NEW r \in Requests, Failing(r) \/ Ending(r) PROVE EffectsCounted'
  <2> SUFFICES ASSUME NEW u \in Updates
               PROVE  /\ IsFiniteSet(Tries(u)')
                      /\ done'[u] + Cardinality(Tries(u)') + Owed(u)' <= 1 + excused'[u]
      BY DEF EffectsCounted
  <2>1. request'[r] = Waiting /\ \A o \in Requests \ {r} : request'[o] = request[o]
      BY <1>6 DEF BotTypes, Failing, Ending, Finishing
  <2>2. Tries(u)' \subseteq Tries(u)
      BY <1>2, <2>1 DEF Tries
  <2>3. done'[u] = done[u] /\ excused[u] \in Nat /\ request[r].update \in Updates
      BY <1>6 DEF Failing, Ending, Finishing, BotTypes
  <2>4. \/ excused'[u] = excused[u] /\ Owed(u)' <= Owed(u)
        \/ excused'[u] = excused[u] + 1
    <3>1. CASE Failing(r)
        BY <2>3, <3>1 DEF Failing, BotTypes, Owed
    <3>2. CASE Ending(r)
        BY <2>3, <3>2 DEF Ending, BotTypes, Owed
    <3> QED BY <1>6, <3>1, <3>2
  <2> QED BY <1>1, <2>2, <2>3, <2>4, NoNewTry
<1>7. ASSUME NEW r \in Requests, NEW u \in Updates, NEW k \in UpdateKinds, Delivered(r, u, k)
      PROVE  EffectsCounted'
  <2> SUFFICES ASSUME NEW v \in Updates
               PROVE  /\ IsFiniteSet(Tries(v)')
                      /\ done'[v] + Cardinality(Tries(v)') + Owed(v)' <= 1 + excused'[v]
      BY DEF EffectsCounted
  <2>1. done' = done
      BY <1>7 DEF Delivered
  <2>2. CASE /\ u \in seen
             /\ kind' = [kind EXCEPT ![u] = "acked"]
             /\ UNCHANGED <<seen, request, excused>>
    <3>1. Tries(v)' \subseteq Tries(v)
        BY <2>2 DEF Tries
    <3>2. excused'[v] = excused[v] /\ Owed(v)' <= Owed(v)
        BY <2>2 DEF Owed, BotTypes
    <3> QED BY <1>1, <2>1, <3>1, <3>2, NoNewTry
  <2>3. CASE /\ u \notin seen
             /\ kind' = [kind EXCEPT ![u] = k]
             /\ seen' = Remembered(u)
             /\ excused' = [w \in Updates |-> IF w \in (seen \cup {u}) \ Remembered(u)
                                              THEN excused[w] + 1 ELSE excused[w]]
             /\ request' = [request EXCEPT ![r] = [Waiting EXCEPT !.at = "arrived",
                                                                  !.update = u, !.kind = k]]
    <3> DEFINE s == [Waiting EXCEPT !.at = "arrived", !.update = u, !.kind = k]
    <3>1. s.update = u
        BY ArrivedIs
    <3> HIDE DEF s
    <3>2. request'[r].update = u /\ \A o \in Requests \ {r} : request'[o] = request[o]
        BY <2>3, <3>1 DEF BotTypes, s
    <3>3. request[r].at = "idle"
        BY <1>7 DEF Delivered, Stage
    <3>4. kind[u] # "acked" /\ k # "acked"
        BY <1>7, BotConstants DEF Delivered, Comes, Kinds
    <3>5. excused[v] \in Nat
          /\ excused'[v] = IF v \in (seen \cup {u}) \ Remembered(u) THEN excused[v] + 1 ELSE excused[v]
        BY <2>3 DEF BotTypes
    <3>6. CASE v # u
      <4>1. Tries(v)' \subseteq Tries(v)
          BY <3>2, <3>6 DEF Tries
      <4>2. kind'[v] = kind[v]
          BY <2>3, <3>6 DEF BotTypes
      <4>3. \/ excused'[v] = excused[v] /\ Owed(v)' <= Owed(v)
            \/ excused'[v] = excused[v] + 1
          BY <2>3, <3>5, <3>6, <4>2 DEF Owed
      <4> QED BY <1>1, <2>1, <4>1, <4>3, NoNewTry
    <3>7. CASE v = u
      <4>1. Tries(u)' \subseteq Tries(u) \cup {r}
          BY <3>2 DEF Tries
      <4>2. Owed(u) = 1
          BY <2>3, <3>4 DEF Owed
      <4>3. \/ excused'[u] = excused[u] /\ Owed(u)' = 0
            \/ excused'[u] = excused[u] + 1 /\ Owed(u)' \in {0, 1}
          BY <2>3, <3>5, <3>7 DEF Owed
      <4>4. IsFiniteSet(Tries(u)) /\ done[u] + Cardinality(Tries(u)) + Owed(u) <= 1 + excused[u]
          BY DEF EffectsCounted
      <4>5. /\ IsFiniteSet(Tries(u) \cup {r}) /\ Cardinality(Tries(u) \cup {r}) \in Nat
            /\ Cardinality(Tries(u)) \in Nat
            /\ Cardinality(Tries(u) \cup {r}) <= Cardinality(Tries(u)) + 1
          BY <4>4, Larger
      <4>6. /\ IsFiniteSet(Tries(u)') /\ Cardinality(Tries(u)') \in Nat
            /\ Cardinality(Tries(u)') <= Cardinality(Tries(u) \cup {r})
          BY <4>1, <4>5, Smaller
      <4>7. done[u] \in Nat /\ excused[u] \in Nat /\ done'[u] = done[u]
          BY <2>1 DEF BotTypes
      <4> HIDE DEF Tries, Owed
      <4> QED BY <3>7, <4>2, <4>3, <4>4, <4>5, <4>6, <4>7
    <3> QED BY <3>6, <3>7
  <2> QED BY <1>7, <2>2, <2>3 DEF Delivered
<1> QED BY <1>3, <1>4, <1>5, <1>6, <1>7, RequestStepIs DEF NextBot

\* The conversation keeps its bound, and the rest its type.
ConversationTypes ==
    /\ history \in Seq(Roles \X Updates) /\ Len(history) <= MaxHistory
    /\ page \subseteq Shelves
    /\ troubles \in 0..MaxTroubles

LEMMA KeptIs == ASSUME NEW S, NEW h \in Seq(S)
                PROVE  Kept(h) \in Seq(S) /\ Len(Kept(h)) <= MaxHistory
<1> DEFINE i == IF Len(h) > MaxHistory THEN Len(h) - MaxHistory + 1 ELSE 1
<1>1. Len(h) \in Nat /\ MaxHistory \in Nat /\ i \in Nat /\ i >= 1 /\ i <= Len(h) + 1
      /\ Len(h) - i + 1 <= MaxHistory
    BY BotConstants
<1>2. Kept(h) = SubSeq(h, i, Len(h))
    BY DEF Kept
<1> HIDE DEF i
<1>3. /\ SubSeq(h, i, Len(h)) \in Seq(S)
      /\ Len(SubSeq(h, i, Len(h))) = IF i <= Len(h) THEN Len(h) - i + 1 ELSE 0
    BY <1>1, SubSeqProperties
<1> QED BY <1>1, <1>2, <1>3

LEMMA ConversationStep == BotTypes /\ ConversationTypes /\ [NextBot]_botVars => ConversationTypes'
<1> SUFFICES ASSUME BotTypes, ConversationTypes, [NextBot]_botVars PROVE ConversationTypes'
    OBVIOUS
<1> USE BotConstants DEF ConversationTypes
<1>1. UNCHANGED <<history, page, troubles>> => ConversationTypes'
    OBVIOUS
<1>2. Trouble /\ UNCHANGED <<history, page>> => ConversationTypes'
    BY DEF Trouble
<1>3. history' = <<>> /\ UNCHANGED page /\ (Trouble \/ UNCHANGED troubles) => ConversationTypes'
    BY DEF Trouble
<1>4. ASSUME NEW r \in Requests, StoresPage(r) PROVE ConversationTypes'
  <2>1. history' = history /\ \E shelf \in Shelves : Stores(r, shelf) \/ UNCHANGED <<page, troubles>>
      BY <1>4 DEF StoresPage, SiteBuilt, SiteEdited, DocumentBuilt, DocumentEdited, SlidesBuilt,
                  Shelves
  <2>2. PICK shelf \in Shelves : Stores(r, shelf) \/ UNCHANGED <<page, troubles>>
      BY <2>1
  <2>3. page' \subseteq Shelves /\ troubles' \in 0..MaxTroubles
      BY <2>2 DEF Stores, Trouble
  <2> QED BY <2>1, <2>3
<1>5. ASSUME NEW r \in Requests, Thinks(r) PROVE ConversationTypes'
  <2> DEFINE u == request[r].update
             h1 == Append(history, <<"user", u>>)
             h2 == Append(Kept(h1), <<"assistant", u>>)
  <2>1. u \in Updates
      BY <1>5 DEF Thinks, Stage, BotTypes
  <2>2. h1 \in Seq(Roles \X Updates)
      BY <2>1 DEF Roles
  <2>3. Kept(h1) \in Seq(Roles \X Updates)
      BY <2>2, KeptIs
  <2>4. h2 \in Seq(Roles \X Updates)
      BY <2>1, <2>3 DEF Roles
  <2>5. history' = Kept(h2) /\ UNCHANGED <<page, troubles>>
      BY <1>5 DEF Thinks, Added2
  <2> QED BY <2>4, <2>5, KeptIs
<1>6. ASSUME NEW r \in Requests, RequestStep(r), ~ StoresPage(r), ~ Thinks(r)
      PROVE  /\ UNCHANGED page /\ (Trouble \/ UNCHANGED troubles)
             /\ history' = <<>> \/ UNCHANGED history
  <2>1. CASE Dispatched(r)
      BY <2>1 DEF Dispatched, Refused, Asks, AsksModel, Clears, CallsSkill, Talks, Generates, Redrafts,
             build_site, build_document, build_presentation, build_table, edit_site, edit_document, create_skill
  <2>2. CASE Forwarded(r) \/ TurnBegins(r) \/ MakingFails(r) \/ SkillCreated(r) \/ Deployed(r)
             \/ ThinkingFails(r) \/ ReplyCaught(r)
      BY <2>2 DEF Forwarded, TurnBegins, MakingFails, SkillCreated, Deployed, ThinkingFails,
                  ReplyCaught, Generates
  <2>3. CASE Unresolved(r) \/ TurnFails(r) \/ Replies(r) \/ ReplyFails(r)
      BY <2>3 DEF Unresolved, TurnFails, Replies, ReplyFails, Fails
  <2>4. CASE \E u \in Updates, k \in UpdateKinds : Delivered(r, u, k)
      BY <2>4 DEF Delivered
  <2> QED BY <1>6, <2>1, <2>2, <2>3, <2>4 DEF RequestStep
<1>7. CASE BotRestarts
    BY <1>3, <1>7 DEF BotRestarts
<1>8. CASE UNCHANGED botVars
    BY <1>1, <1>8 DEF botVars
<1> QED BY <1>1, <1>2, <1>3, <1>4, <1>5, <1>6, <1>7, <1>8 DEF NextBot

LEMMA BotInit == InitBot => BotTypes /\ ConversationTypes /\ OneAttempt /\ AckedIsAnswered
                            /\ SeenIsHandled /\ EffectsCounted
<1> SUFFICES ASSUME InitBot
             PROVE  BotTypes /\ ConversationTypes /\ OneAttempt /\ AckedIsAnswered
                    /\ SeenIsHandled /\ EffectsCounted
    OBVIOUS
<1> USE WaitingIs, BotConstants DEF InitBot
<1>1. BotTypes
    BY DEF BotTypes
<1>2. ConversationTypes
    BY DEF ConversationTypes
<1>3. OneAttempt /\ AckedIsAnswered /\ SeenIsHandled
    BY DEF OneAttempt, AckedIsAnswered, SeenIsHandled, Acked
<1>4. ASSUME NEW u \in Updates
      PROVE  IsFiniteSet(Tries(u)) /\ done[u] + Cardinality(Tries(u)) + Owed(u) <= 1 + excused[u]
  <2>1. Tries(u) = {}
      BY DEF Tries, Early
  <2>2. Owed(u) = 1 /\ done[u] = 0 /\ excused[u] = 0
      BY DEF Owed
  <2> QED BY <2>1, <2>2, FS_EmptySet
<1> QED BY <1>1, <1>2, <1>3, <1>4 DEF EffectsCounted

LEMMA BotTypesMean == BotTypes /\ ConversationTypes => BotTypeOK
    BY DEF BotTypes, ConversationTypes, BotTypeOK, RequestState, Stages

\* The conversation never outgrows MAX_HISTORY, whatever requests add to it and clear, and
\* every request works on an update that was sent.
THEOREM BotTypesAlways == BotSpec => []BotTypeOK
<1>1. InitBot => BotTypes /\ ConversationTypes
    BY BotInit
<1>2. (BotTypes /\ ConversationTypes) /\ [NextBot]_botVars => (BotTypes /\ ConversationTypes)'
    BY BotTypesStep, ConversationStep
<1> QED BY <1>1, <1>2, BotTypesMean, PTL DEF BotSpec

\* Unless Telegram retries an update while it is being processed, an update that it will
\* not send again has been answered to the owner, after any failures and restarts.
THEOREM NothingIsSwallowed == ASSUME ~ EarlyRetry PROVE BotSpec => []AckedIsHandled
<1>1. InitBot => HandledInv
    BY BotInit DEF HandledInv
<1>2. HandledInv /\ [NextBot]_botVars => HandledInv'
    BY HandledStep
<1>3. HandledInv => AckedIsHandled
    BY DEF HandledInv, AckedIsAnswered, AckedIsHandled
<1> QED BY <1>1, <1>2, <1>3, PTL DEF BotSpec

\* However often Telegram sends an update, early or not, the effects it has are at most
\* one more than the failures, restarts and evictions that made another attempt possible.
THEOREM UpdatesTakeEffectOnce == BotSpec => []DoneOnce
<1>1. InitBot => BotTypes /\ EffectsCounted
    BY BotInit
<1>2. (BotTypes /\ EffectsCounted) /\ [NextBot]_botVars => (BotTypes /\ EffectsCounted)'
    BY BotTypesStep, EffectsStep
<1>3. BotTypes /\ EffectsCounted => DoneOnce
  <2> SUFFICES ASSUME BotTypes, EffectsCounted, NEW u \in Updates PROVE done[u] <= 1 + excused[u]
      BY DEF DoneOnce
  <2>1. IsFiniteSet(Tries(u)) /\ done[u] + Cardinality(Tries(u)) + Owed(u) <= 1 + excused[u]
      BY DEF EffectsCounted
  <2>2. Cardinality(Tries(u)) \in Nat /\ Owed(u) \in {0, 1} /\ done[u] \in Nat /\ excused[u] \in Nat
      BY <2>1, FS_CardinalityType DEF Owed, BotTypes
  <2> HIDE DEF Tries, Owed
  <2> QED BY <2>1, <2>2
<1> QED BY <1>1, <1>2, <1>3, PTL DEF BotSpec

(***************************************************************************)
(* MediaCache.                                                             *)
(***************************************************************************)

RowState == [id : 0..MaxObjects, last : 0..MaxObjects, ident : 0..Versions, file : 0..Versions]
FetchState == [at : {"idle", "leasing", "asking", "asked", "identified", "loading", "loaded",
                     "bereft", "replaced"},
               obj : 0..MaxObjects, first : 0..Versions, ident : 0..Versions,
               offset : 0..Chunks, buffer : Seq(1..Chunks)]
PruneState == [at : {"idle", "unlinked", "sweeping"}, id : 0..MaxObjects,
               orphans : SUBSET Ids, parts : [Ids -> Seq(1..Chunks)], whole : SUBSET Ids,
               taken : SUBSET Ids]

\* The first k chunks.
Upto(k) == [i \in 1..k |-> i]

\* The pruner has taken the original of v from under the row, or is about to drop the row.
Excused(v) == v \in prune.taken \/ (prune.at = "unlinked" /\ row.file = v)

\* What is behind a worker at each stage: the lease, an object, a version; while it loads,
\* the partial file and its buffer make up the chunks so far.
FetcherOK(f) ==
    /\ fetch[f].at \notin {"idle", "leasing"} => lease = f
    /\ fetch[f].at # "idle" => fetch[f].obj # 0
    /\ fetch[f].at # "loading" => fetch[f].buffer = <<>>
    /\ fetch[f].at \in {"identified", "loading", "loaded", "replaced"} => fetch[f].ident # 0
    /\ fetch[f].at = "loading" =>
         part[fetch[f].ident] \o fetch[f].buffer = Upto(fetch[f].offset)
    /\ fetch[f].at = "loaded" => part[fetch[f].ident] = Whole
    /\ fetch[f].at = "replaced" =>
         /\ original[fetch[f].ident] = Whole \/ Excused(fetch[f].ident)
         /\ row.id = fetch[f].obj
    /\ fetch[f].at = "asked" => ~ HasFile(row.file)

FilesOK == \A v \in Ids : /\ \E k \in 0..Chunks : part[v] = Upto(k)
                          /\ original[v] \in {Missing, Whole}

\* A file of another version than the row's is a name only, left by the pruner.
RowOK == row.file # 0 => /\ row.id # 0
                         /\ row.file = row.ident \/ ~ HasFile(row.file)
                         /\ HasFile(row.file) \/ prune.at = "unlinked" \/ row.file \in prune.taken

PruneOK == prune.at = "unlinked" => prune.id # 0 /\ row.id = prune.id

CacheInv == CacheTypeOK /\ (\A f \in Fetchers : FetcherOK(f)) /\ FilesOK /\ RowOK /\ PruneOK

LEMMA UptoIs == ASSUME NEW k \in Nat
                PROVE  /\ Upto(k) \in Seq(1..k) /\ Len(Upto(k)) = k
                       /\ Append(Upto(k), k + 1) = Upto(k + 1)
                       /\ k <= Chunks => Upto(k) \in Seq(1..Chunks)
                       /\ Upto(0) = <<>> /\ Upto(Chunks) = Whole
<1>1. Upto(k) \in Seq(1..k) /\ Len(Upto(k)) = k
    BY DEF Upto
<1>2. Append(Upto(k), k + 1) = Upto(k + 1)
    BY DEF Upto
<1>3. k <= Chunks => Upto(k) \in Seq(1..Chunks)
    BY CacheConstants DEF Upto
<1>4. Upto(0) = <<>> /\ Upto(Chunks) = Whole
    BY DEF Upto, Whole
<1> QED BY <1>1, <1>2, <1>3, <1>4

LEMMA AwayIs == Away \in FetchState /\ Away.at = "idle" /\ Away.buffer = <<>>
    BY CacheConstants DEF Away, FetchState

LEMMA RestingIs == ASSUME NEW taken \in SUBSET Ids
                   PROVE  /\ Resting(taken) \in PruneState /\ Resting(taken).at = "idle"
                          /\ Resting(taken).taken = taken
    BY CacheConstants DEF Resting, PruneState

LEMMA MissingIs == Missing \in Seq(0..Chunks) /\ Whole \in Seq(0..Chunks) /\ Whole # Missing
<1>1. Missing \in Seq(0..Chunks) /\ Missing[1] = 0
    BY CacheConstants DEF Missing
<1>2. Whole \in Seq(0..Chunks) /\ Whole[1] = 1
    BY CacheConstants DEF Whole
<1> QED BY <1>1, <1>2

\* What is known of a worker.
LEMMA FetcherIs ==
    ASSUME CacheInv, NEW f \in Fetchers
    PROVE  /\ fetch \in [Fetchers -> FetchState] /\ fetch[f] \in FetchState
           /\ row \in RowState /\ media \in Ids /\ media \in 0..Versions
           /\ mishaps \in 0..MaxMishaps /\ MaxMishaps \in Nat
           /\ part \in [Ids -> Seq(1..Chunks)] /\ original \in [Ids -> Seq(0..Chunks)]
           /\ lease \in Fetchers \cup {Nobody} /\ prune \in PruneState
           /\ fetch[f].at \in {"identified", "loading", "loaded", "replaced"} =>
                fetch[f].ident \in Ids
           /\ Nobody \notin Fetchers
<1>1. FetcherOK(f)
    BY DEF CacheInv
<1>2. fetch \in [Fetchers -> FetchState] /\ fetch[f] \in FetchState
    BY DEF CacheInv, CacheTypeOK, FetchState
<1>3. fetch[f].ident \in 0..Versions
    BY <1>2 DEF FetchState
<1>4. fetch[f].at \in {"identified", "loading", "loaded", "replaced"} => fetch[f].ident \in Ids
    BY <1>1, <1>3, CacheConstants DEF FetcherOK, Ids
<1>5. Nobody \notin Fetchers
    BY CacheConstants DEF Nobody
<1>6. /\ row \in RowState /\ media \in Ids /\ mishaps \in 0..MaxMishaps
      /\ part \in [Ids -> Seq(1..Chunks)] /\ original \in [Ids -> Seq(0..Chunks)]
      /\ lease \in Fetchers \cup {Nobody}
      /\ prune \in PruneState
    BY DEF CacheInv, CacheTypeOK, RowState, PruneState
<1>7. media \in 0..Versions /\ MaxMishaps \in Nat
    BY <1>6, CacheConstants DEF Ids
<1> QED BY <1>2, <1>4, <1>5, <1>6, <1>7

Working(f) == fetch[f].at \notin {"idle", "leasing"}

LEMMA Alone == ASSUME CacheInv, NEW f \in Fetchers, NEW g \in Fetchers \ {f},
                      Working(f)
               PROVE  fetch[g].at \in {"idle", "leasing"}
<1>1. FetcherOK(f) /\ FetcherOK(g)
    BY DEF CacheInv
<1> QED BY <1>1 DEF FetcherOK, Working

\* The one worker at work moves: the others have nothing that it could disturb.
LEMMA HolderMoves ==
    ASSUME CacheInv, NEW f \in Fetchers, Working(f), NEW r \in FetchState,
           fetch' = [fetch EXCEPT ![f] = r], lease' \in {lease, Nobody},
           row' \in RowState, part' \in [Ids -> Seq(1..Chunks)],
           original' \in [Ids -> Seq(0..Chunks)], mishaps' \in 0..MaxMishaps,
           UNCHANGED <<media, prune>>,
           FetcherOK(f)', FilesOK', RowOK', PruneOK'
    PROVE  CacheInv'
<1>1. fetch \in [Fetchers -> FetchState] /\ fetch' \in [Fetchers -> FetchState]
      /\ \A g \in Fetchers \ {f} : fetch'[g] = fetch[g]
    BY FetcherIs
<1>2. CacheTypeOK'
    BY <1>1, FetcherIs DEF CacheInv, CacheTypeOK, FetchState, RowState
<1>3. ASSUME NEW g \in Fetchers PROVE FetcherOK(g)'
  <2>1. CASE g # f
    <3>1. fetch[g].at \in {"idle", "leasing"} /\ fetch'[g] = fetch[g]
        BY <1>1, <2>1, Alone
    <3>2. (fetch[g].at # "idle" => fetch[g].obj # 0) /\ fetch[g].buffer = <<>>
        BY <3>1 DEF CacheInv, FetcherOK
    <3> QED BY <3>1, <3>2 DEF FetcherOK
  <2> QED BY <2>1
<1> QED BY <1>2, <1>3 DEF CacheInv

\* A worker leaves: what was in its buffer is in the partial file.
LEMMA LeavesKeeps ==
    ASSUME CacheInv, NEW f \in Fetchers, Working(f), Leaves(f), row' \in RowState,
           original' = original, mishaps' \in 0..MaxMishaps, UNCHANGED <<media, prune>>,
           RowOK', PruneOK'
    PROVE  CacheInv'
<1>1. fetch' = [fetch EXCEPT ![f] = Away] /\ lease' \in {lease, Nobody}
      /\ part' = IF fetch[f].buffer = <<>> THEN part
                 ELSE [part EXCEPT ![fetch[f].ident] = @ \o fetch[f].buffer]
    BY DEF Leaves, Freed
<1>2. fetch'[f] = Away
    BY <1>1, FetcherIs
<1>3. FetcherOK(f)'
    BY <1>2, AwayIs DEF FetcherOK
<1>4. part' \in [Ids -> Seq(1..Chunks)] /\ FilesOK'
  <2>1. CASE fetch[f].buffer = <<>>
      BY <1>1, <2>1, FetcherIs DEF CacheInv, FilesOK
  <2>2. CASE fetch[f].buffer # <<>>
    <3> DEFINE v == fetch[f].ident
               n == fetch[f].offset
    <3>1. FetcherOK(f) /\ fetch[f] \in FetchState
        BY FetcherIs DEF CacheInv
    <3>2. fetch[f].at = "loading"
        BY <2>2, <3>1 DEF FetcherOK
    <3>3. v \in Ids /\ part[v] \o fetch[f].buffer = Upto(n)
        BY <3>1, <3>2, FetcherIs DEF FetcherOK
    <3>4. n \in 0..Chunks /\ n \in Nat /\ n <= Chunks
        BY <3>1, CacheConstants DEF FetchState
    <3>5. part' = [part EXCEPT ![v] = Upto(n)]
        BY <1>1, <2>2, <3>3
    <3> HIDE DEF v, n
    <3>6. Upto(n) \in Seq(1..Chunks)
        BY <3>4, UptoIs
    <3> QED BY <3>3, <3>4, <3>5, <3>6, FetcherIs DEF CacheInv, FilesOK
  <2> QED BY <2>1, <2>2
<1>5. original' \in [Ids -> Seq(0..Chunks)]
    BY FetcherIs
<1> QED BY <1>1, <1>3, <1>4, <1>5, AwayIs, HolderMoves

\* A step that leaves the row and the pruner alone.
LEMMA RowStays ==
    ASSUME CacheInv, UNCHANGED <<row, original, prune>> PROVE RowOK' /\ PruneOK'
    BY DEF CacheInv, RowOK, PruneOK, HasFile

\* The row is created by a worker that takes no part yet.
LEMMA FetchBeginsKeeps == ASSUME CacheInv, NEW f \in Fetchers, FetchBegins(f) PROVE CacheInv'
<1> DEFINE r == [Away EXCEPT !.at = "leasing", !.obj = row'.id, !.first = row'.ident]
<1>1. fetch' = [fetch EXCEPT ![f] = r] /\ UNCHANGED <<media, part, original, lease, prune, mishaps>>
      /\ fetch[f].at = "idle" /\ row.file = 0
    BY DEF FetchBegins, At
<1>2. /\ row' \in RowState /\ row'.id # 0 /\ row'.file = 0
      /\ row.id # 0 => row' = row
    BY FetcherIs, CacheConstants DEF FetchBegins, RowState
<1>3. r \in FetchState /\ r.at = "leasing" /\ r.obj # 0 /\ r.buffer = <<>>
    BY <1>2, AwayIs DEF FetchState, RowState
<1> HIDE DEF r
<1>4. fetch \in [Fetchers -> FetchState] /\ fetch' \in [Fetchers -> FetchState] /\ fetch'[f] = r
      /\ \A g \in Fetchers \ {f} : fetch'[g] = fetch[g]
    BY <1>1, <1>3, FetcherIs
<1>5. CacheTypeOK'
    BY <1>1, <1>2, <1>4, FetcherIs DEF CacheInv, CacheTypeOK, FetchState, RowState
<1>6. ASSUME NEW g \in Fetchers PROVE FetcherOK(g)'
  <2>1. CASE g = f
      BY <1>3, <1>4, <2>1 DEF FetcherOK
  <2>2. CASE g # f
    <3>1. FetcherOK(g) /\ fetch'[g] = fetch[g]
        BY <1>4, <2>2 DEF CacheInv
    <3>2. fetch[g].at = "replaced" => row' = row
        BY <1>2, <3>1 DEF FetcherOK
    <3>3. HasFile(row.file)' = FALSE
        BY <1>2 DEF HasFile
    <3> QED BY <1>1, <3>1, <3>2, <3>3 DEF FetcherOK, Excused
  <2> QED BY <2>1, <2>2
<1>7. FilesOK' /\ RowOK'
    BY <1>1, <1>2 DEF CacheInv, FilesOK, RowOK
<1>8. PruneOK'
    BY <1>1, <1>2 DEF CacheInv, PruneOK
<1> QED BY <1>5, <1>6, <1>7, <1>8 DEF CacheInv

LEMMA LeasesKeeps == ASSUME CacheInv, NEW f \in Fetchers, Leases(f) PROVE CacheInv'
<1>1. /\ fetch[f].at = "leasing" /\ UNCHANGED <<media, row, part, original, prune, mishaps>>
      /\ FetcherOK(f)
    BY DEF Leases, At, CacheInv
<1>2. PICK r \in FetchState : /\ fetch' = [fetch EXCEPT ![f] = r] /\ r.buffer = <<>>
                              /\ \/ r.at = "idle" /\ lease' = lease
                                 \/ r.at = "asking" /\ r.obj # 0 /\ lease = Nobody /\ lease' = f
  <2>1. CASE lease = Nobody /\ lease' = f /\ Reaches(f, "asking")
    <3> DEFINE r == [fetch[f] EXCEPT !.at = "asking"]
    <3>1. r \in FetchState /\ r.at = "asking" /\ r.obj = fetch[f].obj /\ r.buffer = fetch[f].buffer
        BY FetcherIs DEF FetchState
    <3>2. fetch' = [fetch EXCEPT ![f] = r]
        BY <2>1, FetcherIs DEF Reaches, FetchState
    <3> HIDE DEF r
    <3> QED BY <1>1, <2>1, <3>1, <3>2 DEF FetcherOK
  <2>2. CASE UNCHANGED lease /\ fetch' = [fetch EXCEPT ![f] = Away]
      BY <2>2, AwayIs
  <2> QED BY <2>1, <2>2 DEF Leases
<1>3. fetch' \in [Fetchers -> FetchState] /\ fetch'[f] = r
      /\ \A g \in Fetchers \ {f} : fetch'[g] = fetch[g]
    BY <1>2, FetcherIs
<1>4. CacheTypeOK'
    BY <1>1, <1>2, <1>3, FetcherIs DEF CacheInv, CacheTypeOK, FetchState, RowState
<1>5. ASSUME NEW g \in Fetchers PROVE FetcherOK(g)'
  <2>1. CASE g = f
      BY <1>2, <1>3, <2>1 DEF FetcherOK
  <2>2. CASE g # f
    <3>1. FetcherOK(g) /\ fetch'[g] = fetch[g]
        BY <1>3, <2>2 DEF CacheInv
    <3>2. fetch[g].at \notin {"idle", "leasing"} => lease' = g
        BY <1>2, <3>1, FetcherIs DEF FetcherOK
    <3>3. HasFile(row.file)' = HasFile(row.file)
        BY <1>1 DEF HasFile
    <3> QED BY <1>1, <3>1, <3>2, <3>3 DEF FetcherOK, Excused
  <2> QED BY <2>1, <2>2
<1>6. FilesOK'
    BY <1>1 DEF CacheInv, FilesOK
<1> QED BY <1>1, <1>4, <1>5, <1>6, RowStays DEF CacheInv

LEMMA RereadsKeeps == ASSUME CacheInv, NEW f \in Fetchers, Rereads(f) PROVE CacheInv'
<1>1. /\ fetch[f].at = "asking" /\ UNCHANGED <<media, row, original, prune, mishaps>>
      /\ FetcherOK(f) /\ Working(f)
    BY DEF Rereads, At, CacheInv, Working
<1>2. RowOK' /\ PruneOK'
    BY <1>1, RowStays
<1>3. CASE Leaves(f)
    BY <1>1, <1>2, <1>3, FetcherIs, LeavesKeeps
<1>4. CASE ~ HasFile(row.file) /\ Reaches(f, "asked") /\ UNCHANGED <<part, lease>>
  <2> DEFINE r == [fetch[f] EXCEPT !.at = "asked"]
  <2>1. r \in FetchState /\ r.at = "asked" /\ r.obj = fetch[f].obj /\ r.buffer = fetch[f].buffer
      BY FetcherIs DEF FetchState
  <2>2. fetch' = [fetch EXCEPT ![f] = r]
      BY <1>4, FetcherIs DEF Reaches, FetchState
  <2> HIDE DEF r
  <2>3. fetch'[f] = r /\ ~ HasFile(row.file)' /\ lease' = lease
      BY <1>1, <1>4, <2>2, FetcherIs DEF HasFile
  <2>4. FetcherOK(f)'
      BY <1>1, <2>1, <2>3 DEF FetcherOK
  <2>5. FilesOK'
      BY <1>1, <1>4 DEF CacheInv, FilesOK
  <2> QED BY <1>1, <1>2, <1>4, <2>1, <2>2, <2>4, <2>5, FetcherIs, HolderMoves
<1> QED BY <1>3, <1>4 DEF Rereads

LEMMA IdentifiesKeeps == ASSUME CacheInv, NEW f \in Fetchers, Identifies(f) PROVE CacheInv'
<1>1. /\ fetch[f].at = "asked" /\ UNCHANGED <<media, original, prune, mishaps>>
      /\ FetcherOK(f) /\ Working(f)
    BY DEF Identifies, At, CacheInv, Working
<1>2. CASE Leaves(f) /\ UNCHANGED row
    BY <1>1, <1>2, FetcherIs, RowStays, LeavesKeeps
<1>3. CASE /\ row' = [row EXCEPT !.ident = media]
           /\ fetch' = [fetch EXCEPT ![f].at = "identified", ![f].ident = media]
           /\ UNCHANGED <<part, lease>>
  <2> DEFINE r == [fetch[f] EXCEPT !.at = "identified", !.ident = media]
  <2>1. r \in FetchState /\ r.at = "identified" /\ r.obj = fetch[f].obj /\ r.buffer = fetch[f].buffer
        /\ r.ident = media
      BY FetcherIs DEF FetchState
  <2>2. fetch' = [fetch EXCEPT ![f] = r]
      BY <1>3, FetcherIs DEF FetchState
  <2> HIDE DEF r
  <2>3. fetch'[f] = r /\ media # 0 /\ lease' = lease
    <3>1. media \in Ids /\ fetch \in [Fetchers -> FetchState]
        BY FetcherIs
    <3>2. media # 0
        BY <3>1, CacheConstants DEF Ids
    <3> QED BY <1>3, <2>2, <3>1, <3>2
  <2>4. row' \in RowState /\ row'.file = row.file /\ row'.id = row.id
      BY <1>3, FetcherIs DEF RowState
  <2>5. ~ HasFile(row.file)
      BY <1>1 DEF FetcherOK
  <2>6. FetcherOK(f)'
      BY <1>1, <2>1, <2>3 DEF FetcherOK
  <2>7. FilesOK' /\ PruneOK'
      BY <1>1, <1>3, <2>4 DEF CacheInv, FilesOK, PruneOK
  <2>8. RowOK'
      BY <1>1, <2>4, <2>5 DEF CacheInv, RowOK, HasFile
  <2> QED BY <1>1, <1>3, <2>1, <2>2, <2>4, <2>6, <2>7, <2>8, FetcherIs, HolderMoves
<1> QED BY <1>2, <1>3 DEF Identifies

LEMMA AdoptsKeeps == ASSUME CacheInv, NEW f \in Fetchers, Adopts(f) PROVE CacheInv'
<1>1. /\ fetch[f].at = "identified" /\ UNCHANGED <<media, original, prune, mishaps>>
      /\ FetcherOK(f) /\ Working(f) /\ Leaves(f) /\ HasFile(fetch[f].ident)
    BY DEF Adopts, At, CacheInv, Working
<1>2. CASE ~ Same(f)
    BY <1>1, <1>2, FetcherIs, RowStays, LeavesKeeps DEF Adopts
<1>3. CASE Same(f)
  <2>1. row' = [row EXCEPT !.file = fetch[f].ident]
      BY <1>3 DEF Adopts
  <2>2. /\ row' \in RowState /\ row'.id = row.id /\ row'.ident = row.ident
        /\ row'.file = fetch[f].ident
      BY <2>1, FetcherIs DEF RowState, FetchState
  <2>3. row.id = fetch[f].obj /\ row.ident = fetch[f].ident /\ fetch[f].obj # 0
      BY <1>1, <1>3 DEF Same, SameObject, FetcherOK
  <2>4. HasFile(row.file)'
      BY <1>1, <2>2 DEF HasFile
  <2>5. RowOK'
      BY <1>1, <2>2, <2>3, <2>4 DEF RowOK
  <2>6. PruneOK'
      BY <1>1, <2>2 DEF CacheInv, PruneOK
  <2> QED BY <1>1, <2>2, <2>5, <2>6, FetcherIs, LeavesKeeps
<1> QED BY <1>2, <1>3

\* While it loads, only the worker, the partial file and its lease change.
LEMMA LoaderMoves ==
    ASSUME CacheInv, NEW f \in Fetchers, Working(f), NEW r \in FetchState,
           fetch' = [fetch EXCEPT ![f] = r], lease' = lease,
           part' \in [Ids -> Seq(1..Chunks)], FilesOK',
           UNCHANGED <<media, row, original, prune, mishaps>>,
           r.obj = fetch[f].obj, r.at \in {"loading", "loaded"}, r.ident \in Ids,
           r.at # "loading" => r.buffer = <<>> /\ part'[r.ident] = Whole,
           r.at = "loading" => part'[r.ident] \o r.buffer = Upto(r.offset)
    PROVE  CacheInv'
<1>1. fetch'[f] = r /\ r.ident # 0
    BY FetcherIs, CacheConstants DEF Ids
<1>2. FetcherOK(f)
    BY DEF CacheInv
<1>3. FetcherOK(f)'
    BY <1>1, <1>2 DEF FetcherOK, Working
<1> QED BY <1>3, FetcherIs, RowStays, HolderMoves

LEMMA OpensPartKeeps == ASSUME CacheInv, NEW f \in Fetchers, OpensPart(f) PROVE CacheInv'
<1> DEFINE v == fetch[f].ident
           kept == IF Len(part[v]) > Chunks THEN <<>> ELSE part[v]
           r == [fetch[f] EXCEPT !.at = "loading", !.offset = Len(kept)]
<1>1. /\ fetch[f].at = "identified" /\ UNCHANGED <<media, row, original, lease, prune, mishaps>>
      /\ FetcherOK(f) /\ Working(f) /\ part' = [part EXCEPT ![v] = kept]
      /\ v \in Ids
    BY FetcherIs DEF OpensPart, At, CacheInv, Working
<1>2. fetch' = [fetch EXCEPT ![f] = r]
    BY FetcherIs DEF OpensPart, FetchState
<1>3. PICK k \in 0..Chunks : part[v] = Upto(k)
    BY <1>1 DEF CacheInv, FilesOK
<1>4. k \in Nat /\ k <= Chunks /\ Len(Upto(k)) = k /\ Upto(k) \in Seq(1..Chunks)
    BY UptoIs, CacheConstants
<1>5. kept = Upto(k) /\ Len(kept) = k
    BY <1>3, <1>4, CacheConstants
<1> HIDE DEF kept, v
<1>6. /\ r \in FetchState /\ r.at = "loading" /\ r.obj = fetch[f].obj /\ r.ident = v
      /\ r.offset = k /\ r.buffer = fetch[f].buffer
    BY <1>5, FetcherIs DEF FetchState, v
<1> HIDE DEF r
<1>7. r.buffer = <<>>
    BY <1>1, <1>6 DEF FetcherOK
<1>8. part' \in [Ids -> Seq(1..Chunks)] /\ part'[v] = Upto(k)
    BY <1>1, <1>4, <1>5, FetcherIs
<1>9. FilesOK'
    BY <1>1, <1>5, FetcherIs DEF CacheInv, FilesOK
<1>10. part'[v] \o r.buffer = Upto(k)
    BY <1>4, <1>7, <1>8
<1> QED BY <1>1, <1>2, <1>6, <1>7, <1>8, <1>9, <1>10, LoaderMoves

\* What a loading worker has.
LEMMA LoadingIs ==
    ASSUME CacheInv, NEW f \in Fetchers, fetch[f].at = "loading"
    PROVE  /\ Working(f) /\ fetch[f].ident \in Ids /\ lease = f
           /\ fetch[f].offset \in 0..Chunks /\ fetch[f].offset \in Nat
           /\ fetch[f].buffer \in Seq(1..Chunks)
           /\ part[fetch[f].ident] \in Seq(1..Chunks)
           /\ part[fetch[f].ident] \o fetch[f].buffer = Upto(fetch[f].offset)
<1>1. FetcherOK(f) /\ Working(f)
    BY DEF CacheInv, Working
<1>2. fetch[f].ident \in Ids /\ part[fetch[f].ident] \in Seq(1..Chunks)
    BY FetcherIs
<1>3. fetch[f].offset \in 0..Chunks /\ fetch[f].buffer \in Seq(1..Chunks)
    BY FetcherIs DEF FetchState
<1>4. fetch[f].offset \in Nat
    BY <1>3, CacheConstants
<1>5. lease = f /\ part[fetch[f].ident] \o fetch[f].buffer = Upto(fetch[f].offset)
    BY <1>1 DEF FetcherOK
<1> QED BY <1>1, <1>2, <1>3, <1>4, <1>5

LEMMA AppendToConcat ==
    ASSUME NEW S, NEW s \in Seq(S), NEW t \in Seq(S), NEW x \in S
    PROVE  s \o Append(t, x) = Append(s \o t, x)
<1>1. Append(t, x) = t \o <<x>> /\ <<x>> \in Seq(S)
    BY AppendIsConcat
<1>2. s \o t \in Seq(S)
    OBVIOUS
<1>3. Append(s \o t, x) = (s \o t) \o <<x>>
    BY <1>2, AppendIsConcat
<1>4. (s \o t) \o <<x>> = s \o (t \o <<x>>)
    BY <1>1, ConcatAssociative
<1> QED BY <1>1, <1>3, <1>4

LEMMA ArrivesKeeps == ASSUME CacheInv, NEW f \in Fetchers, Arrives(f) PROVE CacheInv'
<1>1. /\ fetch[f].at = "loading" /\ fetch[f].offset < Chunks
      /\ UNCHANGED <<media, row, original, prune, mishaps>>
    BY DEF Arrives, At
<1>2. /\ Working(f) /\ fetch[f].ident \in Ids /\ lease = f /\ fetch[f].offset \in Nat
      /\ fetch[f].buffer \in Seq(1..Chunks) /\ part[fetch[f].ident] \in Seq(1..Chunks)
      /\ part[fetch[f].ident] \o fetch[f].buffer = Upto(fetch[f].offset)
    BY <1>1, LoadingIs
<1> DEFINE n == fetch[f].offset
           b == Append(fetch[f].buffer, n + 1)
           r == [fetch[f] EXCEPT !.offset = n + 1, !.buffer = b]
<1>3. fetch' = [fetch EXCEPT ![f] = r] /\ UNCHANGED <<part, lease>>
    BY <1>2, FetcherIs DEF Arrives, FetchState
<1>4. n + 1 \in 0..Chunks /\ n + 1 \in 1..Chunks /\ b \in Seq(1..Chunks)
    BY <1>1, <1>2, CacheConstants
<1>5. part[fetch[f].ident] \o b = Append(part[fetch[f].ident] \o fetch[f].buffer, n + 1)
  <2>1. \A s, t \in Seq(1..Chunks), x \in 1..Chunks : s \o Append(t, x) = Append(s \o t, x)
      BY AppendToConcat
  <2> QED BY <1>2, <1>4, <2>1
<1>6. Append(Upto(n), n + 1) = Upto(n + 1)
  <2>1. \A k \in Nat : Append(Upto(k), k + 1) = Upto(k + 1)
      BY UptoIs
  <2> QED BY <1>2, <2>1, Zenon
<1>7. part[fetch[f].ident] \o b = Upto(n + 1)
    BY <1>2, <1>5, <1>6
<1> HIDE DEF b, n
<1>8. /\ r \in FetchState /\ r.at = "loading" /\ r.obj = fetch[f].obj /\ r.ident = fetch[f].ident
      /\ r.offset = n + 1 /\ r.buffer = b
    BY <1>1, <1>4, FetcherIs DEF FetchState
<1> HIDE DEF r
<1>9. FilesOK'
    BY <1>1, <1>3 DEF CacheInv, FilesOK
<1> QED BY <1>1, <1>2, <1>3, <1>7, <1>8, <1>9, FetcherIs, LoaderMoves

LEMMA FlushesKeeps == ASSUME CacheInv, NEW f \in Fetchers, Flushes(f) PROVE CacheInv'
<1>1. /\ fetch[f].at = "loading" /\ UNCHANGED <<media, row, original, lease, prune, mishaps>>
      /\ part' = [part EXCEPT ![fetch[f].ident] = part[fetch[f].ident] \o fetch[f].buffer]
    BY DEF Flushes, At
<1>2. /\ Working(f) /\ fetch[f].ident \in Ids
      /\ fetch[f].offset \in Nat /\ fetch[f].offset \in 0..Chunks /\ fetch[f].offset <= Chunks
      /\ part[fetch[f].ident] \o fetch[f].buffer = Upto(fetch[f].offset)
  <2>1. /\ Working(f) /\ fetch[f].ident \in Ids
        /\ fetch[f].offset \in Nat /\ fetch[f].offset \in 0..Chunks
        /\ part[fetch[f].ident] \o fetch[f].buffer = Upto(fetch[f].offset)
      BY <1>1, LoadingIs
  <2> QED BY <2>1, CacheConstants
<1> DEFINE v == fetch[f].ident
           n == fetch[f].offset
           r == [fetch[f] EXCEPT !.buffer = <<>>]
<1>3. fetch' = [fetch EXCEPT ![f] = r]
    BY FetcherIs DEF Flushes, FetchState
<1>4. /\ r \in FetchState /\ r.at = "loading" /\ r.obj = fetch[f].obj /\ r.ident = v
      /\ r.offset = n /\ r.buffer = <<>>
  <2>1. <<>> \in Seq(1..Chunks)
      OBVIOUS
  <2> QED BY <1>1, <2>1, FetcherIs DEF FetchState
<1>5. part' = [part EXCEPT ![v] = Upto(n)]
    BY <1>1, <1>2
<1> HIDE DEF v, n, r
<1>6. Upto(n) \in Seq(1..Chunks)
    BY <1>2, UptoIs DEF n
<1>7. part' \in [Ids -> Seq(1..Chunks)] /\ part'[v] = Upto(n) /\ FilesOK'
    BY <1>1, <1>2, <1>5, <1>6, FetcherIs DEF CacheInv, FilesOK, v, n
<1>8. part'[v] \o <<>> = Upto(n)
    BY <1>6, <1>7
<1>9. v \in Ids /\ Working(f)
    BY <1>2 DEF v
<1> QED BY <1>1, <1>3, <1>4, <1>7, <1>8, <1>9, LoaderMoves

LEMMA LoadedKeeps == ASSUME CacheInv, NEW f \in Fetchers, Loaded(f) PROVE CacheInv'
<1> DEFINE r == [fetch[f] EXCEPT !.at = "loaded"]
<1>1. /\ fetch[f].at = "loading" /\ fetch[f].offset = Chunks /\ fetch[f].buffer = <<>>
      /\ UNCHANGED <<media, row, part, original, lease, prune, mishaps>>
    BY DEF Loaded, At
<1>2. fetch' = [fetch EXCEPT ![f] = r]
    BY FetcherIs DEF Loaded, Reaches, FetchState
<1>3. /\ r \in FetchState /\ r.at = "loaded" /\ r.obj = fetch[f].obj /\ r.ident = fetch[f].ident
      /\ r.buffer = <<>>
    BY <1>1, FetcherIs DEF FetchState
<1> HIDE DEF r
<1>4. part[fetch[f].ident] \o <<>> = part[fetch[f].ident] /\ Upto(Chunks) = Whole
    BY <1>1, LoadingIs, UptoIs, CacheConstants
<1>5. part[fetch[f].ident] = Whole
    BY <1>1, <1>4, LoadingIs
<1>6. FilesOK'
    BY <1>1 DEF CacheInv, FilesOK
<1> QED BY <1>1, <1>2, <1>3, <1>5, <1>6, LoadingIs, FetcherIs, LoaderMoves

LEMMA LoadFailsKeeps == ASSUME CacheInv, NEW f \in Fetchers, LoadFails(f) PROVE CacheInv'
<1>1. /\ fetch[f].at = "loading" /\ UNCHANGED <<media, row, original, prune>> /\ Leaves(f)
      /\ mishaps < MaxMishaps /\ mishaps' = mishaps + 1
    BY DEF LoadFails, At, Mishap
<1>2. mishaps' \in 0..MaxMishaps /\ row \in RowState
    BY <1>1, FetcherIs
<1> QED BY <1>1, <1>2, RowStays, LoadingIs, LeavesKeeps

LEMMA ReplacesKeeps == ASSUME CacheInv, NEW f \in Fetchers, Replaces(f) PROVE CacheInv'
<1>1. /\ fetch[f].at = "loaded" /\ UNCHANGED <<media, row, prune, mishaps>>
      /\ FetcherOK(f) /\ Working(f) /\ fetch[f].ident \in Ids
    BY FetcherIs DEF Replaces, At, CacheInv, Working
<1>2. CASE Leaves(f) /\ UNCHANGED original
    BY <1>1, <1>2, FetcherIs, RowStays, LeavesKeeps
<1>3. CASE /\ Same(f)
           /\ original' = [original EXCEPT ![fetch[f].ident] = part[fetch[f].ident]]
           /\ part' = [part EXCEPT ![fetch[f].ident] = <<>>]
           /\ Reaches(f, "replaced") /\ UNCHANGED lease
  <2> DEFINE v == fetch[f].ident
             r == [fetch[f] EXCEPT !.at = "replaced"]
  <2>1. /\ r \in FetchState /\ r.at = "replaced" /\ r.obj = fetch[f].obj /\ r.ident = v
        /\ r.buffer = fetch[f].buffer
      BY FetcherIs DEF FetchState
  <2>2. fetch' = [fetch EXCEPT ![f] = r]
      BY <1>3, FetcherIs DEF Reaches, FetchState
  <2>3. part[v] = Whole /\ fetch[f].buffer = <<>> /\ fetch[f].obj # 0 /\ lease = f
        /\ row.id = fetch[f].obj /\ row.ident = v
      BY <1>1, <1>3 DEF FetcherOK, Same, SameObject
  <2>4. v \in Ids /\ v # 0
      BY <1>1, CacheConstants DEF Ids
  <2> HIDE DEF r
  <2>5. original' = [original EXCEPT ![v] = Whole] /\ part' = [part EXCEPT ![v] = Upto(0)]
      BY <1>3, <2>3, UptoIs
  <2> HIDE DEF v
  <2>6. /\ original' \in [Ids -> Seq(0..Chunks)] /\ original'[v] = Whole
        /\ \A o \in Ids \ {v} : original'[o] = original[o]
      BY <2>4, <2>5, MissingIs, FetcherIs
  <2>7. Upto(0) \in Seq(1..Chunks) /\ 0 \in 0..Chunks
      BY UptoIs, CacheConstants
  <2>8. part' \in [Ids -> Seq(1..Chunks)] /\ FilesOK'
      BY <2>4, <2>5, <2>6, <2>7, FetcherIs DEF CacheInv, FilesOK
  <2>9. fetch'[f] = r
      BY <2>2, FetcherIs
  <2>10. FetcherOK(f)'
      BY <1>1, <1>3, <2>1, <2>3, <2>4, <2>6, <2>9 DEF FetcherOK
  <2>11. RowOK'
    <3>1. row \in RowState /\ (row.file # 0 => row.file \in Ids)
        BY FetcherIs, CacheConstants DEF RowState, Ids
    <3>2. row.file # 0 => \/ row.file = v /\ HasFile(row.file)'
                          \/ row.file # v /\ HasFile(row.file)' = HasFile(row.file)
        BY <1>1, <2>4, <2>6, <3>1, MissingIs DEF HasFile
    <3> QED BY <1>1, <2>3, <3>2 DEF CacheInv, RowOK
  <2>12. PruneOK'
      BY <1>1 DEF CacheInv, PruneOK
  <2> QED BY <1>1, <1>3, <2>1, <2>2, <2>6, <2>8, <2>10, <2>11, <2>12, FetcherIs, HolderMoves
<1> QED BY <1>2, <1>3 DEF Replaces

LEMMA BereftKeeps == ASSUME CacheInv, NEW f \in Fetchers, Bereft(f) PROVE CacheInv'
    BY RowStays, FetcherIs, LeavesKeeps DEF Bereft, At, Working

LEMMA CachedKeeps == ASSUME CacheInv, NEW f \in Fetchers, Cached(f) PROVE CacheInv'
<1>1. /\ fetch[f].at = "replaced" /\ UNCHANGED <<media, original, prune, mishaps>>
      /\ FetcherOK(f) /\ Working(f) /\ Leaves(f) /\ fetch[f].ident \in Ids
      /\ row' = [row EXCEPT !.ident = fetch[f].ident, !.file = fetch[f].ident]
    BY FetcherIs DEF Cached, At, CacheInv, Working
<1>2. /\ row' \in RowState /\ row'.id = row.id /\ row'.ident = fetch[f].ident
      /\ row'.file = fetch[f].ident
    BY <1>1, FetcherIs DEF RowState, FetchState
<1>3. /\ original[fetch[f].ident] = Whole \/ Excused(fetch[f].ident)
      /\ row.id = fetch[f].obj /\ fetch[f].obj # 0
    BY <1>1 DEF FetcherOK
<1>4. fetch[f].ident # 0
    BY <1>1, CacheConstants DEF Ids
<1>5. HasFile(row.file)' \/ prune'.at = "unlinked" \/ row'.file \in prune'.taken
    BY <1>1, <1>2, <1>3, <1>4, MissingIs DEF HasFile, Excused
<1>6. RowOK'
    BY <1>2, <1>3, <1>5 DEF RowOK
<1>7. PruneOK'
    BY <1>1, <1>2 DEF CacheInv, PruneOK
<1> QED BY <1>1, <1>2, <1>6, <1>7, FetcherIs, LeavesKeeps

LEMMA FetcherDiesKeeps == ASSUME CacheInv, NEW f \in Fetchers, FetcherDies(f) PROVE CacheInv'
<1>1. /\ fetch' = [fetch EXCEPT ![f] = Away]
      /\ UNCHANGED <<media, row, part, original, lease, prune>>
      /\ mishaps < MaxMishaps /\ mishaps' = mishaps + 1
    BY DEF FetcherDies, Mishap
<1>2. fetch' \in [Fetchers -> FetchState] /\ fetch'[f] = Away
      /\ \A g \in Fetchers \ {f} : fetch'[g] = fetch[g]
    BY <1>1, AwayIs, FetcherIs
<1>3. mishaps' \in 0..MaxMishaps
    BY <1>1, FetcherIs
<1>4. CacheTypeOK'
    BY <1>1, <1>2, <1>3 DEF CacheInv, CacheTypeOK, FetchState
<1>5. ASSUME NEW g \in Fetchers PROVE FetcherOK(g)'
  <2>1. CASE g = f
      BY <1>2, <2>1, AwayIs DEF FetcherOK
  <2>2. CASE g # f
    <3>1. FetcherOK(g) /\ fetch'[g] = fetch[g] /\ HasFile(row.file)' = HasFile(row.file)
        BY <1>1, <1>2, <2>2 DEF CacheInv, HasFile
    <3> QED BY <1>1, <3>1 DEF FetcherOK, Excused
  <2> QED BY <2>1, <2>2
<1>6. FilesOK'
    BY <1>1 DEF CacheInv, FilesOK
<1> QED BY <1>1, <1>4, <1>5, <1>6, RowStays DEF CacheInv

\* Unless the lease of a worker may be lost under it, it runs out only with nobody at work.
LEMMA LeaseLapsesKeeps == ASSUME ~ MayLapse, CacheInv, LeaseLapses PROVE CacheInv'
<1>1. /\ UNCHANGED <<media, row, part, original, fetch, prune, mishaps>> /\ lease' = Nobody
      /\ lease # Nobody /\ fetch[lease].at \in {"idle", "leasing"}
    BY DEF LeaseLapses
<1>2. CacheTypeOK'
    BY <1>1 DEF CacheInv, CacheTypeOK
<1>3. ASSUME NEW g \in Fetchers PROVE FetcherOK(g)'
  <2>1. FetcherOK(g) /\ HasFile(row.file)' = HasFile(row.file)
      BY <1>1 DEF CacheInv, HasFile
  <2>2. fetch[g].at \in {"idle", "leasing"}
      BY <1>1, <2>1 DEF FetcherOK
  <2> QED BY <1>1, <2>1, <2>2 DEF FetcherOK
<1>4. FilesOK'
    BY <1>1 DEF CacheInv, FilesOK
<1> QED BY <1>1, <1>2, <1>3, <1>4, RowStays DEF CacheInv

\* The environment: the workers stay, with the files of the versions they are at.
LEMMA WorkersStay ==
    ASSUME CacheInv, UNCHANGED <<fetch, lease>>,
           \A g \in Fetchers : /\ fetch[g].at \in {"loading", "loaded"} =>
                                    part'[fetch[g].ident] = part[fetch[g].ident]
                               /\ fetch[g].at = "replaced" =>
                                    /\ original'[fetch[g].ident] = Whole
                                       \/ Excused(fetch[g].ident)'
                                    /\ row'.id = row.id
                               /\ fetch[g].at = "asked" => ~ HasFile(row.file)',
           NEW g \in Fetchers
    PROVE  FetcherOK(g)'
<1>1. FetcherOK(g)
    BY DEF CacheInv
<1> QED BY <1>1 DEF FetcherOK, Excused

LEMMA AskedHasNoFile == ASSUME CacheInv, NEW g \in Fetchers, fetch[g].at = "asked"
                        PROVE  ~ HasFile(row.file)
    BY DEF CacheInv, FetcherOK

LEMMA ReplacedIs == ASSUME CacheInv, NEW g \in Fetchers, fetch[g].at = "replaced"
                    PROVE  original[fetch[g].ident] = Whole \/ Excused(fetch[g].ident)
    BY DEF CacheInv, FetcherOK

LEMMA MediaReplacedKeeps == ASSUME CacheInv, MediaReplaced PROVE CacheInv'
<1>1. /\ media' = media + 1 /\ media < Versions
      /\ UNCHANGED <<row, part, original, lease, fetch, prune, mishaps>>
    BY DEF MediaReplaced
<1>2. CacheTypeOK'
  <2>1. media' \in Ids
      BY <1>1, CacheConstants DEF CacheInv, CacheTypeOK, Ids
  <2> QED BY <1>1, <2>1 DEF CacheInv, CacheTypeOK
<1>3. FilesOK' /\ HasFile(row.file)' = HasFile(row.file)
    BY <1>1 DEF CacheInv, FilesOK, HasFile
<1>4. \A g \in Fetchers : FetcherOK(g)'
    BY <1>1, <1>3, AskedHasNoFile, ReplacedIs, WorkersStay DEF Excused
<1> QED BY <1>1, <1>2, <1>3, <1>4, RowStays DEF CacheInv

LEMMA NoneHeld == ASSUME ~ Held, NEW g \in Fetchers PROVE fetch[g].at # "replaced"
    BY DEF Held, At

LEMMA EditHandledKeeps == ASSUME CacheInv, EditHandled PROVE CacheInv'
<1>1. /\ row' = [row EXCEPT !.ident = media, !.file = 0] /\ row.id # 0 /\ ~ Held
      /\ UNCHANGED <<media, part, original, lease, fetch, prune, mishaps>>
    BY DEF EditHandled
<1>2. row \in RowState /\ media \in 0..Versions /\ 0 \in 0..Versions
    BY CacheConstants DEF CacheInv, CacheTypeOK, RowState, Ids
<1>3. row' \in RowState /\ row'.id = row.id /\ row'.file = 0
    BY <1>1, <1>2 DEF RowState
<1>4. CacheTypeOK'
    BY <1>1, <1>3 DEF CacheInv, CacheTypeOK, RowState
<1>5. FilesOK' /\ HasFile(row.file)' = FALSE
    BY <1>1, <1>3 DEF CacheInv, FilesOK, HasFile
<1>6. \A g \in Fetchers : FetcherOK(g)'
    BY <1>1, <1>3, <1>5, NoneHeld, WorkersStay
<1>7. RowOK' /\ PruneOK'
    BY <1>1, <1>3 DEF CacheInv, RowOK, PruneOK
<1> QED BY <1>4, <1>5, <1>6, <1>7 DEF CacheInv

LEMMA DeletedIs == ASSUME CacheInv PROVE Deleted \in RowState /\ Deleted.file = 0
<1>1. row \in RowState /\ 0 \in 0..MaxObjects /\ 0 \in 0..Versions
    BY CacheConstants DEF CacheInv, CacheTypeOK, RowState
<1> QED BY <1>1 DEF Deleted, RowState

LEMMA PruneUnlinksKeeps == ASSUME CacheInv, PruneUnlinks PROVE CacheInv'
<1>1. /\ row.file # 0 /\ original' = [original EXCEPT ![row.file] = Missing]
      /\ prune' = [prune EXCEPT !.at = "unlinked", !.id = row.id]
      /\ UNCHANGED <<media, row, part, lease, fetch, mishaps>>
    BY DEF PruneUnlinks
<1>2. /\ row \in RowState /\ original \in [Ids -> Seq(0..Chunks)] /\ Versions \in Nat
      /\ prune \in PruneState
    BY CacheConstants DEF CacheInv, CacheTypeOK, RowState, PruneState
<1>3. row.file \in Ids /\ row.id \in 0..MaxObjects
    BY <1>1, <1>2 DEF RowState, Ids
<1>4. /\ original' \in [Ids -> Seq(0..Chunks)] /\ original'[row.file] = Missing
      /\ \A v \in Ids \ {row.file} : original'[v] = original[v]
    BY <1>1, <1>2, <1>3, MissingIs
<1>5. /\ prune' \in PruneState /\ prune'.at = "unlinked" /\ prune'.id = row.id
      /\ prune'.taken = prune.taken
    BY <1>1, <1>2, <1>3 DEF PruneState
<1>6. CacheTypeOK'
    BY <1>1, <1>4, <1>5 DEF CacheInv, CacheTypeOK, PruneState
<1>7. ~ HasFile(row.file)'
    BY <1>1, <1>4 DEF HasFile
<1>8. ASSUME NEW g \in Fetchers, fetch[g].at = "replaced"
      PROVE  original'[fetch[g].ident] = Whole \/ Excused(fetch[g].ident)'
  <2>1. fetch[g].ident \in Ids /\ (original[fetch[g].ident] = Whole \/ Excused(fetch[g].ident))
      BY <1>8, FetcherIs, ReplacedIs
  <2>2. CASE fetch[g].ident = row.file
      BY <1>1, <1>5, <2>2 DEF Excused
  <2>3. CASE fetch[g].ident # row.file
      BY <1>1, <1>4, <1>5, <2>1, <2>3 DEF Excused
  <2> QED BY <2>2, <2>3
<1>9. \A g \in Fetchers : FetcherOK(g)'
    BY <1>1, <1>7, <1>8, WorkersStay
<1>10. FilesOK'
    BY <1>1, <1>4 DEF CacheInv, FilesOK
<1>11. RowOK' /\ PruneOK'
    BY <1>1, <1>5, <1>7 DEF CacheInv, RowOK, PruneOK
<1> QED BY <1>6, <1>9, <1>10, <1>11 DEF CacheInv

\* The row goes that the pruner has read.
LEMMA PruneDeletesKeeps == ASSUME CacheInv, PruneDeletes PROVE CacheInv'
<1>1. /\ ~ Held /\ prune' = Resting({}) /\ row' = Deleted
      /\ UNCHANGED <<media, part, original, lease, fetch, mishaps>>
    BY DEF PruneDeletes, CacheInv, PruneOK
<1>2. row' \in RowState /\ row'.file = 0
    BY <1>1, DeletedIs
<1>3. prune' \in PruneState /\ prune'.at = "idle"
    BY <1>1, RestingIs
<1>4. CacheTypeOK'
    BY <1>1, <1>2, <1>3 DEF CacheInv, CacheTypeOK, RowState, PruneState
<1>5. ~ HasFile(row.file)'
    BY <1>2 DEF HasFile
<1>6. \A g \in Fetchers : FetcherOK(g)'
    BY <1>1, <1>5, NoneHeld, WorkersStay
<1>7. FilesOK'
    BY <1>1 DEF CacheInv, FilesOK
<1>8. RowOK' /\ PruneOK'
    BY <1>2, <1>3 DEF RowOK, PruneOK
<1> QED BY <1>4, <1>6, <1>7, <1>8 DEF CacheInv

\* The pruner alone moves: what it has taken stays on its record, and a row it was about
\* to drop is recorded too.
LEMMA PrunerMoves ==
    ASSUME CacheInv, UNCHANGED <<media, row, part, original, lease, fetch>>,
           mishaps' \in 0..MaxMishaps, prune' \in PruneState, prune'.at # "unlinked",
           prune.taken \subseteq prune'.taken,
           prune.at = "unlinked" /\ row.file # 0 => row.file \in prune'.taken
    PROVE  CacheInv'
<1>1. CacheTypeOK'
    BY DEF CacheInv, CacheTypeOK, PruneState
<1>2. FilesOK' /\ HasFile(row.file)' = HasFile(row.file)
    BY DEF CacheInv, FilesOK, HasFile
<1>3. RowOK' /\ PruneOK'
    BY <1>2 DEF CacheInv, RowOK, PruneOK
<1>4. ASSUME NEW g \in Fetchers, fetch[g].at = "replaced"
      PROVE  original'[fetch[g].ident] = Whole \/ Excused(fetch[g].ident)'
  <2>1. fetch[g].ident \in Ids /\ fetch[g].ident # 0
      BY <1>4, FetcherIs, CacheConstants DEF Ids
  <2> QED BY <1>4, <2>1, ReplacedIs DEF Excused
<1>5. \A g \in Fetchers : FetcherOK(g)'
    BY <1>2, <1>4, AskedHasNoFile, WorkersStay
<1> QED BY <1>1, <1>2, <1>3, <1>5 DEF CacheInv

LEMMA PruneReadsKeeps == ASSUME CacheInv, PruneReads PROVE CacheInv'
<1> DEFINE whole == {v \in Ids : HasFile(v) \/ part[v] = Whole}
<1>1. PICK orphans \in SUBSET Ids :
        prune' = [prune EXCEPT !.at = "sweeping", !.orphans = orphans, !.parts = part,
                              !.whole = whole]
    BY Zenon DEF PruneReads
<1>2. /\ UNCHANGED <<media, row, part, original, lease, fetch, mishaps>>
      /\ prune.at = "idle"
    BY DEF PruneReads
<1>3. prune \in PruneState /\ part \in [Ids -> Seq(1..Chunks)] /\ mishaps \in 0..MaxMishaps
    BY DEF CacheInv, CacheTypeOK, PruneState
<1>4. whole \in SUBSET Ids
    OBVIOUS
<1> HIDE DEF whole
<1>5. prune' \in PruneState /\ prune'.at = "sweeping" /\ prune'.taken = prune.taken
    BY <1>1, <1>3, <1>4 DEF PruneState
<1> QED BY <1>2, <1>3, <1>5, PrunerMoves

LEMMA PruneEndsKeeps == ASSUME CacheInv, PruneEnds PROVE CacheInv'
<1>1. /\ UNCHANGED <<media, row, part, original, lease, fetch, mishaps>>
      /\ prune.at = "sweeping" /\ prune' = Resting(prune.taken)
    BY DEF PruneEnds
<1>2. prune.taken \in SUBSET Ids /\ mishaps \in 0..MaxMishaps
    BY DEF CacheInv, CacheTypeOK
<1>3. prune' \in PruneState /\ prune'.at = "idle" /\ prune'.taken = prune.taken
    BY <1>1, <1>2, RestingIs
<1> QED BY <1>1, <1>2, <1>3, PrunerMoves

LEMMA PrunerDiesKeeps == ASSUME CacheInv, PrunerDies PROVE CacheInv'
<1> DEFINE taken == prune.taken \cup ({row.file} \cap Ids)
<1>1. /\ prune' = Resting(taken) /\ mishaps < MaxMishaps /\ mishaps' = mishaps + 1
      /\ UNCHANGED <<media, row, part, original, lease, fetch>>
    BY DEF PrunerDies, Mishap
<1>2. prune.taken \in SUBSET Ids /\ mishaps \in 0..MaxMishaps /\ MaxMishaps \in Nat
    BY CacheConstants DEF CacheInv, CacheTypeOK
<1>3. mishaps' \in 0..MaxMishaps
    BY <1>1, <1>2
<1>4. taken \in SUBSET Ids
    BY <1>2
<1>5. row.file # 0 => row.file \in taken
    BY CacheConstants DEF CacheInv, CacheTypeOK, Ids
<1>6. prune.taken \subseteq taken
    OBVIOUS
<1> HIDE DEF taken
<1>7. prune' \in PruneState /\ prune'.at = "idle" /\ prune'.taken = taken
    BY <1>1, <1>4, RestingIs
<1> QED BY <1>1, <1>3, <1>5, <1>6, <1>7, PrunerMoves

\* A swept partial file: the worker that has it open is left without one.
LEMMA SweepsPartKeeps ==
    ASSUME CacheInv, NEW v \in Ids, SweepsPart(v), UNCHANGED <<media, row, lease, mishaps>>
    PROVE  CacheInv'
<1>1. /\ part' = [part EXCEPT ![v] = <<>>] /\ UNCHANGED <<media, row, original, lease, prune, mishaps>>
      /\ fetch' = [f \in Fetchers |-> IF f \in Writers(v) THEN Cut(f) ELSE fetch[f]]
    BY DEF SweepsPart
<1>2. part \in [Ids -> Seq(1..Chunks)] /\ fetch \in [Fetchers -> FetchState]
    BY DEF CacheInv, CacheTypeOK, FetchState
<1>3. Upto(0) = <<>> /\ <<>> \in Seq(1..Chunks) /\ 0 \in 0..Chunks
    BY UptoIs, CacheConstants
<1>4. /\ part' \in [Ids -> Seq(1..Chunks)] /\ part'[v] = Upto(0)
      /\ \A o \in Ids \ {v} : part'[o] = part[o]
    BY <1>1, <1>2, <1>3
<1>5. ASSUME NEW f \in Fetchers
      PROVE  fetch'[f] \in FetchState /\ FetcherOK(f)'
  <2>1. FetcherOK(f) /\ HasFile(row.file)' = HasFile(row.file) /\ fetch[f] \in FetchState
      BY <1>1, <1>2 DEF CacheInv, HasFile
  <2>2. CASE f \in Writers(v)
    <3>1. fetch'[f] = Cut(f)
        BY <1>1, <2>2
    <3>2. /\ fetch'[f] \in FetchState /\ fetch'[f].at = "bereft" /\ fetch'[f].buffer = <<>>
          /\ fetch'[f].obj = fetch[f].obj
        BY <1>3, <2>1, <3>1 DEF Cut, FetchState
    <3>3. fetch[f].at \in {"loading", "loaded"}
        BY <2>2 DEF Writers
    <3> QED BY <1>1, <2>1, <3>2, <3>3 DEF FetcherOK
  <2>3. CASE f \notin Writers(v)
    <3>1. fetch'[f] = fetch[f]
        BY <1>1, <2>3
    <3>2. fetch[f].at \in {"loading", "loaded"} => fetch[f].ident \in Ids \ {v}
        BY <2>3, FetcherIs DEF Writers
    <3>3. fetch[f].at \in {"loading", "loaded"} => part'[fetch[f].ident] = part[fetch[f].ident]
        BY <1>4, <3>2
    <3> QED BY <1>1, <2>1, <3>1, <3>3 DEF FetcherOK, Excused
  <2> QED BY <2>2, <2>3
<1>6. fetch' \in [Fetchers -> FetchState]
    BY <1>1, <1>5
<1>7. CacheTypeOK'
    BY <1>1, <1>4, <1>6 DEF CacheInv, CacheTypeOK, FetchState
<1>8. FilesOK'
    BY <1>1, <1>3, <1>4 DEF CacheInv, FilesOK
<1> QED BY <1>1, <1>5, <1>7, <1>8, RowStays DEF CacheInv

\* A swept original: the row that names it, or is about to, is on the record.
LEMMA SweepsOriginalKeeps ==
    ASSUME CacheInv, prune.at = "sweeping", NEW v \in Ids, SweepsOriginal(v),
           UNCHANGED <<media, row, lease, mishaps>>
    PROVE  CacheInv'
<1> DEFINE named == row.file = v \/ \E f \in Fetchers : At(f, "replaced") /\ fetch[f].ident = v
<1>1. /\ original' = [original EXCEPT ![v] = Missing]
      /\ prune' = IF named THEN [prune EXCEPT !.taken = @ \cup {v}] ELSE prune
      /\ UNCHANGED <<media, row, part, lease, fetch, mishaps>>
    BY DEF SweepsOriginal
<1>2. /\ original \in [Ids -> Seq(0..Chunks)] /\ prune \in PruneState
      /\ row.file \in 0..Versions /\ Versions \in Nat
    BY CacheConstants DEF CacheInv, CacheTypeOK, PruneState
<1>3. /\ original' \in [Ids -> Seq(0..Chunks)] /\ original'[v] = Missing
      /\ \A o \in Ids \ {v} : original'[o] = original[o]
    BY <1>1, <1>2, MissingIs
<1>4. /\ prune' \in PruneState /\ prune'.at = "sweeping" /\ prune.taken \subseteq prune'.taken
      /\ named => v \in prune'.taken
    BY <1>1, <1>2 DEF PruneState
<1>5. CacheTypeOK'
    BY <1>1, <1>3, <1>4 DEF CacheInv, CacheTypeOK, PruneState
<1>6. HasFile(row.file)' => HasFile(row.file)
    BY <1>1, <1>2, <1>3 DEF HasFile, Ids
<1>7. row.file # v => HasFile(row.file)' = HasFile(row.file)
    BY <1>1, <1>2, <1>3 DEF HasFile, Ids
<1>8. ASSUME NEW g \in Fetchers, fetch[g].at = "replaced"
      PROVE  original'[fetch[g].ident] = Whole \/ Excused(fetch[g].ident)'
  <2>1. fetch[g].ident \in Ids /\ (original[fetch[g].ident] = Whole \/ Excused(fetch[g].ident))
      BY <1>8, FetcherIs, ReplacedIs
  <2>2. CASE fetch[g].ident = v
    <3>1. named
        BY <1>8, <2>2 DEF At
    <3>2. UNCHANGED fetch
        BY <1>1
    <3> HIDE DEF named
    <3> QED BY <1>4, <2>2, <3>1, <3>2 DEF Excused
  <2>3. CASE fetch[g].ident # v
      BY <1>1, <1>3, <1>4, <2>1, <2>3 DEF Excused
  <2> QED BY <2>2, <2>3
<1>9. \A g \in Fetchers : FetcherOK(g)'
    BY <1>1, <1>6, <1>8, AskedHasNoFile, WorkersStay
<1>10. FilesOK'
    BY <1>1, <1>3 DEF CacheInv, FilesOK
<1>11. RowOK'
  <2>1. CASE row.file = v
      BY <1>1, <1>3, <1>4, <2>1 DEF CacheInv, RowOK, HasFile
  <2>2. CASE row.file # v
      BY <1>1, <1>4, <1>7, <2>2 DEF CacheInv, RowOK
  <2> QED BY <2>1, <2>2
<1>12. PruneOK'
    BY <1>4 DEF PruneOK
<1> QED BY <1>5, <1>9, <1>10, <1>11, <1>12 DEF CacheInv

LEMMA PruneSweepsKeeps == ASSUME CacheInv, PruneSweeps PROVE CacheInv'
<1>1. PICK v \in prune.orphans : SweepsPart(v) \/ SweepsOriginal(v)
    BY DEF PruneSweeps
<1>2. prune.at = "sweeping" /\ UNCHANGED <<media, row, lease, mishaps>>
    BY DEF PruneSweeps
<1>3. v \in Ids
    BY DEF CacheInv, CacheTypeOK
<1> QED BY <1>1, <1>2, <1>3, SweepsPartKeeps, SweepsOriginalKeeps

LEMMA CacheInvInit == InitCache => CacheInv
<1> SUFFICES ASSUME InitCache PROVE CacheInv
    OBVIOUS
<1> USE CacheConstants DEF InitCache
<1>0. prune \in PruneState /\ prune.at = "idle"
    BY RestingIs
<1>1. CacheTypeOK
  <2>1. media \in Ids /\ row \in RowState /\ mishaps \in 0..MaxMishaps
      BY DEF Ids, RowState
  <2>2. fetch \in [Fetchers -> FetchState] /\ original \in [Ids -> Seq(0..Chunks)]
      BY MissingIs, AwayIs
  <2> QED BY <1>0, <2>1, <2>2 DEF CacheTypeOK, FetchState, PruneState, RowState
<1>2. \A f \in Fetchers : FetcherOK(f)
    BY AwayIs DEF FetcherOK
<1>3. FilesOK
    BY UptoIs DEF FilesOK
<1>4. RowOK /\ PruneOK
    BY <1>0 DEF RowOK, PruneOK
<1> QED BY <1>1, <1>2, <1>3, <1>4 DEF CacheInv

LEMMA CacheInvStep == ~ MayLapse => (CacheInv /\ [NextCache]_cacheVars => CacheInv')
<1> SUFFICES ASSUME ~ MayLapse, CacheInv, [NextCache]_cacheVars PROVE CacheInv'
    OBVIOUS
<1>1. ASSUME NEW f \in Fetchers, FetcherStep(f) PROVE CacheInv'
    BY <1>1, FetchBeginsKeeps, LeasesKeeps, RereadsKeeps, IdentifiesKeeps, AdoptsKeeps,
       OpensPartKeeps, ArrivesKeeps, FlushesKeeps, LoadedKeeps, LoadFailsKeeps, ReplacesKeeps,
       CachedKeeps, BereftKeeps, FetcherDiesKeeps DEF FetcherStep
<1>2. CASE UNCHANGED cacheVars
  <2>1. CacheTypeOK' /\ FilesOK' /\ RowOK' /\ PruneOK'
      BY <1>2 DEF cacheVars, CacheInv, CacheTypeOK, FilesOK, RowOK, PruneOK, HasFile
  <2>2. \A g \in Fetchers : FetcherOK(g)'
      BY <1>2 DEF cacheVars, CacheInv, FetcherOK, HasFile, Excused
  <2> QED BY <2>1, <2>2 DEF CacheInv
<1> QED BY <1>1, <1>2, LeaseLapsesKeeps, MediaReplacedKeeps, EditHandledKeeps, PruneUnlinksKeeps,
        PruneDeletesKeeps, PruneReadsKeeps, PruneSweepsKeeps, PruneEndsKeeps, PrunerDiesKeeps
        DEF NextCache

\* As long as a live worker keeps its lease, every cached original is whole and a row names
\* the file of its own version, which is there, for any number of workers, versions and
\* chunks, after any crashes, stalls, edits and prunings.
THEOREM CachedOriginalsAreWhole == ASSUME ~ MayLapse PROVE CacheSpec => []CacheIsWhole
<1>1. CacheInv /\ [NextCache]_cacheVars => CacheInv'
    BY CacheInvStep
<1>2. CacheInv => CacheIsWhole
    BY DEF CacheInv, FilesOK, RowOK, CacheIsWhole, HasFile
<1> QED BY <1>1, <1>2, CacheInvInit, PTL DEF CacheSpec

\* The shapes of the cache's variables, with leases that may lapse or not: a worker that
\* has identified what it fetches has a version of the message.
Identified == \A f \in Fetchers : fetch[f].at = "identified" => fetch[f].ident \in Ids
Fetching == fetch \in [Fetchers -> FetchState] /\ Identified
CacheShape ==
    /\ Fetching
    /\ row \in RowState /\ media \in Ids /\ mishaps \in 0..MaxMishaps
    /\ part \in [Ids -> Seq(1..Chunks)] /\ original \in [Ids -> Seq(0..Chunks)]
    /\ lease \in Fetchers \cup {Nobody}
    /\ prune \in PruneState

LEMMA CacheShapeInit == InitCache => CacheShape
<1> SUFFICES ASSUME InitCache PROVE CacheShape
    OBVIOUS
<1>1. row \in RowState /\ media \in Ids /\ mishaps \in 0..MaxMishaps
    BY CacheConstants DEF InitCache, RowState, Ids
<1>2. part \in [Ids -> Seq(1..Chunks)] /\ original \in [Ids -> Seq(0..Chunks)]
    BY MissingIs DEF InitCache
<1>3. Fetching
    BY AwayIs DEF InitCache, Fetching, Identified
<1>4. /\ lease \in Fetchers \cup {Nobody}
      /\ prune \in PruneState
    BY CacheConstants, RestingIs DEF InitCache
<1> QED BY <1>1, <1>2, <1>3, <1>4 DEF CacheShape

LEMMA FetcherMoves ==
    ASSUME CacheShape, NEW f \in Fetchers, NEW r \in FetchState, fetch' = [fetch EXCEPT ![f] = r],
           r.at = "identified" => r.ident \in Ids
    PROVE  Fetching'
<1>1. fetch' \in [Fetchers -> FetchState] /\ fetch'[f] = r
      /\ \A g \in Fetchers \ {f} : fetch'[g] = fetch[g]
    BY DEF CacheShape, Fetching
<1>2. Identified'
    BY <1>1 DEF CacheShape, Fetching, Identified, Ids
<1> QED BY <1>1, <1>2 DEF Fetching

LEMMA FetcherShape ==
    ASSUME CacheShape, NEW f \in Fetchers
    PROVE  fetch[f] \in FetchState /\ (At(f, "identified") => fetch[f].ident \in Ids)
    BY DEF CacheShape, Fetching, Identified, At

LEMMA ReachesShape ==
    ASSUME CacheShape, NEW f \in Fetchers, Reaches(f, "asking") \/ Reaches(f, "asked")
                                           \/ Reaches(f, "loaded") \/ Reaches(f, "replaced")
    PROVE  Fetching'
<1>1. PICK place \in {"asking", "asked", "loaded", "replaced"} : fetch' = [fetch EXCEPT ![f].at = place]
    BY DEF Reaches
<1> DEFINE r == [fetch[f] EXCEPT !.at = place]
<1>2. r \in FetchState /\ r.at # "identified"
    BY FetcherShape DEF FetchState
<1>3. fetch' = [fetch EXCEPT ![f] = r]
    BY <1>1
<1> HIDE DEF r
<1> QED BY <1>2, <1>3, FetcherMoves

LEMMA AwayShape == ASSUME CacheShape, NEW f \in Fetchers, fetch' = [fetch EXCEPT ![f] = Away]
                   PROVE  Fetching'
    BY AwayIs, FetcherMoves

\* What a buffer adds to a partial file.
LEMMA BufferWritten ==
    ASSUME CacheShape, NEW f \in Fetchers
    PROVE  [part EXCEPT ![fetch[f].ident] = @ \o fetch[f].buffer] \in [Ids -> Seq(1..Chunks)]
<1>1. fetch[f].buffer \in Seq(1..Chunks)
    BY FetcherShape DEF FetchState
<1>2. part \in [Ids -> Seq(1..Chunks)]
    BY DEF CacheShape
<1>3. \A v \in Ids : part[v] \o fetch[f].buffer \in Seq(1..Chunks)
    BY <1>1, <1>2
<1> QED BY <1>2, <1>3

LEMMA LeavesShape ==
    ASSUME CacheShape, NEW f \in Fetchers, Leaves(f)
    PROVE  Fetching' /\ lease' \in Fetchers \cup {Nobody} /\ part' \in [Ids -> Seq(1..Chunks)]
<1>1. Fetching'
    BY AwayShape DEF Leaves
<1>2. lease' \in Fetchers \cup {Nobody}
    BY DEF Leaves, Freed, CacheShape
<1>3. part' \in [Ids -> Seq(1..Chunks)]
    BY BufferWritten DEF Leaves, CacheShape
<1> QED BY <1>1, <1>2, <1>3

LEMMA FetcherStepShape == ASSUME CacheShape, NEW f \in Fetchers, FetcherStep(f) PROVE CacheShape'
<1>1. /\ row \in RowState /\ media \in Ids /\ media \in 0..Versions /\ Ids \subseteq 0..Versions
      /\ part \in [Ids -> Seq(1..Chunks)] /\ original \in [Ids -> Seq(0..Chunks)]
      /\ mishaps \in 0..MaxMishaps /\ lease \in Fetchers \cup {Nobody}
      /\ prune \in PruneState
      /\ fetch[f] \in FetchState /\ (At(f, "identified") => fetch[f].ident \in Ids)
    BY CacheConstants, FetcherShape DEF CacheShape, Ids
<1>2. fetch[f].ident \in 0..Versions /\ fetch[f].offset \in 0..Chunks
      /\ fetch[f].buffer \in Seq(1..Chunks)
    BY <1>1 DEF FetchState
<1>3. (Mishap => mishaps' \in 0..MaxMishaps) /\ <<>> \in Seq(1..Chunks)
    BY <1>1, CacheConstants DEF Mishap
<1>4. CASE FetchBegins(f)
  <2> DEFINE r == [Away EXCEPT !.at = "leasing", !.obj = row'.id, !.first = row'.ident]
  <2>1. row' \in RowState
      BY <1>1, <1>4, CacheConstants DEF FetchBegins, RowState
  <2>2. r \in FetchState /\ r.at # "identified"
      BY <2>1, AwayIs DEF FetchState, RowState
  <2>3. fetch' = [fetch EXCEPT ![f] = r]
      BY <1>4 DEF FetchBegins
  <2> HIDE DEF r
  <2>4. Fetching'
      BY <2>2, <2>3, FetcherMoves
  <2> QED BY <1>1, <1>4, <2>1, <2>4 DEF FetchBegins, CacheShape
<1>5. CASE Leases(f)
  <2>1. Fetching' /\ lease' \in Fetchers \cup {Nobody}
      BY <1>1, <1>5, AwayShape, ReachesShape DEF Leases
  <2> QED BY <1>1, <1>5, <2>1 DEF Leases, CacheShape
<1>6. CASE Rereads(f)
  <2>1. Fetching' /\ lease' \in Fetchers \cup {Nobody} /\ part' \in [Ids -> Seq(1..Chunks)]
      BY <1>1, <1>6, LeavesShape, ReachesShape DEF Rereads
  <2> QED BY <1>1, <1>6, <2>1 DEF Rereads, CacheShape
<1>7. CASE Identifies(f)
  <2>1. CASE Leaves(f) /\ UNCHANGED row
    <3>1. Fetching' /\ lease' \in Fetchers \cup {Nobody} /\ part' \in [Ids -> Seq(1..Chunks)]
        BY <2>1, LeavesShape
    <3> QED BY <1>1, <1>7, <2>1, <3>1 DEF Identifies, CacheShape
  <2>2. CASE /\ row' = [row EXCEPT !.ident = media] /\ UNCHANGED <<part, lease>>
             /\ fetch' = [fetch EXCEPT ![f].at = "identified", ![f].ident = media]
    <3> DEFINE r == [fetch[f] EXCEPT !.at = "identified", !.ident = media]
    <3>1. r \in FetchState /\ r.ident \in Ids /\ row' \in RowState
        BY <1>1, <2>2 DEF FetchState, RowState
    <3>2. fetch' = [fetch EXCEPT ![f] = r]
        BY <2>2
    <3> HIDE DEF r
    <3>3. Fetching'
        BY <3>1, <3>2, FetcherMoves
    <3> QED BY <1>1, <1>7, <2>2, <3>1, <3>3 DEF Identifies, CacheShape
  <2> QED BY <1>7, <2>1, <2>2 DEF Identifies
<1>8. CASE Adopts(f)
  <2>1. Fetching' /\ lease' \in Fetchers \cup {Nobody} /\ part' \in [Ids -> Seq(1..Chunks)]
      BY <1>8, LeavesShape DEF Adopts
  <2>2. row' \in RowState
      BY <1>1, <1>2, <1>8 DEF Adopts, RowState
  <2> QED BY <1>1, <1>8, <2>1, <2>2 DEF Adopts, CacheShape
<1>9. CASE OpensPart(f)
  <2> DEFINE v == fetch[f].ident
             kept == IF Len(part[v]) > Chunks THEN <<>> ELSE part[v]
             r == [fetch[f] EXCEPT !.at = "loading", !.offset = Len(kept)]
  <2>1. v \in Ids /\ part[v] \in Seq(1..Chunks)
      BY <1>1, <1>9 DEF OpensPart
  <2>2. kept \in Seq(1..Chunks) /\ Len(kept) \in 0..Chunks
    <3>1. CASE Len(part[v]) > Chunks
      <4>1. kept = <<>>
          BY <3>1
      <4> HIDE DEF kept
      <4>2. Len(kept) = 0 /\ 0 \in 0..Chunks
          BY <4>1, CacheConstants
      <4> QED BY <1>3, <4>1, <4>2
    <3>2. CASE ~ (Len(part[v]) > Chunks)
      <4>1. kept = part[v] /\ Len(part[v]) \in Nat
          BY <2>1, <3>2
      <4> QED BY <2>1, <3>2, <4>1, CacheConstants
    <3> QED BY <3>1, <3>2
  <2>3. r \in FetchState /\ r.at # "identified"
      BY <1>1, <2>2 DEF FetchState
  <2>4. fetch' = [fetch EXCEPT ![f] = r] /\ part' = [part EXCEPT ![v] = kept]
      BY <1>9 DEF OpensPart
  <2> HIDE DEF v, kept, r
  <2>5. Fetching' /\ part' \in [Ids -> Seq(1..Chunks)]
      BY <1>1, <2>2, <2>3, <2>4, FetcherMoves
  <2> QED BY <1>1, <1>9, <2>5 DEF OpensPart, CacheShape
<1>10. CASE Arrives(f)
  <2>1. CASE Leaves(f)
    <3>1. Fetching' /\ lease' \in Fetchers \cup {Nobody} /\ part' \in [Ids -> Seq(1..Chunks)]
        BY <2>1, LeavesShape
    <3> QED BY <1>1, <1>10, <3>1 DEF Arrives, CacheShape
  <2>2. CASE /\ fetch[f].offset < Chunks /\ UNCHANGED <<part, lease>>
             /\ fetch' = [fetch EXCEPT ![f].offset = @ + 1,
                                       ![f].buffer = Append(@, fetch[f].offset + 1)]
    <3> DEFINE n == fetch[f].offset + 1
               q == Append(fetch[f].buffer, n)
               r == [fetch[f] EXCEPT !.offset = n, !.buffer = q]
    <3>1. n \in 1..Chunks /\ n \in 0..Chunks
        BY <1>2, <2>2, CacheConstants
    <3>2. fetch' = [fetch EXCEPT ![f] = r]
        BY <2>2
    <3> HIDE DEF n
    <3>3. q \in Seq(1..Chunks)
        BY <1>2, <3>1
    <3> HIDE DEF q
    <3>4. r \in FetchState /\ r.at = fetch[f].at /\ r.ident = fetch[f].ident
        BY <1>1, <3>1, <3>3 DEF FetchState
    <3> HIDE DEF r
    <3>5. Fetching'
        BY <1>1, <3>2, <3>4, FetcherMoves DEF At
    <3> QED BY <1>1, <1>10, <2>2, <3>5 DEF Arrives, CacheShape
  <2> QED BY <1>10, <2>1, <2>2 DEF Arrives
<1>11. CASE Flushes(f)
  <2> DEFINE r == [fetch[f] EXCEPT !.buffer = <<>>]
  <2>1. r \in FetchState /\ r.at = fetch[f].at /\ r.ident = fetch[f].ident
      BY <1>1, <1>3 DEF FetchState
  <2>2. fetch' = [fetch EXCEPT ![f] = r]
      BY <1>11 DEF Flushes
  <2> HIDE DEF r
  <2>3. Fetching' /\ part' \in [Ids -> Seq(1..Chunks)]
      BY <1>1, <1>11, <2>1, <2>2, FetcherMoves, BufferWritten DEF Flushes, At
  <2> QED BY <1>1, <1>11, <2>3 DEF Flushes, CacheShape
<1>12. CASE Loaded(f)
  <2>1. Fetching'
      BY <1>12, ReachesShape DEF Loaded
  <2> QED BY <1>1, <1>12, <2>1 DEF Loaded, CacheShape
<1>13. CASE LoadFails(f)
  <2>1. Fetching' /\ lease' \in Fetchers \cup {Nobody} /\ part' \in [Ids -> Seq(1..Chunks)]
      BY <1>13, LeavesShape DEF LoadFails
  <2> QED BY <1>1, <1>3, <1>13, <2>1 DEF LoadFails, CacheShape
<1>14. CASE Replaces(f)
  <2>1. CASE Leaves(f) /\ UNCHANGED original
    <3>1. Fetching' /\ lease' \in Fetchers \cup {Nobody} /\ part' \in [Ids -> Seq(1..Chunks)]
        BY <2>1, LeavesShape
    <3> QED BY <1>1, <1>14, <2>1, <3>1 DEF Replaces, CacheShape
  <2>2. CASE /\ original' = [original EXCEPT ![fetch[f].ident] = part[fetch[f].ident]]
             /\ part' = [part EXCEPT ![fetch[f].ident] = <<>>]
             /\ Reaches(f, "replaced") /\ UNCHANGED lease
    <3>1. \A v \in Ids : part[v] \in Seq(0..Chunks)
      <4>1. \A v \in Ids : part[v] \in Seq(1..Chunks)
          BY <1>1
      <4>2. \A q \in Seq(1..Chunks) : q \in Seq(0..Chunks)
          BY CacheConstants
      <4> QED BY <4>1, <4>2
    <3>2. original' \in [Ids -> Seq(0..Chunks)]
        BY <1>1, <2>2, <3>1
    <3>4. part' \in [Ids -> Seq(1..Chunks)]
        BY <1>1, <1>3, <2>2
    <3>3. Fetching'
        BY <2>2, ReachesShape
    <3> QED BY <1>1, <1>14, <2>2, <3>2, <3>3, <3>4 DEF Replaces, CacheShape
  <2> QED BY <1>14, <2>1, <2>2 DEF Replaces
<1>15. CASE Cached(f)
  <2>1. Fetching' /\ lease' \in Fetchers \cup {Nobody} /\ part' \in [Ids -> Seq(1..Chunks)]
      BY <1>15, LeavesShape DEF Cached
  <2>2. row' \in RowState
      BY <1>1, <1>2, <1>15 DEF Cached, RowState
  <2> QED BY <1>1, <1>15, <2>1, <2>2 DEF Cached, CacheShape
<1>16. CASE Bereft(f)
  <2>1. Fetching' /\ lease' \in Fetchers \cup {Nobody} /\ part' \in [Ids -> Seq(1..Chunks)]
      BY <1>16, LeavesShape DEF Bereft
  <2> QED BY <1>1, <1>16, <2>1 DEF Bereft, CacheShape
<1>17. CASE FetcherDies(f)
  <2>1. Fetching'
      BY <1>17, AwayShape DEF FetcherDies
  <2> QED BY <1>1, <1>3, <1>17, <2>1 DEF FetcherDies, CacheShape
<1> QED BY <1>4, <1>5, <1>6, <1>7, <1>8, <1>9, <1>10, <1>11, <1>12, <1>13, <1>14, <1>15, <1>16,
        <1>17 DEF FetcherStep

LEMMA EmptyPart == <<>> \in Seq(1..Chunks)
    OBVIOUS

LEMMA SweepsPartShape == ASSUME CacheShape, NEW v \in Ids, SweepsPart(v) PROVE Fetching'
<1>1. fetch' = [f \in Fetchers |-> IF f \in Writers(v) THEN Cut(f) ELSE fetch[f]]
    BY DEF SweepsPart
<1>2. ASSUME NEW f \in Fetchers
      PROVE  fetch'[f] \in FetchState /\ (fetch'[f].at = "identified" => fetch'[f].ident \in Ids)
  <2>1. fetch[f] \in FetchState /\ (fetch[f].at = "identified" => fetch[f].ident \in Ids)
      BY FetcherShape DEF At
  <2>2. CASE f \in Writers(v)
    <3>1. fetch'[f] = Cut(f)
        BY <1>1, <2>2
    <3> QED BY <2>1, <3>1, EmptyPart DEF Cut, FetchState
  <2>3. CASE f \notin Writers(v)
      BY <1>1, <2>1, <2>3
  <2> QED BY <2>2, <2>3
<1>3. fetch' \in [Fetchers -> FetchState]
    BY <1>1, <1>2
<1>4. Identified'
    BY <1>2 DEF Identified, Ids
<1> QED BY <1>3, <1>4 DEF Fetching

LEMMA CacheShapeStep == CacheShape /\ [NextCache]_cacheVars => CacheShape'
<1> SUFFICES ASSUME CacheShape, [NextCache]_cacheVars PROVE CacheShape'
    OBVIOUS
<1>1. /\ Fetching /\ row \in RowState /\ media \in Ids /\ mishaps \in 0..MaxMishaps
      /\ part \in [Ids -> Seq(1..Chunks)] /\ original \in [Ids -> Seq(0..Chunks)]
      /\ lease \in Fetchers \cup {Nobody}
      /\ prune \in PruneState
    BY DEF CacheShape
<1>2. Mishap => mishaps' \in 0..MaxMishaps
    BY <1>1, CacheConstants DEF Mishap
<1>3. UNCHANGED fetch => Fetching'
    BY <1>1 DEF Fetching, Identified, Ids
<1>4. Deleted \in RowState /\ 0 \in 0..MaxObjects /\ row.id \in 0..MaxObjects
      /\ media \in 0..Versions /\ 0 \in 0..Versions
  <2>1. 0 \in 0..MaxObjects /\ media \in 0..Versions /\ 0 \in 0..Versions
      BY <1>1, CacheConstants DEF Ids
  <2> QED BY <1>1, <2>1 DEF Deleted, RowState
<1>5. CASE LeaseLapses
    BY <1>1, <1>2, <1>3, <1>5 DEF LeaseLapses, CacheShape
<1>6. CASE MediaReplaced
  <2>1. media' \in Ids
      BY <1>1, <1>6, CacheConstants DEF MediaReplaced, Ids
  <2> QED BY <1>1, <1>3, <1>6, <2>1 DEF MediaReplaced, CacheShape
<1>7. CASE EditHandled
  <2>1. row' \in RowState
      BY <1>1, <1>4, <1>7 DEF EditHandled, RowState
  <2> QED BY <1>1, <1>3, <1>7, <2>1 DEF EditHandled, CacheShape
<1>8. CASE PruneUnlinks
  <2>1. original' \in [Ids -> Seq(0..Chunks)]
      BY <1>1, <1>8, MissingIs DEF PruneUnlinks
  <2>2. prune' \in PruneState
      BY <1>1, <1>4, <1>8 DEF PruneUnlinks, PruneState
  <2> QED BY <1>1, <1>3, <1>8, <2>1, <2>2 DEF PruneUnlinks, CacheShape
<1>9. prune.taken \in SUBSET Ids /\ {} \in SUBSET Ids
    BY <1>1 DEF PruneState
<1>10. CASE PruneDeletes
  <2>1. row' \in RowState /\ UNCHANGED <<media, part, original, lease, fetch, mishaps>>
      BY <1>1, <1>4, <1>10 DEF PruneDeletes
  <2>2. prune' = Resting({}) \/ prune' = Resting(prune.taken)
      BY <1>10 DEF PruneDeletes
  <2>3. prune' \in PruneState
      BY <1>9, <2>2, RestingIs
  <2> QED BY <1>1, <1>3, <2>1, <2>3 DEF CacheShape
<1>11. CASE PruneReads
  <2> DEFINE whole == {v \in Ids : HasFile(v) \/ part[v] = Whole}
  <2>1. PICK orphans \in SUBSET Ids :
          prune' = [prune EXCEPT !.at = "sweeping", !.orphans = orphans, !.parts = part,
                                !.whole = whole]
      BY <1>11, Zenon DEF PruneReads
  <2>2. whole \in SUBSET Ids
      OBVIOUS
  <2> HIDE DEF whole
  <2>3. prune' \in PruneState
      BY <1>1, <2>1, <2>2 DEF PruneState
  <2>4. UNCHANGED <<media, row, part, original, lease, fetch, mishaps>>
      BY <1>11 DEF PruneReads
  <2> QED BY <1>1, <1>3, <2>3, <2>4 DEF CacheShape
<1>12. CASE PruneSweeps
  <2>1. PICK v \in prune.orphans : SweepsPart(v) \/ SweepsOriginal(v)
      BY <1>12 DEF PruneSweeps
  <2>2. v \in Ids /\ UNCHANGED <<media, row, lease, mishaps>>
      BY <1>1, <1>12 DEF PruneSweeps, PruneState
  <2>3. CASE SweepsPart(v)
    <3>1. part' = [part EXCEPT ![v] = <<>>] /\ UNCHANGED <<original, prune>>
        BY <2>3, Zenon DEF SweepsPart
    <3>4. part' \in [Ids -> Seq(1..Chunks)]
        BY <1>1, <2>2, <3>1, EmptyPart
    <3>2. Fetching'
        BY <2>2, <2>3, SweepsPartShape
    <3> QED BY <1>1, <2>2, <3>1, <3>2, <3>4 DEF CacheShape
  <2>4. CASE SweepsOriginal(v)
    <3>1. original' = [original EXCEPT ![v] = Missing] /\ UNCHANGED <<part, fetch>>
        BY <2>4, Zenon DEF SweepsOriginal
    <3>4. original' \in [Ids -> Seq(0..Chunks)]
        BY <1>1, <2>2, <3>1, MissingIs
    <3>2. prune' = prune \/ prune' = [prune EXCEPT !.taken = prune.taken \cup {v}]
        BY <2>4 DEF SweepsOriginal
    <3>5. prune.taken \cup {v} \in SUBSET Ids
        BY <1>9, <2>2
    <3>3. prune' \in PruneState
        BY <1>1, <3>2, <3>5 DEF PruneState
    <3> QED BY <1>1, <1>3, <2>2, <3>1, <3>3, <3>4 DEF CacheShape
  <2> QED BY <2>1, <2>3, <2>4
<1>13. CASE PruneEnds
  <2>1. prune' \in PruneState
      BY <1>9, <1>13, RestingIs DEF PruneEnds
  <2> QED BY <1>1, <1>3, <1>13, <2>1 DEF PruneEnds, CacheShape
<1>14. CASE PrunerDies
  <2>1. prune.taken \cup ({row.file} \cap Ids) \in SUBSET Ids
      BY <1>9
  <2>2. prune' \in PruneState
      BY <1>14, <2>1, RestingIs DEF PrunerDies
  <2> QED BY <1>1, <1>2, <1>3, <1>14, <2>2 DEF PrunerDies, CacheShape
<1>15. CASE UNCHANGED cacheVars
    BY <1>1, <1>3, <1>15 DEF cacheVars, CacheShape
<1> QED BY <1>5, <1>6, <1>7, <1>8, <1>10, <1>11, <1>12, <1>13, <1>14, <1>15, FetcherStepShape
        DEF NextCache

\* The values of the cache's variables are what the code can hold, whether the lease of a
\* live worker may lapse or not.
THEOREM CacheTypesAlways == CacheSpec => []CacheTypeOK
<1>1. CacheShape => CacheTypeOK
    BY DEF CacheShape, Fetching, CacheTypeOK, RowState, FetchState, PruneState
<1> QED BY <1>1, CacheShapeInit, CacheShapeStep, PTL DEF CacheSpec

(***************************************************************************)
(* PeerMerge.                                                              *)
(***************************************************************************)

Raw == origin["raw"]
Canonical == origin["canonical"]
KeptParts == Canonical.attached \cup (Raw.attached \ Canonical.messages)
Larger2(a, b) == IF a > b THEN a ELSE b

\* Two rows, after k statements of their migration.
PairAfter(w, k) ==
    /\ w["canonical"].there /\ (w["raw"].there <=> k < 7)
    /\ w["canonical"].messages = IF k < 2 THEN Canonical.messages
                                 ELSE Canonical.messages \cup Raw.messages
    /\ w["raw"].messages = IF k = 0 THEN Raw.messages
                           ELSE IF k = 1 THEN Raw.messages \ Canonical.messages ELSE {}
    /\ w["canonical"].attached = IF k < 2 THEN Canonical.attached ELSE KeptParts
    /\ w["raw"].attached = IF k = 0 THEN Raw.attached
                           ELSE IF k = 1 THEN Raw.attached \ Canonical.messages ELSE {}
    /\ w["canonical"].jobs = IF k < 3 THEN Canonical.jobs ELSE Canonical.jobs \cup Raw.jobs
    /\ w["raw"].jobs = IF k < 3 THEN Raw.jobs ELSE {}
    /\ w["canonical"].mark = IF k < 4 \/ (k < 6 /\ Canonical.mark = NoMark) THEN Canonical.mark
                             ELSE Larger2(Canonical.mark, Raw.mark)
    /\ w["raw"].mark = IF k < 5 \/ (k = 5 /\ Canonical.mark = NoMark) THEN Raw.mark ELSE NoMark
    /\ (k >= 7 => w["raw"] = NoRow)
    /\ (k = 9 => w["canonical"].synced = Cardinality(w["canonical"].messages))

\* One row or none: it takes the canonical number, and is recounted.
Lone == IF Raw.there THEN Raw ELSE Canonical
SingleAfter(w, k) ==
    /\ (k < 8 => w = origin)
    /\ (k >= 8 => w["raw"] = NoRow)
    /\ (k = 8 => w["canonical"] = Lone)
    /\ (k = 9 => /\ w["canonical"].there = Lone.there /\ w["canonical"].messages = Lone.messages
                 /\ w["canonical"].attached = Lone.attached
                 /\ w["canonical"].jobs = Lone.jobs /\ w["canonical"].mark = Lone.mark
                 /\ w["canonical"].synced = Cardinality(w["canonical"].messages))

Upgraded(w, k) == /\ w \in [Forms -> Row]
                  /\ Paired(origin) => PairAfter(w, k)
                  /\ ~ Paired(origin) => SingleAfter(w, k)

\* What the migrations found.
OriginOK == /\ origin \in [Forms -> Row]
            /\ \A f \in Forms : origin[f].there \/ origin[f] = NoRow
            /\ \A f \in Forms : Covered(origin[f])

\* How many statements of the chat's own migration have run.
Statements == IF statement = Merged THEN PerMigration
              ELSE IF chatType = "GROUP"
                   THEN IF statement <= PerMigration THEN statement - 1 ELSE PerMigration
                   ELSE IF statement <= PerMigration THEN 0 ELSE statement - PerMigration - 1

MergeInv == /\ MergeTypeOK /\ OriginOK
            /\ rows = IF statement = Merged THEN work ELSE origin
            /\ Upgraded(work, Statements)

LEMMA NoRowIs == NoRow \in Row /\ ~ NoRow.there /\ NoRow.messages = {} /\ NoRow.jobs = {}
                 /\ NoRow.attached = {}
                 /\ NoRow.mark = NoMark /\ NoRow.synced = 0
    BY MergeConstants DEF NoRow, Row, NoMark

LEMMA RowsAre == ASSUME NEW w \in [Forms -> Row], NEW f \in Forms
                 PROVE  /\ w[f] \in Row /\ w[f].there \in BOOLEAN /\ w[f].messages \subseteq PostIds
                        /\ w[f].attached \subseteq PostIds
                        /\ w[f].jobs \subseteq Forms /\ w[f].mark \in {NoMark, 0} \cup PostIds
                        /\ w[f].mark \in Int /\ w[f].mark >= NoMark /\ w[f].synced \in 0..LastPost
<1>1. /\ w[f] \in Row /\ w[f].there \in BOOLEAN /\ w[f].messages \subseteq PostIds
      /\ w[f].attached \subseteq PostIds /\ w[f].jobs \subseteq Forms /\ w[f].mark \in {NoMark, 0} \cup PostIds
      /\ w[f].synced \in 0..LastPost
    BY DEF Row
<1>2. w[f].mark \in Int /\ w[f].mark >= NoMark
    BY <1>1, MergeConstants DEF PostIds, NoMark
<1> QED BY <1>1, <1>2

LEMMA CountIs == ASSUME NEW S \in SUBSET PostIds PROVE Cardinality(S) \in 0..LastPost
<1>1. IsFiniteSet(PostIds) /\ Cardinality(PostIds) = LastPost
  <2>1. IsFiniteSet(1..LastPost) /\ Cardinality(1..LastPost) = IF 1 > LastPost THEN 0 ELSE LastPost - 1 + 1
      BY MergeConstants, FS_Interval
  <2> QED BY <2>1, MergeConstants DEF PostIds
<1>2. IsFiniteSet(S) /\ Cardinality(S) <= LastPost
    BY <1>1, FS_Subset
<1>3. Cardinality(S) \in Nat
    BY <1>2, FS_CardinalityType
<1> QED BY <1>2, <1>3, MergeConstants

\* What each statement leaves of the rows.
LEMMA DeletesDuplicatesIs ==
    ASSUME NEW w \in [Forms -> Row]
    PROVE  LET v == DeletesDuplicates(w) IN
           /\ v \in [Forms -> Row] /\ v["canonical"] = w["canonical"]
           /\ v["raw"].there = w["raw"].there /\ v["raw"].jobs = w["raw"].jobs
           /\ v["raw"].mark = w["raw"].mark
           /\ v["raw"].messages = w["raw"].messages \ w["canonical"].messages
           /\ v["raw"].attached = w["raw"].attached \ w["canonical"].messages
    BY RowsAre DEF DeletesDuplicates, Forms, Row
LEMMA MovesMessagesIs ==
    ASSUME NEW w \in [Forms -> Row]
    PROVE  LET v == MovesMessages(w) IN
           /\ v \in [Forms -> Row]
           /\ \A f \in Forms : v[f].there = w[f].there /\ v[f].jobs = w[f].jobs /\ v[f].mark = w[f].mark
           /\ v["canonical"].messages = w["canonical"].messages \cup w["raw"].messages
           /\ v["raw"].messages = {}
           /\ v["canonical"].attached = w["canonical"].attached \cup w["raw"].attached
           /\ v["raw"].attached = {}
<1> DEFINE all == w["canonical"].messages \cup w["raw"].messages
           hung == w["canonical"].attached \cup w["raw"].attached
           c == [w["canonical"] EXCEPT !.messages = all, !.attached = hung]
           r == [w["raw"] EXCEPT !.messages = {}, !.attached = {}]
<1>1. all \subseteq PostIds /\ hung \subseteq PostIds /\ w["canonical"] \in Row /\ w["raw"] \in Row
    BY RowsAre DEF Forms
<1>2. MovesMessages(w) = [w EXCEPT !["canonical"] = c, !["raw"] = r]
    BY DEF MovesMessages, Forms
<1> HIDE DEF all, hung
<1>3. /\ c \in Row /\ r \in Row /\ r.messages = {} /\ r.attached = {}
      /\ c.messages = all /\ c.attached = hung
      /\ c.there = w["canonical"].there /\ c.jobs = w["canonical"].jobs
      /\ c.mark = w["canonical"].mark
      /\ r.there = w["raw"].there /\ r.jobs = w["raw"].jobs /\ r.mark = w["raw"].mark
    BY <1>1 DEF Row
<1> HIDE DEF c, r
<1>4. Forms = {"raw", "canonical"}
    BY DEF Forms
<1> QED BY <1>2, <1>3, <1>4 DEF all, hung
LEMMA MovesJobsIs ==
    ASSUME NEW w \in [Forms -> Row]
    PROVE  LET v == MovesJobs(w) IN
           /\ v \in [Forms -> Row]
           /\ \A f \in Forms : v[f].there = w[f].there /\ v[f].messages = w[f].messages
                               /\ v[f].mark = w[f].mark /\ v[f].attached = w[f].attached
           /\ v["canonical"].jobs = w["canonical"].jobs \cup w["raw"].jobs /\ v["raw"].jobs = {}
    BY RowsAre DEF MovesJobs, Forms, Row

LEMMA JoinsCheckpointsIs ==
    ASSUME NEW w \in [Forms -> Row]
    PROVE  LET v == JoinsCheckpoints(w) IN
           /\ v \in [Forms -> Row] /\ v["raw"] = w["raw"]
           /\ v["canonical"].there = w["canonical"].there
           /\ v["canonical"].messages = w["canonical"].messages
           /\ v["canonical"].attached = w["canonical"].attached
           /\ v["canonical"].jobs = w["canonical"].jobs
           /\ v["canonical"].mark = IF w["canonical"].mark # NoMark
                                    THEN Larger2(w["raw"].mark, w["canonical"].mark)
                                    ELSE NoMark
    BY RowsAre DEF JoinsCheckpoints, Forms, Row, Larger2
LEMMA DeletesCheckpointIs ==
    ASSUME NEW w \in [Forms -> Row]
    PROVE  LET v == DeletesCheckpoint(w) IN
           /\ v \in [Forms -> Row] /\ v["canonical"] = w["canonical"]
           /\ v["raw"].there = w["raw"].there /\ v["raw"].messages = w["raw"].messages
           /\ v["raw"].jobs = w["raw"].jobs /\ v["raw"].attached = w["raw"].attached
           /\ v["raw"].mark = IF w["canonical"].mark # NoMark THEN NoMark ELSE w["raw"].mark
    BY RowsAre DEF DeletesCheckpoint, Forms, Row
LEMMA MovesCheckpointIs ==
    ASSUME NEW w \in [Forms -> Row]
    PROVE  LET v == MovesCheckpoint(w) IN
           /\ v \in [Forms -> Row]
           /\ \A f \in Forms : v[f].there = w[f].there /\ v[f].messages = w[f].messages
                               /\ v[f].jobs = w[f].jobs /\ v[f].attached = w[f].attached
           /\ v["raw"].mark = NoMark
           /\ v["canonical"].mark = IF w["raw"].mark # NoMark THEN w["raw"].mark
                                    ELSE w["canonical"].mark
    BY RowsAre DEF MovesCheckpoint, Forms, Row
LEMMA DeletesLegacyIs ==
    ASSUME NEW w \in [Forms -> Row]
    PROVE  LET v == DeletesLegacy(w) IN
           v \in [Forms -> Row] /\ v["canonical"] = w["canonical"] /\ v["raw"] = NoRow
    BY NoRowIs DEF DeletesLegacy, Forms
LEMMA RenumbersIs ==
    ASSUME NEW w \in [Forms -> Row]
    PROVE  LET v == Renumbers(w) IN
           v \in [Forms -> Row] /\ v["canonical"] = w["raw"] /\ v["raw"] = NoRow
    BY NoRowIs DEF Renumbers, Forms
LEMMA RecountsIs ==
    ASSUME NEW w \in [Forms -> Row]
    PROVE  LET v == Recounts(w) IN
           /\ v \in [Forms -> Row] /\ v["raw"] = w["raw"]
           /\ v["canonical"].there = w["canonical"].there
           /\ v["canonical"].messages = w["canonical"].messages
           /\ v["canonical"].attached = w["canonical"].attached
           /\ v["canonical"].jobs = w["canonical"].jobs
           /\ v["canonical"].mark = w["canonical"].mark
           /\ v["canonical"].synced = Cardinality(w["canonical"].messages)
<1>1. Cardinality(w["canonical"].messages) \in 0..LastPost
    BY RowsAre, CountIs DEF Forms
<1> QED BY <1>1 DEF Recounts, Forms, Row

\* The statements in order.
LEMMA AppliedIs ==
    ASSUME NEW w
    PROVE  /\ Applied(w, 1) = IF Paired(w) THEN DeletesDuplicates(w) ELSE w
           /\ Applied(w, 2) = IF Paired(w) THEN MovesMessages(w) ELSE w
           /\ Applied(w, 3) = IF Paired(w) THEN MovesJobs(w) ELSE w
           /\ Applied(w, 4) = IF Paired(w) THEN JoinsCheckpoints(w) ELSE w
           /\ Applied(w, 5) = IF Paired(w) THEN DeletesCheckpoint(w) ELSE w
           /\ Applied(w, 6) = IF Paired(w) THEN MovesCheckpoint(w) ELSE w
           /\ Applied(w, 7) = IF Paired(w) THEN DeletesLegacy(w) ELSE w
           /\ Applied(w, 8) = IF w["raw"].there THEN Renumbers(w) ELSE w
           /\ Applied(w, 9) = IF w["canonical"].there THEN Recounts(w) ELSE w
    BY DEF Applied

LEMMA PairStep ==
    ASSUME OriginOK, NEW w \in [Forms -> Row], NEW k \in 1..PerMigration,
           Paired(origin), PairAfter(w, k - 1)
    PROVE  Applied(w, k) \in [Forms -> Row] /\ PairAfter(Applied(w, k), k)
<1>1. k \in {1, 2, 3, 4, 5, 6, 7, 8, 9}
    BY DEF PerMigration
<1>2. /\ Raw.mark \in Int /\ Raw.mark >= NoMark /\ Canonical.mark \in Int
      /\ Canonical.mark >= NoMark /\ NoMark = -1
    BY RowsAre DEF OriginOK, Raw, Canonical, Forms, NoMark
<1>3. /\ w["canonical"].there /\ (w["raw"].there <=> k - 1 < 7)
    BY DEF PairAfter
<1>4. Forms = {"raw", "canonical"}
    BY DEF Forms
<1>5. CASE k = 1
  <2>1. Applied(w, k) = DeletesDuplicates(w)
      BY <1>3, <1>5, AppliedIs DEF Paired
  <2> QED BY <2>1, <1>5, <1>2, DeletesDuplicatesIs DEF PairAfter
<1>6. CASE k = 2
  <2>1. Applied(w, k) = MovesMessages(w)
      BY <1>3, <1>6, AppliedIs DEF Paired
  <2> QED BY <2>1, <1>6, <1>2, <1>4, MovesMessagesIs DEF PairAfter, KeptParts
<1>7. CASE k = 3
  <2>1. Applied(w, k) = MovesJobs(w)
      BY <1>3, <1>7, AppliedIs DEF Paired
  <2> QED BY <2>1, <1>7, <1>2, <1>4, MovesJobsIs DEF PairAfter
<1>8. CASE k = 4
  <2>1. Applied(w, k) = JoinsCheckpoints(w)
      BY <1>3, <1>8, AppliedIs DEF Paired
  <2> QED BY <2>1, <1>8, <1>2, JoinsCheckpointsIs DEF PairAfter, Larger2
<1>9. CASE k = 5
  <2>1. Applied(w, k) = DeletesCheckpoint(w)
      BY <1>3, <1>9, AppliedIs DEF Paired
  <2> QED BY <2>1, <1>9, <1>2, DeletesCheckpointIs DEF PairAfter, Larger2
<1>10. CASE k = 6
  <2>1. Applied(w, k) = MovesCheckpoint(w)
      BY <1>3, <1>10, AppliedIs DEF Paired
  <2> QED BY <2>1, <1>10, <1>2, <1>4, MovesCheckpointIs DEF PairAfter, Larger2
<1>11. CASE k = 7
  <2>1. Applied(w, k) = DeletesLegacy(w)
      BY <1>3, <1>11, AppliedIs DEF Paired
  <2> QED BY <2>1, <1>11, <1>2, DeletesLegacyIs, NoRowIs DEF PairAfter
<1>12. CASE k = 8
  <2>1. Applied(w, k) = w
      BY <1>3, <1>12, AppliedIs
  <2> QED BY <2>1, <1>12 DEF PairAfter
<1>13. CASE k = 9
  <2>1. Applied(w, k) = Recounts(w)
      BY <1>3, <1>13, AppliedIs
  <2> QED BY <2>1, <1>13, RecountsIs DEF PairAfter
<1> QED BY <1>1, <1>5, <1>6, <1>7, <1>8, <1>9, <1>10, <1>11, <1>12, <1>13

LEMMA SingleStep ==
    ASSUME OriginOK, NEW w \in [Forms -> Row], NEW k \in 1..PerMigration,
           ~ Paired(origin), SingleAfter(w, k - 1)
    PROVE  Applied(w, k) \in [Forms -> Row] /\ SingleAfter(Applied(w, k), k)
<1>1. k \in {1, 2, 3, 4, 5, 6, 7, 8, 9}
    BY DEF PerMigration
<1>2. \A f \in Forms : origin[f].there \/ origin[f] = NoRow
    BY DEF OriginOK
<1>3. "raw" \in Forms /\ "canonical" \in Forms
    BY DEF Forms
<1>4. CASE k < 8
  <2>1. w = origin
      BY <1>4, <1>1 DEF SingleAfter
  <2>2. Applied(w, k) = w
      BY <2>1, <1>1, <1>4, AppliedIs
  <2> QED BY <2>1, <2>2, <1>4, <1>1 DEF SingleAfter
<1>5. CASE k = 8
  <2>1. w = origin
      BY <1>5 DEF SingleAfter
  <2>2. CASE Raw.there
    <3>1. Applied(w, k) = Renumbers(w)
        BY <2>1, <2>2, <1>5, AppliedIs DEF Raw
    <3> QED BY <3>1, <2>1, <2>2, <1>5, RenumbersIs DEF SingleAfter, Lone, Raw
  <2>3. CASE ~ Raw.there
    <3>1. Applied(w, k) = w /\ w["raw"] = NoRow
        BY <2>1, <2>3, <1>2, <1>3, <1>5, AppliedIs DEF Raw
    <3> QED BY <3>1, <2>1, <2>3, <1>5 DEF SingleAfter, Lone, Canonical
  <2> QED BY <2>2, <2>3
<1>6. CASE k = 9
  <2>1. w["raw"] = NoRow /\ w["canonical"] = Lone
      BY <1>6 DEF SingleAfter
  <2>2. CASE Lone.there
    <3>1. Applied(w, k) = Recounts(w)
        BY <2>1, <2>2, <1>6, AppliedIs
    <3> QED BY <3>1, <2>1, <1>6, RecountsIs DEF SingleAfter
  <2>3. CASE ~ Lone.there
    <3>1. Applied(w, k) = w
        BY <2>1, <2>3, <1>6, AppliedIs
    <3>2. Lone = NoRow
        BY <2>3, <1>2, <1>3 DEF Lone, Raw, Canonical
    <3>3. Cardinality({}) = 0
        BY FS_EmptySet
    <3> QED BY <3>1, <3>2, <3>3, <2>1, <1>6, NoRowIs DEF SingleAfter
  <2> QED BY <2>2, <2>3
<1> QED BY <1>1, <1>4, <1>5, <1>6

LEMMA UpgradedStep ==
    ASSUME OriginOK, NEW w, NEW k \in 1..PerMigration, Upgraded(w, k - 1)
    PROVE  Upgraded(Applied(w, k), k)
    BY PairStep, SingleStep DEF Upgraded

LEMMA NothingUpgraded == ASSUME OriginOK PROVE Upgraded(origin, 0)
<1>1. Paired(origin) => PairAfter(origin, 0)
    BY DEF Paired, PairAfter, Raw, Canonical
<1>2. ~ Paired(origin) => SingleAfter(origin, 0)
    BY DEF SingleAfter
<1> QED BY <1>1, <1>2 DEF Upgraded, OriginOK

LEMMA MergeInvInit == InitMerge => MergeInv
<1> SUFFICES ASSUME InitMerge PROVE MergeInv
    OBVIOUS
<1>1. PICK raw \in RowsOf("raw"), canonical \in RowsOf("canonical") :
        origin = [f \in Forms |-> IF f = "raw" THEN raw ELSE canonical]
    BY DEF InitMerge
<1>2. Covered(NoRow)
    BY MergeConstants DEF Covered, NoRow, NoMark, PostIds
<1>3. \A row_ \in {raw, canonical} : row_ \in Row /\ Covered(row_) /\ (row_.there \/ row_ = NoRow)
    BY <1>2, NoRowIs DEF RowsOf
<1>4. OriginOK
    BY <1>1, <1>3 DEF OriginOK, Forms
<1>5. statement = 1 /\ kills = 0 /\ rows = origin /\ work = origin /\ chatType \in {"GROUP", "CHANNEL"}
    BY DEF InitMerge
<1>6. MergeTypeOK
    BY <1>4, <1>5, MergeConstants DEF MergeTypeOK, OriginOK, Merged, Commit, PerMigration
<1>7. Statements = 0 /\ statement # Merged
    BY <1>5 DEF Statements, Merged, Commit, PerMigration
<1> QED BY <1>4, <1>5, <1>6, <1>7, NothingUpgraded DEF MergeInv

LEMMA Upgrade021Keeps == ASSUME MergeInv, Upgrade021 PROVE MergeInv'
<1> USE DEF PerMigration, Commit, Merged
<1>1. /\ statement \in 1..9 /\ statement' = statement + 1 /\ chatType' = chatType
      /\ origin' = origin /\ rows' = rows /\ kills' = kills /\ rows = origin
      /\ chatType \in {"GROUP", "CHANNEL"} /\ OriginOK /\ Upgraded(work, Statements)
    BY DEF MergeInv, MergeTypeOK, Upgrade021
<1>2. Upgraded(work', Statements')
  <2>1. CASE chatType = "GROUP"
    <3>1. work' = Applied(work, statement) /\ Statements = statement - 1 /\ Statements' = statement
        BY <1>1, <2>1 DEF Upgrade021, Statements
    <3> QED BY <3>1, <1>1, UpgradedStep
  <2>2. CASE chatType = "CHANNEL"
      BY <1>1, <2>2 DEF Upgrade021, Statements
  <2> QED BY <1>1, <2>1, <2>2
<1>3. Upgraded(work, Statements)'
    BY <1>1, <1>2 DEF Upgraded, PairAfter, SingleAfter, Lone, KeptParts, Raw, Canonical
<1>4. OriginOK'
    BY <1>1 DEF OriginOK
<1>5. MergeTypeOK'
    BY <1>1, <1>2 DEF MergeInv, MergeTypeOK, Upgraded
<1> QED BY <1>1, <1>3, <1>4, <1>5 DEF MergeInv

LEMMA Upgrade026Keeps == ASSUME MergeInv, Upgrade026 PROVE MergeInv'
<1> USE DEF PerMigration, Commit, Merged
<1>1. /\ statement \in 10..18 /\ statement' = statement + 1 /\ chatType' = chatType
      /\ origin' = origin /\ rows' = rows /\ kills' = kills /\ rows = origin
      /\ chatType \in {"GROUP", "CHANNEL"} /\ OriginOK /\ Upgraded(work, Statements)
    BY DEF MergeInv, MergeTypeOK, Upgrade026
<1>2. Upgraded(work', Statements')
  <2>1. CASE chatType = "CHANNEL"
    <3>1. /\ work' = Applied(work, statement - 9) /\ Statements = statement - 10
          /\ Statements' = statement - 9
        BY <1>1, <2>1 DEF Upgrade026, Statements
    <3>2. statement - 9 \in 1..9 /\ Statements = (statement - 9) - 1
        BY <1>1, <3>1
    <3> QED BY <3>1, <3>2, <1>1, UpgradedStep
  <2>2. CASE chatType = "GROUP"
      BY <1>1, <2>2 DEF Upgrade026, Statements
  <2> QED BY <1>1, <2>1, <2>2
<1>3. Upgraded(work, Statements)'
    BY <1>1, <1>2 DEF Upgraded, PairAfter, SingleAfter, Lone, KeptParts, Raw, Canonical
<1>4. OriginOK'
    BY <1>1 DEF OriginOK
<1>5. MergeTypeOK'
    BY <1>1, <1>2 DEF MergeInv, MergeTypeOK, Upgraded
<1> QED BY <1>1, <1>3, <1>4, <1>5 DEF MergeInv

LEMMA CommitsKeeps == ASSUME MergeInv, Commits PROVE MergeInv'
<1> USE DEF PerMigration, Commit, Merged
<1>1. /\ statement = 19 /\ statement' = 20 /\ rows' = work
      /\ UNCHANGED <<chatType, origin, work, kills>>
      /\ chatType \in {"GROUP", "CHANNEL"} /\ OriginOK /\ Upgraded(work, Statements)
    BY DEF MergeInv, MergeTypeOK, Commits
<1>2. Statements = 9 /\ Statements' = 9
    BY <1>1 DEF Statements
<1>3. Upgraded(work, Statements)'
    BY <1>1, <1>2 DEF Upgraded, PairAfter, SingleAfter, Lone, KeptParts, Raw, Canonical
<1>4. OriginOK'
    BY <1>1 DEF OriginOK
<1>5. MergeTypeOK'
    BY <1>1 DEF MergeInv, MergeTypeOK
<1> QED BY <1>1, <1>3, <1>4, <1>5 DEF MergeInv

LEMMA MigrationLostKeeps == ASSUME MergeInv, MigrationLost PROVE MergeInv'
<1> USE DEF PerMigration, Commit, Merged
<1>1. /\ statement # 20 /\ statement' = 1 /\ work' = rows /\ rows = origin
      /\ kills < MaxKills /\ kills' = kills + 1 /\ kills \in 0..MaxKills
      /\ UNCHANGED <<chatType, origin, rows>> /\ OriginOK
    BY DEF MergeInv, MergeTypeOK, MigrationLost
<1>2. Statements' = 0
    BY <1>1 DEF Statements
<1>3. Upgraded(origin, 0)
    BY <1>1, NothingUpgraded
<1>4. Upgraded(work, Statements)'
    BY <1>1, <1>2, <1>3 DEF Upgraded, PairAfter, SingleAfter, Lone, KeptParts, Raw, Canonical
<1>5. OriginOK'
    BY <1>1 DEF OriginOK
<1>6. kills' \in 0..MaxKills
    BY <1>1, MergeConstants
<1>7. MergeTypeOK'
    BY <1>1, <1>6 DEF MergeInv, MergeTypeOK
<1> QED BY <1>1, <1>4, <1>5, <1>7 DEF MergeInv

LEMMA MergeInvStep == MergeInv /\ [NextMerge]_mergeVars => MergeInv'
<1> SUFFICES ASSUME MergeInv, [NextMerge]_mergeVars PROVE MergeInv'
    OBVIOUS
<1>1. CASE UNCHANGED mergeVars
    BY <1>1 DEF mergeVars, MergeInv, MergeTypeOK, OriginOK, Upgraded, Statements, PairAfter,
       SingleAfter, Lone, KeptParts, Raw, Canonical
<1> QED BY <1>1, Upgrade021Keeps, Upgrade026Keeps, CommitsKeeps, MigrationLostKeeps DEF NextMerge

LEMMA MergeInvImplies == MergeInv => MergeKeepsAll
<1> SUFFICES ASSUME MergeInv PROVE MergeKeepsAll
    OBVIOUS
<1>1. CASE statement # Merged
    BY <1>1 DEF MergeInv, MergeKeepsAll
<1>2. CASE statement = Merged
  <2>1. rows = work /\ Upgraded(rows, 9) /\ OriginOK
      BY <1>2 DEF MergeInv, Statements, PerMigration
  <2>2. \A f \in Forms : origin[f].there \/ origin[f] = NoRow
      BY <2>1 DEF OriginOK
  <2>3. \A f \in Forms : /\ origin[f].messages \subseteq PostIds /\ origin[f].mark \in Int
                         /\ origin[f].mark >= NoMark
      BY <2>1, RowsAre DEF OriginOK
  <2>4. \A f \in Forms : \A n \in PostIds : n <= origin[f].mark => n \in origin[f].messages
      BY <2>1 DEF OriginOK, Covered
  <2>5. \A n \in PostIds : n \in Int
      BY MergeConstants DEF PostIds
  <2>6. rows["raw"] = NoRow
      BY <2>1 DEF Upgraded, PairAfter, SingleAfter
  <2>7. Forms = {"raw", "canonical"}
      BY DEF Forms
  <2>8. ASSUME \A field \in {"messages", "jobs"} : All(rows, field) = All(origin, field),
                rows["canonical"].there = (Raw.there \/ Canonical.there),
                rows["canonical"].attached = KeptParts,
                rows["canonical"].synced = Cardinality(rows["canonical"].messages),
                {origin[f].mark : f \in Forms} = {Raw.mark, Canonical.mark},
                rows["canonical"].mark \in {Raw.mark, Canonical.mark},
                Raw.mark <= rows["canonical"].mark, Canonical.mark <= rows["canonical"].mark,
                Covered(rows["canonical"])
         PROVE  MergeKeepsAll
    <3>1. ~ rows["raw"].there
        BY <2>6, NoRowIs
    <3>2. \A k \in {origin[f].mark : f \in Forms} : k <= rows["canonical"].mark
        BY <2>8
    <3> QED BY <1>2, <2>8, <3>1, <3>2 DEF MergeKeepsAll, KeptParts, Raw, Canonical
  <2>9. CASE Paired(origin)
    <3>1. /\ rows["canonical"].there
          /\ rows["canonical"].messages = Canonical.messages \cup Raw.messages
          /\ rows["canonical"].attached = KeptParts
          /\ rows["canonical"].jobs = Canonical.jobs \cup Raw.jobs
          /\ rows["canonical"].mark = Larger2(Canonical.mark, Raw.mark)
          /\ rows["canonical"].synced = Cardinality(rows["canonical"].messages)
        BY <2>1, <2>9 DEF Upgraded, PairAfter
    <3>2. \A field \in {"messages", "jobs"} : All(rows, field) = All(origin, field)
        BY <3>1, <2>6, NoRowIs DEF All, Raw, Canonical
    <3>3. /\ rows["canonical"].mark \in {Raw.mark, Canonical.mark}
          /\ Raw.mark <= rows["canonical"].mark /\ Canonical.mark <= rows["canonical"].mark
        BY <3>1, <2>3, <2>7 DEF Larger2, Raw, Canonical
    <3>4. Covered(rows["canonical"])
        BY <3>1, <2>4, <2>7 DEF Covered, Larger2, Raw, Canonical
    <3>5. {origin[f].mark : f \in Forms} = {Raw.mark, Canonical.mark}
        BY <2>7 DEF Raw, Canonical
    <3>6. rows["canonical"].there = (Raw.there \/ Canonical.there)
        BY <3>1, <2>9, RowsAre, <2>1, <2>7 DEF OriginOK, Upgraded, Paired, Raw, Canonical
    <3> QED BY <3>1, <3>2, <3>3, <3>4, <3>5, <3>6, <2>8
  <2>10. CASE ~ Paired(origin)
    <3>1. /\ rows["canonical"].there = Lone.there
          /\ rows["canonical"].messages = Lone.messages
          /\ rows["canonical"].attached = Lone.attached
          /\ rows["canonical"].jobs = Lone.jobs /\ rows["canonical"].mark = Lone.mark
          /\ rows["canonical"].synced = Cardinality(rows["canonical"].messages)
        BY <2>1, <2>10 DEF Upgraded, SingleAfter
    <3>2. (Lone = Raw /\ Canonical = NoRow) \/ (Lone = Canonical /\ Raw = NoRow)
        BY <2>2, <2>7, <2>10 DEF Lone, Raw, Canonical, Paired
    <3>3. \A field \in {"messages", "jobs"} : All(rows, field) = All(origin, field)
        BY <3>1, <3>2, <2>6, NoRowIs DEF All, Raw, Canonical
    <3>4. {origin[f].mark : f \in Forms} = {Raw.mark, Canonical.mark}
        BY <2>7 DEF Raw, Canonical
    <3>5. /\ rows["canonical"].mark \in {Raw.mark, Canonical.mark}
          /\ Raw.mark <= rows["canonical"].mark /\ Canonical.mark <= rows["canonical"].mark
        BY <3>1, <3>2, <2>3, <2>7, NoRowIs DEF Raw, Canonical
    <3>6. Covered(rows["canonical"])
        BY <3>1, <3>2, <2>4, <2>7 DEF Covered, Raw, Canonical
    <3>7. rows["canonical"].there = (Raw.there \/ Canonical.there)
        BY <3>1, <3>2, NoRowIs, RowsAre, <2>1, <2>7 DEF OriginOK, Raw, Canonical
    <3>8. rows["canonical"].attached = KeptParts
        BY <3>1, <3>2, NoRowIs DEF KeptParts
    <3> QED BY <3>1, <3>3, <3>4, <3>5, <3>6, <3>7, <3>8, <2>8
  <2> QED BY <2>9, <2>10
<1> QED BY <1>1, <1>2

\* For any number of messages, whatever the two rows held and however often the migration
\* was lost: every message and job is kept, with what is attached to it, except to a legacy
\* duplicate; nothing is half merged, and one row is left.
THEOREM MergesLoseNothing == MergeSpec => []MergeKeepsAll
<1> QED BY MergeInvInit, MergeInvStep, MergeInvImplies, PTL DEF MergeSpec

(***************************************************************************)
(* Listing.                                                                *)
(***************************************************************************)

\* The order of the rows.
ComesBefore(order, o, r) == Precedes(order, Place(o), Place(r))
Rank(order, S, r) == Cardinality(Behind(order, S, r))

LEMMA OrderIs ==
    ASSUME NEW order \in Orders, NEW o, NEW r
    PROVE  ComesBefore(order, o, r) <=>
             IF order = "newest" THEN key[r] < key[o] \/ (key[r] = key[o] /\ r < o)
             ELSE key[o] < key[r] \/ (key[o] = key[r] /\ o < r)
    BY DEF ComesBefore, Precedes, Place

LEMMA OrderIsTotal ==
    ASSUME ListingTypeOK, NEW order \in Orders, NEW o \in Rows, NEW r \in Rows, NEW s \in Rows
    PROVE  /\ ~ ComesBefore(order, r, r)
           /\ ComesBefore(order, o, r) => ~ ComesBefore(order, r, o)
           /\ o # r => ComesBefore(order, o, r) \/ ComesBefore(order, r, o)
           /\ ComesBefore(order, o, r) /\ ComesBefore(order, r, s) => ComesBefore(order, o, s)
<1>1. key[o] \in Nat /\ key[r] \in Nat /\ key[s] \in Nat /\ o \in Nat /\ r \in Nat /\ s \in Nat
    BY ListingConstants DEF ListingTypeOK, Absent
<1> QED BY <1>1, OrderIs

LEMMA BehindIs ==
    ASSUME ListingTypeOK, NEW order \in Orders, NEW S \in SUBSET Rows, NEW r \in Rows
    PROVE  /\ Behind(order, S, r) = {o \in S : ComesBefore(order, o, r)}
           /\ Behind(order, S, r) \subseteq S \ {r}
           /\ IsFiniteSet(S) /\ IsFiniteSet(Behind(order, S, r))
           /\ Rank(order, S, r) \in Nat /\ Cardinality(S) \in Nat
           /\ r \in S => Rank(order, S, r) < Cardinality(S)
<1>1. Behind(order, S, r) = {o \in S : ComesBefore(order, o, r)}
    BY DEF Behind, ComesBefore
<1>2. Behind(order, S, r) \subseteq S \ {r}
    BY <1>1, OrderIsTotal
<1>3. IsFiniteSet(S) /\ Cardinality(S) \in Nat
    BY ListingConstants, FS_Subset, FS_CardinalityType
<1>4. IsFiniteSet(S \ {r}) /\ (r \in S => Cardinality(S \ {r}) = Cardinality(S) - 1)
    BY <1>3, FS_RemoveElement
<1>5. /\ IsFiniteSet(Behind(order, S, r))
      /\ Cardinality(Behind(order, S, r)) <= Cardinality(S \ {r})
    BY <1>2, <1>4, FS_Subset
<1>6. Rank(order, S, r) \in Nat
    BY <1>5, FS_CardinalityType DEF Rank
<1> QED BY <1>1, <1>2, <1>3, <1>4, <1>5, <1>6 DEF Rank

\* The rank grows along the order.
LEMMA RankGrows ==
    ASSUME ListingTypeOK, NEW order \in Orders, NEW S \in SUBSET Rows, NEW o \in S, NEW r \in S,
           ComesBefore(order, o, r)
    PROVE  Rank(order, S, o) < Rank(order, S, r)
<1>1. ASSUME NEW e \in Behind(order, S, o) PROVE e \in Behind(order, S, r)
  <2>1. e \in S /\ ComesBefore(order, e, o)
      BY DEF Behind, ComesBefore
  <2>2. e \in Rows /\ o \in Rows /\ r \in Rows
      BY <2>1
  <2>3. ComesBefore(order, e, r)
      BY <2>1, <2>2, OrderIsTotal
  <2> QED BY <2>1, <2>3 DEF Behind, ComesBefore
<1>2. o \in Behind(order, S, r) /\ o \notin Behind(order, S, o)
    BY BehindIs
<1>3. /\ Cardinality(Behind(order, S, o)) <= Cardinality(Behind(order, S, r))
      /\ Cardinality(Behind(order, S, r)) # Cardinality(Behind(order, S, o))
    BY <1>1, <1>2, BehindIs, FS_Subset
<1> QED BY <1>3, BehindIs DEF Rank

LEMMA LeadingIs ==
    ASSUME NEW order, NEW S, NEW n
    PROVE  Leading(order, S, n) = {r \in S : Rank(order, S, r) < n}
    BY DEF Leading, Rank

\* A shown of some rows has a last one, behind which come exactly those left out.
LEMMA PageHasLast ==
    ASSUME ListingTypeOK, NEW order \in Orders, NEW S \in SUBSET Rows, Cardinality(S) > PageLimit
    PROVE  LET shown == Leading(order, S, PageLimit)
               last == CHOOSE r \in shown : \A o \in shown : ~ Precedes(order, Place(r), Place(o))
           IN  last \in S /\ \A r \in S : r \in shown <=> ~ ComesBefore(order, last, r)
<1> DEFINE shown == Leading(order, S, PageLimit)
           last == CHOOSE r \in shown : \A o \in shown : ~ Precedes(order, Place(r), Place(o))
<1>1. shown = {r \in S : Rank(order, S, r) < PageLimit}
    BY LeadingIs
<1>2. \A r \in S : Rank(order, S, r) \in Nat
    BY BehindIs
<1>3. PageLimit \in Nat /\ PageLimit > 0
    BY ListingConstants
<1> HIDE DEF shown
<1>4. \E r \in shown : TRUE
  <2>1. S # {}
    <3>1. Cardinality({}) = 0
        BY FS_EmptySet
    <3> QED BY <3>1, <1>3
  <2> DEFINE ranks == {Rank(order, S, r) : r \in S}
  <2>2. ranks \subseteq Nat /\ ranks # {}
      BY <1>2, <2>1
  <2>3. PICK k \in ranks : \A j \in ranks : k <= j
      BY <2>2, Least
  <2>4. PICK r \in S : k = Rank(order, S, r)
      BY <2>3
  <2>5. ASSUME NEW o \in Behind(order, S, r) PROVE FALSE
    <3>1. o \in S /\ ComesBefore(order, o, r)
        BY <2>4, <2>5, BehindIs
    <3>2. Rank(order, S, o) < Rank(order, S, r)
        BY <2>4, <3>1, RankGrows
    <3> QED BY <1>2, <2>3, <2>4, <3>1, <3>2
  <2>6. Behind(order, S, r) = {}
      BY <2>5
  <2>7. Rank(order, S, r) = 0
      BY <2>6, FS_EmptySet DEF Rank
  <2> QED BY <1>1, <1>3, <2>4, <2>7
<1>5. \E r \in shown : \A o \in shown : ~ ComesBefore(order, r, o)
  <2> DEFINE rests == {PageLimit - Rank(order, S, r) : r \in shown}
  <2>2. rests \subseteq Nat /\ rests # {}
    <3>1. \A r \in shown : PageLimit - Rank(order, S, r) \in Nat
        BY <1>1, <1>2, <1>3
    <3> QED BY <3>1, <1>4
  <2>3. PICK k \in rests : \A j \in rests : k <= j
      BY <2>2, Least
  <2>4. PICK r \in shown : k = PageLimit - Rank(order, S, r)
      BY <2>3
  <2>5. ASSUME NEW o \in shown, ComesBefore(order, r, o) PROVE FALSE
    <3>1. Rank(order, S, r) < Rank(order, S, o) /\ o \in S /\ r \in S
        BY <1>1, <2>4, <2>5, RankGrows
    <3>2. PageLimit - Rank(order, S, o) < PageLimit - Rank(order, S, r)
        BY <1>2, <1>3, <3>1
    <3>3. PageLimit - Rank(order, S, o) \in rests
        BY <2>5
    <3> QED BY <2>2, <2>3, <2>4, <3>2, <3>3
  <2> QED BY <2>4, <2>5
<1>6. last \in shown /\ \A o \in shown : ~ ComesBefore(order, last, o)
    BY <1>5 DEF ComesBefore
<1> HIDE DEF last
<1>7. last \in S
    BY <1>1, <1>6
<1>8. ASSUME NEW r \in S, ~ ComesBefore(order, last, r) PROVE r \in shown
  <2>1. CASE r = last
      BY <1>6, <2>1
  <2>2. CASE ComesBefore(order, r, last)
    <3>1. Rank(order, S, r) < Rank(order, S, last)
        BY <1>7, <2>2, RankGrows
    <3> QED BY <1>1, <1>2, <1>3, <1>6, <1>7, <3>1
  <2> QED BY <1>7, <1>8, <2>1, <2>2, OrderIsTotal
<1> QED BY <1>6, <1>7, <1>8 DEF shown, last

\* Each place of the order is taken by one row.
LEMMA LeadingSize ==
    ASSUME ListingTypeOK, NEW order \in Orders, NEW S \in SUBSET Rows, NEW n \in Nat,
           n <= Cardinality(S)
    PROVE  Cardinality(Leading(order, S, n)) = n
<1> DEFINE all == Cardinality(S)
           f == [r \in S |-> Rank(order, S, r)]
           L == Leading(order, S, n)
           g == [r \in L |-> Rank(order, S, r)]
<1>1. all \in Nat /\ IsFiniteSet(S)
    BY ListingConstants, FS_Subset, FS_CardinalityType
<1>2. \A r \in S : Rank(order, S, r) \in 0..(all - 1)
    BY <1>1, BehindIs
<1>3. ASSUME NEW r \in S, NEW o \in S, Rank(order, S, r) = Rank(order, S, o) PROVE r = o
  <2>1. Rank(order, S, r) \in Nat /\ Rank(order, S, o) \in Nat
      BY BehindIs
  <2>2. ~ ComesBefore(order, r, o) /\ ~ ComesBefore(order, o, r)
      BY <1>3, <2>1, RankGrows
  <2> QED BY <2>2, OrderIsTotal
<1>4. f \in Injection(S, 0..(all - 1))
    BY <1>2, <1>3 DEF Injection, IsInjective
<1>5. IsFiniteSet(0..(all - 1)) /\ Cardinality(0..(all - 1)) = all
  <2> HIDE DEF all
  <2>1. all - 1 \in Int /\ 0 \in Int
      BY <1>1
  <2>2. /\ IsFiniteSet(0..(all - 1))
        /\ Cardinality(0..(all - 1)) = IF 0 > all - 1 THEN 0 ELSE (all - 1) - 0 + 1
      BY <2>1, FS_Interval
  <2> QED BY <1>1, <2>2
<1>6. f \in Surjection(S, 0..(all - 1))
    BY <1>1, <1>4, <1>5, FS_Injection
<1>7. L = {r \in S : Rank(order, S, r) < n}
    BY LeadingIs
<1>8. \A i \in 0..(n - 1) : \E r \in L : Rank(order, S, r) = i
  <2> SUFFICES ASSUME NEW i \in 0..(n - 1) PROVE \E r \in L : Rank(order, S, r) = i
      OBVIOUS
  <2>1. i \in 0..(all - 1) /\ i < n
      BY <1>1
  <2>2. PICK r \in S : f[r] = i
      BY <1>6, <2>1 DEF Surjection
  <2> QED BY <1>7, <2>1, <2>2
<1>9. \A r \in L : Rank(order, S, r) \in 0..(n - 1)
    BY <1>2, <1>7
<1> HIDE DEF L
<1>10. g \in Injection(L, 0..(n - 1)) /\ g \in Surjection(L, 0..(n - 1))
    BY <1>3, <1>7, <1>8, <1>9 DEF Injection, IsInjective, Surjection
<1>11. ExistsBijection(L, 0..(n - 1))
    BY <1>10 DEF ExistsBijection, Bijection
<1>12. IsFiniteSet(L)
    BY <1>1, <1>7, FS_Subset
<1>13. Cardinality(0..(n - 1)) = Cardinality(L)
    BY <1>11, <1>12, FS_Bijection
<1>14. Cardinality(0..(n - 1)) = n
    BY FS_Interval
<1> QED BY <1>13, <1>14 DEF L

\* A page by offset takes the next places.
LEMMA OffsetTakesNext ==
    ASSUME ListingTypeOK, NEW order \in Orders, NEW S \in SUBSET Rows, NEW n \in Nat
    PROVE  LET rest == S \ Leading(order, S, n) IN
           /\ n <= Cardinality(S) => /\ Cardinality(rest) = Cardinality(S) - n
                                     /\ \A r \in rest : Rank(order, rest, r) = Rank(order, S, r) - n
           /\ Cardinality(S) <= n => rest = {}
<1> DEFINE L == Leading(order, S, n)
           rest == S \ L
<1>1. L = {r \in S : Rank(order, S, r) < n}
    BY LeadingIs
<1>2. IsFiniteSet(S) /\ Cardinality(S) \in Nat
    BY ListingConstants, FS_Subset, FS_CardinalityType
<1>3. \A r \in S : Rank(order, S, r) \in Nat /\ Rank(order, S, r) < Cardinality(S)
    BY BehindIs
<1>4. Cardinality(S) <= n => rest = {}
    BY <1>1, <1>2, <1>3
<1>5. ASSUME n <= Cardinality(S)
      PROVE  /\ Cardinality(rest) = Cardinality(S) - n
             /\ \A r \in rest : Rank(order, rest, r) = Rank(order, S, r) - n
  <2>1. Cardinality(L) = n
      BY <1>5, LeadingSize
  <2> HIDE DEF L
  <2>2. S \cap L = L
      BY <1>1
  <2>3. Cardinality(rest) = Cardinality(S) - n
      BY <1>2, <2>1, <2>2, FS_Difference
  <2>4. ASSUME NEW r \in rest PROVE Rank(order, rest, r) = Rank(order, S, r) - n
    <3> DEFINE B == Behind(order, S, r)
    <3>1. r \in S /\ ~ (Rank(order, S, r) < n) /\ IsFiniteSet(B)
        BY <1>1, BehindIs
    <3>2. ASSUME NEW o \in L PROVE o \in B
      <4>1. o \in S /\ Rank(order, S, o) < n /\ o # r
          BY <1>1, <3>1
      <4>2. ~ ComesBefore(order, r, o)
          BY <1>3, <3>1, <4>1, RankGrows
      <4> QED BY <3>1, <4>1, <4>2, OrderIsTotal, BehindIs
    <3>3. Behind(order, rest, r) = B \ L
      <4>1. B = {o \in S : ComesBefore(order, o, r)}
          BY <3>1, BehindIs
      <4>2. rest \in SUBSET Rows /\ r \in Rows
          BY <3>1
      <4>3. Behind(order, rest, r) = {o \in rest : ComesBefore(order, o, r)}
          BY <4>2, BehindIs
      <4> QED BY <4>1, <4>3
    <3>4. B \cap L = L
        BY <3>2
    <3> HIDE DEF B
    <3>5. Cardinality(B \ L) = Cardinality(B) - n
        BY <2>1, <3>1, <3>4, FS_Difference
    <3> QED BY <3>3, <3>5 DEF Rank, B
  <2> QED BY <2>3, <2>4
<1> QED BY <1>4, <1>5

\* What a walk has given so far, if it was not turned: by cursor, the rows that do not
\* come after it; by offset, as many as it says.
Given(r) == walk.cursor # Start /\ ~ After(walk.order, walk.cursor, r)
NotBegun == walk.at = "off" => /\ steady = {} /\ changes = 0 /\ \A r \in Rows : returned[r] = 0
                               /\ walk.cursor = Start /\ walk.offset = 0 /\ ~ walk.turned
CursorGives == walk.at = "on" /\ walk.by = "cursor" /\ ~ walk.turned =>
                 \A r \in steady : returned[r] = IF Given(r) THEN 1 ELSE 0
OffsetGives == walk.at = "on" /\ walk.by = "offset" /\ ~ walk.turned /\ changes = 0 =>
                 /\ walk.offset <= Cardinality(Listed)
                 /\ steady \subseteq Listed
                 /\ \A r \in Listed : returned[r] = IF Rank(walk.order, Listed, r) < walk.offset
                                                    THEN 1 ELSE 0
AllGiven == walk.at = "ended" /\ ~ walk.turned
            /\ (walk.by = "cursor" \/ (walk.by = "offset" /\ changes = 0)) =>
              \A r \in steady : returned[r] = 1

\* A walk that refuses to be turned is not.
Straight == /\ Offers(walk.of, walk.order)
            /\ walk.of = "inbox" => ~ walk.turned /\ walk.by = "cursor"

ListingInv == /\ ListingTypeOK /\ steady \subseteq Listed
              /\ NotBegun /\ CursorGives /\ OffsetGives /\ AllGiven /\ Straight

WalkState == [at : {"off", "on", "ended"}, of : Listings, order : Orders, by : Ways,
              turned : BOOLEAN, cursor : (0..MaxKey) \X (Rows \cup {0}),
              offset : 0..(2 * Cardinality(Rows))]

LEMMA RowsCount == IsFiniteSet(Rows) /\ Cardinality(Rows) \in Nat
                   /\ \A S \in SUBSET Rows : Cardinality(S) \in Nat /\ Cardinality(S) <= Cardinality(Rows)
BY ListingConstants, FS_CardinalityType, FS_Subset

LEMMA AfterIs ==
    ASSUME NEW order \in Orders, NEW c, NEW r
    PROVE  After(order, c, r) <=>
             IF order = "newest" THEN key[r] < c[1] \/ (key[r] = c[1] /\ r < c[2])
             ELSE c[1] < key[r] \/ (c[1] = key[r] /\ c[2] < r)
BY DEF After, Precedes, Place

LEMMA ListingInvInit == InitListing => ListingInv
<1> SUFFICES ASSUME InitListing PROVE ListingInv
    OBVIOUS
<1>1. 0 \in 0..MaxKey /\ 0 \in 0..(2 * Cardinality(Rows)) /\ Absent \in 0..Absent /\ 0 \in 0..MaxChanges
    BY ListingConstants, RowsCount DEF Absent
<1>2. Start \in (0..MaxKey) \X (Rows \cup {0})
    BY <1>1 DEF Start
<1>3. ListingTypeOK
    BY <1>1, <1>2 DEF InitListing, ListingTypeOK, Orders, Listings, Ways
<1> QED BY <1>3 DEF InitListing, ListingInv, NotBegun, CursorGives, OffsetGives, AllGiven, Listed,
                    Straight, Offers

LEMMA RowChangesKeeps == ASSUME ListingInv, NEW r \in Rows, RowChanges(r) PROVE ListingInv'
<1>1. /\ walk.at = "on" /\ changes < MaxChanges /\ steady' = steady \ {r} /\ changes' = changes + 1
      /\ walk' = walk /\ returned' = returned
    BY DEF RowChanges
<1>2. PICK k \in 0..Absent : key' = [key EXCEPT ![r] = k]
    BY DEF RowChanges
<1>3. changes' \in 1..MaxChanges
    BY <1>1, ListingConstants DEF ListingInv, ListingTypeOK
<1>4. ListingTypeOK'
    BY <1>1, <1>2, <1>3 DEF ListingInv, ListingTypeOK
<1>5. \A o \in steady' : o \in steady /\ key'[o] = key[o] /\ o \in Rows
    BY <1>1, <1>2 DEF ListingInv, ListingTypeOK
<1>6. steady' \subseteq Listed'
    BY <1>5 DEF ListingInv, Listed
<1>7. walk.order \in Orders
    BY DEF ListingInv, ListingTypeOK
<1>8. \A o \in steady' : Given(o)' <=> Given(o)
  <2> SUFFICES ASSUME NEW o \in steady' PROVE Given(o)' <=> Given(o)
      OBVIOUS
  <2>1. After(walk.order, walk.cursor, o)' <=> After(walk.order, walk.cursor, o)
      BY <1>1, <1>5, Zenon DEF After, Place
  <2> QED BY <1>1, <2>1 DEF Given
<1>9. CursorGives'
    BY <1>1, <1>5, <1>8 DEF ListingInv, CursorGives
<1> QED BY <1>1, <1>3, <1>4, <1>6, <1>9 DEF ListingInv, NotBegun, OffsetGives, AllGiven, Straight

LEMMA WalkBeginsKeeps ==
    ASSUME ListingInv, NEW of \in Listings, NEW order \in Orders, NEW by \in Ways,
           WalkBegins(of, order, by)
    PROVE  ListingInv'
<1>1. PICK from \in {Start} \cup {<<key'[r], r>> : r \in {o \in Rows : key'[o] # Absent}} :
        /\ from # Start <=> of = "messages" /\ order = "oldest"
        /\ walk' = [walk EXCEPT !.at = "on", !.of = of, !.order = order, !.by = by, !.cursor = from]
        /\ steady' = {r \in Rows : /\ key'[r] # Absent
                                   /\ from = Start \/ Precedes(order, from, <<key'[r], r>>)}
    BY Zenon DEF WalkBegins
<1>2. /\ walk.at = "off" /\ key' \in [Rows -> 0..Absent] /\ UNCHANGED <<returned, changes>>
      /\ Offers(of, order) /\ (by = "rank" <=> of = "search")
      /\ by = "offset" => of \in {"chats", "messages"} /\ order = "newest"
    BY DEF WalkBegins
<1>3. walk \in WalkState
    BY DEF ListingInv, ListingTypeOK, WalkState
<1>4. from \in (0..MaxKey) \X (Rows \cup {0})
  <2>1. CASE from = Start
      BY <2>1, ListingConstants DEF Start
  <2>2. CASE from # Start
    <3>1. PICK o \in Rows : key'[o] # Absent /\ from = <<key'[o], o>>
        BY <1>1, <2>2
    <3>2. key'[o] \in 0..MaxKey
        BY <1>2, <3>1, ListingConstants DEF Absent
    <3> QED BY <3>1, <3>2
  <2> QED BY <2>1, <2>2
<1>5. /\ walk' \in WalkState /\ walk'.at = "on" /\ walk'.cursor = from /\ walk'.offset = walk.offset
      /\ walk'.of = of /\ walk'.order = order /\ walk'.by = by /\ walk'.turned = walk.turned
    BY <1>1, <1>3, <1>4 DEF WalkState
<1>6. ListingTypeOK'
    BY <1>1, <1>2, <1>5 DEF ListingInv, ListingTypeOK, WalkState
<1>7. walk.offset = 0 /\ ~ walk.turned /\ \A r \in Rows : returned[r] = 0
    BY <1>2 DEF ListingInv, NotBegun
<1>8. steady' \subseteq Listed' /\ Listed' \in SUBSET Rows
    BY <1>1 DEF Listed
<1>9. CursorGives'
  <2>1. ASSUME NEW r \in steady' PROVE ~ Given(r)'
    <3>1. from = Start \/ Precedes(order, from, <<key'[r], r>>)
        BY <1>1
    <3>2. CASE from = Start
        BY <1>5, <3>2 DEF Given
    <3>3. CASE Precedes(order, from, <<key'[r], r>>)
      <4>1. After(walk.order, walk.cursor, r)'
          BY <1>5, <3>3 DEF After, Place
      <4> QED BY <4>1 DEF Given
    <3> QED BY <3>1, <3>2, <3>3
  <2> QED BY <1>1, <1>2, <1>7, <2>1 DEF CursorGives
<1>10. OffsetGives'
  <2>1. Cardinality(Listed') \in Nat /\ walk'.order \in Orders
      BY <1>5, <1>8, RowsCount DEF WalkState
  <2>2. \A r \in Listed' : Rank(walk.order, Listed, r)' \in Nat
    <3>1. \A r : Behind(walk.order, Listed, r)' \in SUBSET Rows
        BY <1>8 DEF Behind
    <3> QED BY <3>1, RowsCount DEF Rank
  <2> QED BY <1>2, <1>5, <1>7, <1>8, <2>1, <2>2 DEF OffsetGives
<1>11. Straight'
  <2>1. of = "inbox" => by = "cursor"
      BY <1>2 DEF Ways
  <2> QED BY <1>2, <1>5, <1>7, <2>1 DEF Straight, Offers
<1> QED BY <1>5, <1>6, <1>8, <1>9, <1>10, <1>11 DEF ListingInv, NotBegun, AllGiven

LEMMA CursorPageKeeps ==
    ASSUME ListingInv, NEW order \in Orders, NEW same \in BOOLEAN, CursorPage(order, same)
    PROVE  ListingInv'
<1>0. PICK found \in Found(same) :
        LET rest == {r \in found : walk.cursor = Start \/ After(order, walk.cursor, r)}
            shown == Leading(order, rest, PageLimit)
            last == CHOOSE r \in shown : \A o \in shown : ~ Precedes(order, Place(r), Place(o))
        IN  /\ returned' = [r \in Rows |-> returned[r] + (IF r \in shown THEN 1 ELSE 0)]
            /\ walk' = IF More(rest)
                       THEN [walk EXCEPT !.cursor = Place(last), !.turned = Turned(order, same)]
                       ELSE [walk EXCEPT !.at = "ended", !.turned = Turned(order, same)]
    BY Zenon DEF CursorPage
<1>f. found \in SUBSET Listed /\ (same => found = Listed)
    BY DEF Found
<1> DEFINE straight == ~ Turned(order, same)
<1>s. Turned(order, same) \in BOOLEAN
      /\ (straight => ~ walk.turned /\ order = walk.order /\ found = Listed)
    BY <1>f DEF Turned, ListingInv, ListingTypeOK
<1> DEFINE rest == {r \in found : walk.cursor = Start \/ After(order, walk.cursor, r)}
           shown == Leading(order, rest, PageLimit)
           last == CHOOSE r \in shown : \A o \in shown : ~ Precedes(order, Place(r), Place(o))
<1>1. /\ walk.at = "on" /\ walk.by = "cursor"
      /\ returned' = [r \in Rows |-> returned[r] + (IF r \in shown THEN 1 ELSE 0)]
      /\ walk' = IF More(rest) THEN [walk EXCEPT !.cursor = Place(last), !.turned = Turned(order, same)]
                 ELSE [walk EXCEPT !.at = "ended", !.turned = Turned(order, same)]
      /\ UNCHANGED <<key, steady, changes>>
    BY <1>0 DEF CursorPage
<1>2. ListingTypeOK /\ walk \in WalkState /\ rest \in SUBSET Rows /\ steady \subseteq Listed
    BY <1>f DEF ListingInv, ListingTypeOK, WalkState, Listed
<1>3. straight => \A r \in Listed : r \in rest <=> ~ Given(r)
    BY <1>s DEF Given
<1>4. \A r \in rest : r \in Listed /\ (walk.cursor = Start \/ After(order, walk.cursor, r))
    BY <1>f
<1>i. Straight' <=> Offers(walk'.of, walk'.order)
                    /\ (walk'.of = "inbox" => ~ walk'.turned /\ walk'.by = "cursor")
    BY DEF Straight
<1>n. walk.of = "inbox" => straight
    BY DEF CursorPage, Accepts, Turned, ListingInv, Straight, Offers
<1> HIDE DEF rest, straight
<1>5. shown \subseteq rest
    BY LeadingIs
<1>6. straight => \A r \in steady : returned[r] = IF r \in rest THEN 0 ELSE 1
    BY <1>1, <1>2, <1>3, <1>s DEF ListingInv, CursorGives
<1>7. straight => \A r \in steady : returned'[r] = IF r \in rest /\ r \notin shown THEN 0 ELSE 1
  <2>1. \A r \in steady : returned'[r] = returned[r] + (IF r \in shown THEN 1 ELSE 0)
      BY <1>1, <1>2 DEF ListingTypeOK
  <2> QED BY <1>5, <1>6, <2>1
<1>8. returned' \in [Rows -> Nat] /\ steady' = steady /\ Listed' = Listed
    BY <1>1, <1>2 DEF ListingTypeOK, Listed
<1>9. CASE ~ More(rest)
  <2>1. walk' = [walk EXCEPT !.at = "ended", !.turned = Turned(order, same)]
      BY <1>1, <1>9
  <2>2. walk' \in WalkState /\ walk'.at = "ended" /\ walk'.turned = ~ straight
        /\ walk'.of = walk.of /\ walk'.order = walk.order /\ walk'.by = "cursor"
      BY <1>1, <1>2, <1>s, <2>1 DEF WalkState, straight
  <2>3. \A r \in rest : r \in shown
    <3>1. \A r \in rest : Rank(order, rest, r) < Cardinality(rest)
                          /\ Rank(order, rest, r) \in Nat /\ Cardinality(rest) \in Nat
        BY <1>2, BehindIs
    <3>2. Cardinality(rest) <= PageLimit
        BY <1>2, <1>9, RowsCount, ListingConstants DEF More
    <3> QED BY <3>1, <3>2, LeadingIs, ListingConstants
  <2>4. straight => \A r \in steady' : returned'[r] = 1
      BY <1>7, <1>8, <2>3
  <2>5. ListingTypeOK'
      BY <1>1, <1>2, <1>8, <2>2 DEF ListingTypeOK, WalkState
  <2>6. Straight'
      BY <1>n, <1>i, <2>2 DEF ListingInv, Straight
  <2> QED BY <1>2, <1>8, <2>2, <2>4, <2>5, <2>6
          DEF ListingInv, NotBegun, CursorGives, OffsetGives, AllGiven
<1>10. CASE More(rest)
  <2>1. walk' = [walk EXCEPT !.cursor = Place(last), !.turned = Turned(order, same)]
      BY <1>1, <1>10
  <2>2. last \in rest /\ \A r \in rest : r \in shown <=> ~ ComesBefore(order, last, r)
      BY <1>2, <1>10, PageHasLast DEF More
  <2> HIDE DEF last
  <2>3. key[last] \in 0..MaxKey /\ last \in Rows /\ last # 0
      BY <1>2, <1>4, <2>2, ListingConstants DEF Listed, ListingTypeOK, Absent
  <2>4. Place(last) \in (0..MaxKey) \X (Rows \cup {0}) /\ Place(last) # Start
      BY <2>3 DEF Place, Start
  <2>5. walk' \in WalkState /\ walk'.at = "on" /\ walk'.by = "cursor" /\ walk'.order = walk.order
        /\ walk'.cursor = Place(last) /\ walk'.turned = ~ straight /\ walk'.of = walk.of
      BY <1>1, <1>2, <1>s, <2>1, <2>4 DEF WalkState, straight
  <2>6. straight => \A r \in steady : Given(r)' <=> ~ ComesBefore(order, last, r)
    <3>0. straight => walk'.order = order
        BY <1>s, <2>5
    <3>1. straight => \A r : After(walk.order, walk.cursor, r)' <=> ComesBefore(order, last, r)
        BY <1>1, <2>5, <3>0, Zenon DEF After, ComesBefore, Place
    <3> QED BY <2>4, <2>5, <3>1 DEF Given
  <2>7. ASSUME straight, NEW r \in steady, r \notin rest PROVE ~ ComesBefore(order, last, r)
    <3>1. walk.cursor # Start /\ ~ After(order, walk.cursor, r) /\ r \in Rows
        BY <1>s, <1>1, <1>2, <1>3, <2>7 DEF Given, Listed
    <3>2. After(order, walk.cursor, last)
        BY <1>4, <2>2, <3>1
    <3>3. walk.cursor \in (0..MaxKey) \X (Rows \cup {0})
        BY <1>2 DEF WalkState
    <3>4. walk.cursor[1] \in Nat /\ walk.cursor[2] \in Nat /\ last \in Nat /\ r \in Nat
      <4>1. walk.cursor[1] \in 0..MaxKey /\ walk.cursor[2] \in Rows \cup {0}
          BY <3>3
      <4>2. \A n \in 0..MaxKey : n \in Nat
          BY ListingConstants
      <4>3. walk.cursor[1] \in Nat
          BY <4>1, <4>2
      <4>4. walk.cursor[2] \in Nat
        <5>1. walk.cursor[2] \in Rows \/ walk.cursor[2] = 0
            BY <4>1, Zenon
        <5>2. walk.cursor[2] \in Rows => walk.cursor[2] \in Nat
            BY ListingConstants
        <5> QED BY <5>1, <5>2
      <4>5. last \in Nat /\ r \in Nat
          BY <2>3, <3>1, ListingConstants
      <4> QED BY <4>3, <4>4, <4>5
    <3>5. key[last] \in Nat /\ key[r] \in Nat
        BY <1>2, <2>3, <3>1, ListingConstants DEF ListingTypeOK, Absent
    <3> QED BY <3>1, <3>2, <3>4, <3>5, AfterIs, OrderIs
  <2>8. CursorGives'
    <3>1. ~ walk'.turned => straight
        BY <2>5
    <3> QED BY <1>7, <1>8, <2>2, <2>6, <2>7, <3>1 DEF CursorGives
  <2>9. ListingTypeOK'
      BY <1>1, <1>2, <1>8, <2>5 DEF ListingTypeOK, WalkState
  <2>10. Straight'
      BY <1>n, <1>i, <2>5 DEF ListingInv, Straight
  <2> QED BY <1>2, <1>8, <2>5, <2>8, <2>9, <2>10 DEF ListingInv, NotBegun, OffsetGives, AllGiven
<1> QED BY <1>9, <1>10

LEMMA OffsetPageKeeps == ASSUME ListingInv, NEW same \in BOOLEAN, OffsetPage(same) PROVE ListingInv'
<1>0. PICK found \in Found(same) :
        LET rest == found \ Leading(walk.order, found, walk.offset)
            shown == Leading(walk.order, rest, PageLimit)
            turned == Turned(walk.order, same)
        IN  /\ returned' = [r \in Rows |-> returned[r] + (IF r \in shown THEN 1 ELSE 0)]
            /\ walk' = IF More(rest)
                       THEN [walk EXCEPT !.offset = @ + PageLimit, !.turned = turned]
                       ELSE [walk EXCEPT !.at = "ended", !.turned = turned]
    BY DEF OffsetPage
<1>f. found \in SUBSET Listed /\ (same => found = Listed)
    BY DEF Found
<1> DEFINE straight == ~ Turned(walk.order, same)
<1>s. Turned(walk.order, same) \in BOOLEAN /\ (straight => ~ walk.turned /\ found = Listed)
    BY <1>f DEF Turned, ListingInv, ListingTypeOK
<1> DEFINE rest == found \ Leading(walk.order, found, walk.offset)
           shown == Leading(walk.order, rest, PageLimit)
<1>1. /\ walk.at = "on" /\ walk.by = "offset"
      /\ returned' = [r \in Rows |-> returned[r] + (IF r \in shown THEN 1 ELSE 0)]
      /\ walk' = IF More(rest) THEN [walk EXCEPT !.offset = @ + PageLimit, !.turned = Turned(walk.order, same)]
                 ELSE [walk EXCEPT !.at = "ended", !.turned = Turned(walk.order, same)]
      /\ UNCHANGED <<key, steady, changes>>
    BY <1>0 DEF OffsetPage
<1>2. ListingTypeOK /\ walk \in WalkState /\ found \in SUBSET Rows /\ steady \subseteq Listed
      /\ Listed \in SUBSET Rows
    BY <1>f DEF ListingInv, ListingTypeOK, WalkState, Listed
<1>b. walk.of # "inbox"
    BY <1>1 DEF ListingInv, Straight
<1>3. walk.order \in Orders /\ walk.offset \in Nat
    BY <1>2, RowsCount DEF WalkState
<1>4. /\ Cardinality(found) \in Nat /\ Cardinality(found) <= Cardinality(Rows)
      /\ Cardinality(Rows) \in Nat /\ PageLimit \in Nat /\ PageLimit > 0
    BY <1>2, RowsCount, ListingConstants
<1>5. /\ walk.offset <= Cardinality(found) =>
           /\ Cardinality(rest) = Cardinality(found) - walk.offset
           /\ \A r \in rest : Rank(walk.order, rest, r) = Rank(walk.order, found, r) - walk.offset
      /\ Cardinality(found) <= walk.offset => rest = {}
    BY <1>2, <1>3, OffsetTakesNext
<1>6. \A r \in found : r \in rest <=> ~ (Rank(walk.order, found, r) < walk.offset)
    BY LeadingIs
<1>7. \A r \in found : Rank(walk.order, found, r) \in Nat
                        /\ Rank(walk.order, found, r) < Cardinality(found)
    BY <1>2, <1>3, BehindIs
<1>8. \A r : r \in shown <=> r \in rest /\ Rank(walk.order, rest, r) < PageLimit
    BY LeadingIs
<1>9. rest \subseteq found
    OBVIOUS
<1> HIDE DEF rest, shown, straight
<1>10. returned' \in [Rows -> Nat] /\ steady' = steady /\ Listed' = Listed
       /\ \A r \in Rows : returned'[r] = returned[r] + (IF r \in shown THEN 1 ELSE 0)
    BY <1>1, <1>2 DEF ListingTypeOK, Listed
\* Without changes, the next places are given.
<1>11. ASSUME straight, changes = 0
       PROVE  /\ walk.offset <= Cardinality(Listed) /\ found = Listed
              /\ \A r \in Listed : returned'[r] = IF Rank(walk.order, Listed, r) < walk.offset + PageLimit
                                                  THEN 1 ELSE 0
  <2>1. /\ walk.offset <= Cardinality(Listed)
        /\ \A r \in Listed : returned[r] = IF Rank(walk.order, Listed, r) < walk.offset THEN 1 ELSE 0
        /\ found = Listed
      BY <1>1, <1>s, <1>11 DEF ListingInv, OffsetGives
  <2>2. \A r \in Listed : r \in shown <=> /\ ~ (Rank(walk.order, Listed, r) < walk.offset)
                                          /\ Rank(walk.order, Listed, r) - walk.offset < PageLimit
      BY <1>5, <1>6, <1>8, <1>9, <2>1
  <2>3. \A r \in Listed : returned'[r] = returned[r] + (IF r \in shown THEN 1 ELSE 0)
      BY <1>2, <1>10
  <2> QED BY <1>3, <1>4, <1>7, <2>1, <2>2, <2>3
<1>12. CASE ~ More(rest)
  <2>1. walk' = [walk EXCEPT !.at = "ended", !.turned = Turned(walk.order, same)]
      BY <1>1, <1>12
  <2>2. walk' \in WalkState /\ walk'.at = "ended" /\ walk'.by = "offset" /\ walk'.turned = ~ straight
        /\ walk'.of = walk.of /\ walk'.order = walk.order
      BY <1>1, <1>2, <1>s, <2>1 DEF WalkState, straight
  <2>3. ASSUME straight, changes = 0, NEW r \in steady PROVE returned'[r] = 1
    <3>1. Cardinality(rest) <= PageLimit
        BY <1>4, <1>5, <1>11, <1>12, <1>3, <2>3 DEF More
    <3>2. Cardinality(Listed) - walk.offset <= PageLimit
      <4>1. found = Listed /\ walk.offset <= Cardinality(found)
          BY <1>11, <2>3
      <4>2. Cardinality(rest) = Cardinality(found) - walk.offset
          BY <1>5, <4>1
      <4>3. Cardinality(found) - walk.offset <= PageLimit
          BY <3>1, <4>2
      <4> QED BY <4>1, <4>3
    <3>3. r \in Listed /\ Rank(walk.order, Listed, r) < walk.offset + PageLimit
      <4>1. found = Listed /\ r \in Listed
          BY <1>2, <1>11, <2>3
      <4>2. /\ Rank(walk.order, Listed, r) \in Nat /\ Cardinality(Listed) \in Nat
            /\ Rank(walk.order, Listed, r) < Cardinality(Listed)
          BY <1>4, <1>7, <4>1
      <4> QED BY <1>3, <1>4, <3>2, <4>1, <4>2
    <3> QED BY <1>11, <2>3, <3>3
  <2>4. ListingTypeOK'
      BY <1>1, <1>2, <1>10, <2>2 DEF ListingTypeOK, WalkState
  <2>5. Straight'
      BY <1>b, <2>2 DEF ListingInv, Straight
  <2> QED BY <1>1, <1>2, <1>10, <2>2, <2>3, <2>4, <2>5
          DEF ListingInv, NotBegun, CursorGives, OffsetGives, AllGiven
<1>13. CASE More(rest)
  <2>1. walk' = [walk EXCEPT !.offset = @ + PageLimit, !.turned = Turned(walk.order, same)]
      BY <1>1, <1>13
  <2>2. walk.offset + PageLimit <= Cardinality(found)
    <3>1. CASE Cardinality(found) <= walk.offset
      <4>1. Cardinality(rest) = 0
          BY <1>5, <3>1, FS_EmptySet
      <4> QED BY <1>4, <1>13, <4>1 DEF More
    <3>2. CASE walk.offset <= Cardinality(found)
        BY <1>3, <1>4, <1>5, <1>13, <3>2 DEF More
    <3> QED BY <1>3, <1>4, <3>1, <3>2
  <2>3. walk.offset + PageLimit \in 0..(2 * Cardinality(Rows))
      BY <1>3, <1>4, <2>2
  <2>4. walk' \in WalkState /\ walk'.at = "on" /\ walk'.by = "offset" /\ walk'.order = walk.order
        /\ walk'.offset = walk.offset + PageLimit /\ walk'.turned = ~ straight /\ walk'.of = walk.of
      BY <1>1, <1>2, <1>s, <2>1, <2>3 DEF WalkState, straight
  <2>5. OffsetGives'
    <3>1. \A r : Rank(walk.order, Listed, r)' = Rank(walk.order, Listed, r)
        BY <1>1, <1>10, <2>4 DEF Rank, Behind, Precedes, Place
    <3>2. Cardinality(Listed)' = Cardinality(Listed)
        BY <1>10
    <3> QED BY <1>1, <1>2, <1>10, <1>11, <2>2, <2>4, <3>1, <3>2 DEF OffsetGives
  <2>6. ListingTypeOK'
      BY <1>1, <1>2, <1>10, <2>4 DEF ListingTypeOK, WalkState
  <2>7. Straight'
      BY <1>b, <2>4 DEF ListingInv, Straight
  <2> QED BY <1>2, <1>10, <2>4, <2>5, <2>6, <2>7 DEF ListingInv, NotBegun, CursorGives, AllGiven
<1> QED BY <1>12, <1>13

\* A page of a search changes nothing that is promised.
LEMMA RankedPageKeeps == ASSUME ListingInv, RankedPage PROVE ListingInv'
<1>1. PICK shown \in SUBSET Listed, more \in BOOLEAN :
        /\ more => walk.offset + PageLimit < Cardinality(Listed)
        /\ returned' = [r \in Rows |-> returned[r] + (IF r \in shown THEN 1 ELSE 0)]
        /\ walk' = IF more THEN [walk EXCEPT !.offset = @ + PageLimit]
                   ELSE [walk EXCEPT !.at = "ended"]
    BY DEF RankedPage
<1>2. walk.at = "on" /\ walk.by = "rank" /\ UNCHANGED <<key, steady, changes>>
    BY DEF RankedPage
<1>3. ListingTypeOK /\ walk \in WalkState /\ steady \subseteq Listed /\ Listed \in SUBSET Rows
    BY DEF ListingInv, ListingTypeOK, WalkState, Listed
<1>4. walk.offset \in Nat /\ PageLimit \in Nat
      /\ Cardinality(Listed) \in Nat /\ Cardinality(Listed) <= Cardinality(Rows)
      /\ Cardinality(Rows) \in Nat
    BY <1>3, RowsCount, ListingConstants DEF WalkState
<1>5. more => walk.offset + PageLimit \in 0..(2 * Cardinality(Rows))
    BY <1>1, <1>4
<1>6. /\ walk' \in WalkState /\ walk'.at \in {"on", "ended"} /\ walk'.by = "rank"
      /\ walk'.of = walk.of /\ walk'.order = walk.order /\ walk'.turned = walk.turned
    BY <1>1, <1>2, <1>3, <1>5 DEF WalkState
<1>7. returned' \in [Rows -> Nat] /\ Listed' = Listed
    BY <1>1, <1>2, <1>3 DEF ListingTypeOK, Listed
<1>8. ListingTypeOK'
    BY <1>2, <1>3, <1>6, <1>7 DEF ListingTypeOK, WalkState
<1>9. Straight'
    BY <1>2, <1>6 DEF ListingInv, Straight
<1> QED BY <1>2, <1>3, <1>6, <1>7, <1>8, <1>9
        DEF ListingInv, NotBegun, CursorGives, OffsetGives, AllGiven

LEMMA ListingInvStep == ListingInv /\ [NextListing]_listingVars => ListingInv'
<1> SUFFICES ASSUME ListingInv, [NextListing]_listingVars PROVE ListingInv'
    OBVIOUS
<1>1. CASE UNCHANGED listingVars
  <2>1. UNCHANGED <<key, walk, returned, steady, changes>>
      BY <1>1 DEF listingVars
  <2>2. Listed' = Listed
      BY <2>1 DEF Listed
  <2>3. \A r : (Given(r)' <=> Given(r)) /\ Rank(walk.order, Listed, r)' = Rank(walk.order, Listed, r)
      BY <2>1, <2>2 DEF Given, After, Rank, Behind, Precedes, Place
  <2>4. ListingTypeOK'
      BY <2>1 DEF ListingInv, ListingTypeOK
  <2> QED BY <2>1, <2>2, <2>3, <2>4
          DEF ListingInv, NotBegun, CursorGives, OffsetGives, AllGiven, Straight
<1> QED BY <1>1, RowChangesKeeps, WalkBeginsKeeps, CursorPageKeeps, OffsetPageKeeps, RankedPageKeeps
        DEF NextListing

\* Whatever the rows, their keys and the limit of a page, and however rows appear, move and
\* disappear between two pages: a walk by cursor whose caller repeats its order and
\* filters, and every walk of the inbox, returns each row that stays once; a walk by
\* offset over a fixed order does while nothing changes.
THEOREM PagesReturnEachOnce == ListingSpec => []EachOnce
<1>1. ListingInv => EachOnce
  <2> SUFFICES ASSUME ListingInv, walk.by = "cursor" \/ (walk.by = "offset" /\ changes = 0),
                      walk.of = "inbox" \/ ~ walk.turned, NEW r \in steady
               PROVE  returned[r] <= 1 /\ (walk.at = "ended" => returned[r] = 1)
      BY DEF EachOnce
  <2>1. r \in Rows /\ r \in Listed /\ walk.at \in {"off", "on", "ended"}
      BY DEF ListingInv, ListingTypeOK, Listed
  <2>2. ~ walk.turned
      BY DEF ListingInv, Straight
  <2> QED BY <2>1, <2>2 DEF ListingInv, NotBegun, CursorGives, OffsetGives, AllGiven
<1> QED BY <1>1, ListingInvInit, ListingInvStep, PTL DEF ListingSpec

(***************************************************************************)
(* The parts side by side.                                                 *)
(***************************************************************************)

\* A step of the composition is a step of one part and a stutter of the others.
LEMMA AssistantStep ==
    [Next]_vars => /\ [NextDrafts]_draftVars /\ [NextCache]_cacheVars /\ [NextBot]_botVars
                   /\ [NextReconcile]_reconcileVars /\ [NextListing]_listingVars
                   /\ [NextAccounts]_accountVars /\ [NextMerge]_mergeVars
    BY DEF Next, vars

\* What the run of the composition checks, it checks of each part, and each theorem about
\* a part holds of the composition.
THEOREM PartsAreThemselves ==
    Spec => DraftSpec /\ CacheSpec /\ BotSpec /\ ReconcileSpec /\ ListingSpec /\ AccountSpec
            /\ MergeSpec
<1>1. Init => /\ InitDrafts /\ InitCache /\ InitBot /\ InitReconcile /\ InitListing
              /\ InitAccounts /\ InitMerge
    BY DEF Init
<1> QED BY <1>1, AssistantStep, PTL DEF Spec, DraftSpec, CacheSpec, BotSpec, ReconcileSpec,
                                        ListingSpec, AccountSpec, MergeSpec

\* Every variable of the seven parts holds what the code can write, for any number of
\* requests, drafts, workers, updates, messages, rows and accounts.
THEOREM AssistantTypesAlways == Spec => []AssistantTypeOK
<1>1. ListingSpec => []ListingTypeOK
    BY ListingInvInit, ListingInvStep, PTL DEF ListingInv, ListingSpec
<1>2. AccountSpec => []AccountTypeOK
    BY InitAccountInv, AccountInvStep, PTL DEF AccountInv, AccountSpec
<1>3. MergeSpec => []MergeTypeOK
    BY MergeInvInit, MergeInvStep, PTL DEF MergeInv, MergeSpec
<1>4. DraftTypeOK /\ CacheTypeOK /\ BotTypeOK /\ ReconcileTypeOK /\ ListingTypeOK
      /\ AccountTypeOK /\ MergeTypeOK => AssistantTypeOK
    BY DEF AssistantTypeOK
<1> QED BY <1>1, <1>2, <1>3, <1>4, PartsAreThemselves, DraftTypesAlways, CacheTypesAlways,
           BotTypesAlways, ReconcileTypesAlways, PTL
=============================================================================
