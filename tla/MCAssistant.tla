----------------------------- MODULE MCAssistant -----------------------------
(***************************************************************************)
(* What people and their assistants ask of the archive, one part at a      *)
(* time: the parts share no state but the archive itself, so that each     *)
(* keeps the states of its own, and one run checks them all.               *)
(***************************************************************************)
EXTENDS PostDraft, MediaCache, Bot, Reconcile, Listing, Accounts, PeerMerge, TLC

VARIABLE component   \* the part that runs

vars == <<component, draftVars, cacheVars, botVars, reconcileVars, listingVars, accountVars,
          mergeVars>>

Init ==
    /\ component \in {"drafts", "cache", "bot", "reconcile", "listing", "accounts", "merge"}
    /\ InitDrafts /\ InitCache /\ InitBot /\ InitReconcile /\ InitListing /\ InitAccounts
    /\ InitMerge
    /\ component # "merge" => chatType = "GROUP" /\ origin = [f \in Forms |-> NoRow]

Next ==
    /\ UNCHANGED component
    /\ \/ /\ component = "drafts" /\ NextDrafts
          /\ UNCHANGED <<cacheVars, botVars, reconcileVars, listingVars, accountVars, mergeVars>>
       \/ /\ component = "cache" /\ NextCache
          /\ UNCHANGED <<draftVars, botVars, reconcileVars, listingVars, accountVars, mergeVars>>
       \/ /\ component = "bot" /\ NextBot
          /\ UNCHANGED <<draftVars, cacheVars, reconcileVars, listingVars, accountVars, mergeVars>>
       \/ /\ component = "reconcile" /\ NextReconcile
          /\ UNCHANGED <<draftVars, cacheVars, botVars, listingVars, accountVars, mergeVars>>
       \/ /\ component = "listing" /\ NextListing
          /\ UNCHANGED <<draftVars, cacheVars, botVars, reconcileVars, accountVars, mergeVars>>
       \/ /\ component = "accounts" /\ NextAccounts
          /\ UNCHANGED <<draftVars, cacheVars, botVars, reconcileVars, listingVars, mergeVars>>
       \/ /\ component = "merge" /\ NextMerge
          /\ UNCHANGED <<draftVars, cacheVars, botVars, reconcileVars, listingVars, accountVars>>

Spec == Init /\ [][Next]_vars

\* The webhook's requests do the same.
symmetry == Permutations(Requests)

\* The values of every part's variables are what the code can hold.
AssistantTypeOK ==
    /\ DraftTypeOK /\ CacheTypeOK /\ BotTypeOK
    /\ ReconcileTypeOK /\ ListingTypeOK /\ AccountTypeOK /\ MergeTypeOK
=============================================================================
