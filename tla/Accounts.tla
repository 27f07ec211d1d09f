------------------------------ MODULE Accounts ------------------------------
(***************************************************************************)
(* An invited account (onboarding.py, api/v1/onboarding.py, telegram.py):  *)
(* the owner makes one-use links, a link becomes an onboarding token, and  *)
(* the token serves to log in to Telegram, by a client that waits in the   *)
(* memory of the process between the code's request and its verification.  *)
(***************************************************************************)
EXTENDS Naturals, FiniteSets

CONSTANTS
    MaxLinks,    \* bound on the links made
    Verifiers,   \* verify-code requests at a time
    MaxBreaks    \* bound on restarts, clients given up and wrong codes, together

ASSUME AccountConstants == MaxLinks \in Nat /\ MaxBreaks \in Nat

VARIABLES
    account,    \* the invited user: absent, invited or active
    link,       \* invite_token_hash: the number of a link, 0 for none
    made,       \* links made so far
    accepted,   \* how often each link was accepted; a link is its onboarding token's jti too
    pending,    \* _auth_clients: the clients, by the token and whose phone has got a code
    verifier,   \* each request: where it stands, its token, who logged in
    sessions,   \* whose Telegram sessions the account has stored
    breaks      \* breaks so far

accountVars == <<account, link, made, accepted, pending, verifier, sessions, breaks>>

Links == 1..MaxLinks
People == {"expected", "other"}     \* Telegram accounts: the one invited, any other
NoOne == "no one"
NotVerifying == [at |-> "idle", token |-> 0, who |-> NoOne]

AccountTypeOK ==
    /\ account \in {"absent", "invited", "active"}
    /\ link \in 0..MaxLinks /\ made \in 0..MaxLinks
    /\ accepted \in [Links -> Nat]
    /\ pending \subseteq Links \X People
    /\ verifier \in [Verifiers -> [at : {"idle", "signing", "signed"}, token : 0..MaxLinks,
                                   who : People \cup {NoOne}]]
    /\ sessions \subseteq People
    /\ breaks \in 0..MaxBreaks

InitAccounts ==
    /\ account = "absent" /\ link = 0 /\ made = 0
    /\ accepted = [l \in Links |-> 0]
    /\ pending = {}
    /\ verifier = [v \in Verifiers |-> NotVerifying]
    /\ sessions = {}
    /\ breaks = 0

Break == breaks < MaxBreaks /\ breaks' = breaks + 1
Departs(v) == verifier' = [verifier EXCEPT ![v] = NotVerifying]
Popped(v) == pending' = pending \ {<<verifier[v].token, verifier[v].who>>}

\* create_invitation: the account is made, or its link renewed.
Invites ==
    /\ made < MaxLinks
    /\ made' = made + 1 /\ link' = made + 1
    /\ account' = IF account = "absent" THEN "invited" ELSE account
    /\ UNCHANGED <<accepted, pending, verifier, sessions, breaks>>

\* Seven days have passed.
LinkExpires ==
    /\ link # 0 /\ link' = 0
    /\ UNCHANGED <<account, made, accepted, pending, verifier, sessions, breaks>>

\* accept_invitation: one UPDATE finds the link, consumes it and activates the account.
AcceptsLink(l) ==
    /\ link = l
    /\ link' = 0 /\ account' = "active"
    /\ accepted' = [accepted EXCEPT ![l] = @ + 1]
    /\ UNCHANGED <<made, pending, verifier, sessions, breaks>>

\* get_auth_context: the token of an accepted link, for the login endpoints only.
Authenticated(t) == accepted[t] > 0 /\ account = "active"

\* request_code: a new client replaces that of the same token and phone.
RequestsCode(t, who) ==
    /\ Authenticated(t)
    /\ pending' = pending \cup {<<t, who>>}
    /\ UNCHANGED <<account, link, made, accepted, verifier, sessions, breaks>>

\* verify_code: the account is active and the client is there; it is kept meanwhile.
Verifies(v, t, who) ==
    /\ verifier[v].at = "idle" /\ Authenticated(t)
    /\ <<t, who>> \in pending
    /\ verifier' = [verifier EXCEPT ![v] = [at |-> "signing", token |-> t, who |-> who]]
    /\ UNCHANGED <<account, link, made, accepted, pending, sessions, breaks>>

\* Telegram lets them in; or the code is wrong, and may be tried again; or it has
\* expired, and the client is given up.
SignsIn(v) ==
    /\ verifier[v].at = "signing"
    /\ \/ verifier' = [verifier EXCEPT ![v].at = "signed"] /\ UNCHANGED <<pending, breaks>>
       \/ Departs(v) /\ Break /\ UNCHANGED pending
       \/ Departs(v) /\ Break /\ Popped(v)
    /\ UNCHANGED <<account, link, made, accepted, sessions>>

\* A bug: whoever logged in, the session is stored.
VerifiesAny(v) ==
    /\ verifier[v].at = "signed"
    /\ sessions' = sessions \cup {verifier[v].who}
    /\ Departs(v) /\ Popped(v)
    /\ UNCHANGED <<account, link, made, accepted, breaks>>

\* The session of another Telegram account is refused, that of the invited one saved.
Verified(v) ==
    /\ verifier[v].at = "signed"
    /\ sessions' = IF verifier[v].who = "expected" THEN sessions \cup {"expected"} ELSE sessions
    /\ Departs(v) /\ Popped(v)
    /\ UNCHANGED <<account, link, made, accepted, breaks>>

\* A client is older than five minutes or one too many, or the process restarts.
ClientsGo ==
    /\ Break
    /\ \/ \E client \in pending : pending' = pending \ {client} /\ UNCHANGED verifier
       \/ pending' = {} /\ verifier' = [v \in Verifiers |-> NotVerifying]
    /\ UNCHANGED <<account, link, made, accepted, sessions>>

NextAccounts ==
    \/ Invites \/ LinkExpires \/ ClientsGo
    \/ \E l \in Links : AcceptsLink(l) \/ \E who \in People : RequestsCode(l, who)
    \/ \E v \in Verifiers : \/ \E t \in Links, who \in People : Verifies(v, t, who)
                            \/ SignsIn(v) \/ Verified(v)

AccountSpec == InitAccounts /\ [][NextAccounts]_accountVars

(***************************************************************************)
(* Properties.                                                             *)
(***************************************************************************)

\* However links are renewed and verifications overlap, expire, fail and are repeated, a
\* link lets in once, and the account's sessions are those of the Telegram account that
\* was invited.
OnlyTheInvited ==
    /\ \A l \in Links : accepted[l] <= 1
    /\ sessions \subseteq {"expected"}
    /\ sessions # {} => \E l \in Links : accepted[l] = 1
=============================================================================
