----------------------------- MODULE MCServices -----------------------------
(***************************************************************************)
(* The background services beside the archive, one at a time: they share   *)
(* processes but no state, so that each keeps the states of its own, and   *)
(* one run checks them all.                                                *)
(***************************************************************************)
EXTENDS Sessions, Outbox, Agents, Digest

VARIABLE component   \* the service that runs

vars == <<component, sessionVars, outboxVars, agentVars, digestVars>>

\* A service that does not run has nothing to do.
Init ==
    /\ component \in {"sessions", "outbox", "agents", "digest"}
    /\ InitSessions /\ InitOutbox /\ InitAgents /\ InitDigest
    /\ component # "sessions" => ~ realtime

Next ==
    /\ UNCHANGED component
    /\ \/ /\ component = "sessions" /\ NextSessions
          /\ UNCHANGED <<outboxVars, agentVars, digestVars>>
       \/ /\ component = "outbox" /\ NextOutbox
          /\ UNCHANGED <<sessionVars, agentVars, digestVars>>
       \/ /\ component = "agents" /\ NextAgents
          /\ UNCHANGED <<sessionVars, outboxVars, digestVars>>
       \/ /\ component = "digest" /\ NextDigest
          /\ UNCHANGED <<sessionVars, outboxVars, agentVars>>

Spec == Init /\ [][Next]_vars /\ SessionFairness /\ OutboxFairness /\ AgentFairness

\* The values of every service's variables are what the code can hold.
ServicesTypeOK == SessionTypeOK /\ OutboxTypeOK /\ AgentTypeOK /\ DigestTypeOK
=============================================================================
