------------------------------- MODULE Agents -------------------------------
(***************************************************************************)
(* One scheduled agent (tasks/agent_tasks.py, digital_agents.py): the beat *)
(* queues a run every minute while the agent is due, workers run it side   *)
(* by side and deliver a task again when its worker is lost, the owner     *)
(* starts and deletes it.  A run writes what it has read when it began.    *)
(***************************************************************************)
EXTENDS Naturals

CONSTANTS
    Runners,     \* workers
    ErrorLimit,  \* errors after which an agent is disabled
    MaxQueued,   \* bound on the queued tasks that beat and owner add to
    MaxUpsets    \* bound on lost workers, manual starts and changes of luck, together

ASSUME AgentConstants == ErrorLimit \in Nat \ {0} /\ MaxQueued \in Nat /\ MaxUpsets \in Nat

VARIABLES
    agent,     \* the row: status, whether it has a schedule, whether it is due, errors
    queued,    \* execute_agent tasks in the broker
    runner,    \* each worker: where it stands, and the errors it has read
    healthy,   \* whether runs come to a result
    upsets     \* upsets so far

agentVars == <<agent, queued, runner, healthy, upsets>>

AgentTypeOK ==
    /\ agent \in [status : {"none", "active", "failed", "deleted"}, cron : BOOLEAN,
                  due : BOOLEAN, errors : 0..ErrorLimit]
    /\ queued \in Nat
    /\ runner \in [Runners -> [at : {"idle", "running", "sent"}, errors : 0..ErrorLimit]]
    /\ healthy \in BOOLEAN
    /\ upsets \in 0..MaxUpsets

InitAgents ==
    /\ agent = [status |-> "none", cron |-> FALSE, due |-> FALSE, errors |-> 0]
    /\ queued = 0
    /\ runner = [w \in Runners |-> [at |-> "idle", errors |-> 0]]
    /\ healthy = TRUE
    /\ upsets = 0

Upset == upsets < MaxUpsets /\ upsets' = upsets + 1
Rests(w) == runner' = [runner EXCEPT ![w] = [at |-> "idle", errors |-> 0]]

\* create_agent_from_description: with a schedule, or manual.
AgentCreated ==
    /\ agent.status = "none"
    /\ \E cron \in BOOLEAN : agent' = [agent EXCEPT !.status = "active", !.cron = cron]
    /\ UNCHANGED <<queued, runner, healthy, upsets>>

\* next_run_at is reached.
NextRunReached ==
    /\ agent.cron /\ ~ agent.due
    /\ agent' = [agent EXCEPT !.due = TRUE]
    /\ UNCHANGED <<queued, runner, healthy, upsets>>

\* run_due_agents; the row is not claimed.
RunDueAgents ==
    /\ agent.status = "active" /\ agent.due /\ queued < MaxQueued
    /\ queued' = queued + 1
    /\ UNCHANGED <<agent, runner, healthy, upsets>>

\* /agent run.
Triggered ==
    /\ agent.status \in {"active", "failed"} /\ queued < MaxQueued /\ Upset
    /\ queued' = queued + 1
    /\ UNCHANGED <<agent, runner, healthy>>

\* delete_agent, without a lock.
AgentDeleted ==
    /\ agent.status \in {"active", "failed"}
    /\ agent' = [agent EXCEPT !.status = "deleted"]
    /\ UNCHANGED <<queued, runner, healthy, upsets>>

\* _execute_agent reads the agent; one that is not active is skipped.
RunBegins(w) ==
    /\ queued > 0 /\ runner[w].at = "idle"
    /\ queued' = queued - 1
    /\ runner' = IF agent.status = "active"
                 THEN [runner EXCEPT ![w] = [at |-> "running", errors |-> agent.errors]]
                 ELSE runner
    /\ UNCHANGED <<agent, healthy, upsets>>

\* The result is sent ...
RunReports(w) ==
    /\ runner[w].at = "running" /\ healthy
    /\ runner' = [runner EXCEPT ![w].at = "sent"]
    /\ UNCHANGED <<agent, queued, healthy, upsets>>

\* ... and the success committed.
RunSaves(w) ==
    /\ runner[w].at = "sent"
    /\ agent' = [agent EXCEPT !.errors = 0, !.due = agent.due /\ ~ agent.cron]
    /\ Rests(w)
    /\ UNCHANGED <<queued, healthy, upsets>>

\* A bug: the error is rolled back with the rest.
RunFailsUncounted(w) ==
    /\ runner[w].at = "running" /\ ~ healthy
    /\ Rests(w)
    /\ UNCHANGED <<agent, queued, healthy, upsets>>

\* A bug: the limit is one too high.
RunFailsLate(w) ==
    /\ runner[w].at = "running" /\ ~ healthy
    /\ LET errors == runner[w].errors + 1 IN
         agent' = [agent EXCEPT !.errors = errors,
                                !.status = IF errors > ErrorLimit THEN "failed" ELSE @]
    /\ Rests(w)
    /\ UNCHANGED <<queued, healthy, upsets>>

\* No text, too many rounds, the time limit, an error of the service or of the message:
\* the error is counted on top of those the run had read.
RunFails(w) ==
    /\ runner[w].at = "running" /\ ~ healthy
    /\ LET errors == runner[w].errors + 1 IN
         agent' = [agent EXCEPT !.errors = errors,
                                !.status = IF errors >= ErrorLimit THEN "failed" ELSE @]
    /\ Rests(w)
    /\ UNCHANGED <<queued, healthy, upsets>>

\* A worker is lost; its task is delivered again.
RunnerLost(w) ==
    /\ runner[w].at # "idle" /\ Upset
    /\ queued' = queued + 1
    /\ Rests(w)
    /\ UNCHANGED <<agent, healthy>>

LuckChanges ==
    /\ Upset /\ healthy' = ~ healthy
    /\ UNCHANGED <<agent, queued, runner>>

RunnerStep(w) ==
    RunBegins(w) \/ RunReports(w) \/ RunSaves(w) \/ RunFails(w) \/ RunnerLost(w)

NextAgents ==
    \/ AgentCreated \/ NextRunReached \/ RunDueAgents \/ Triggered \/ AgentDeleted
    \/ \E w \in Runners : RunnerStep(w)
    \/ LuckChanges

\* Time passes, the beat runs, and a run ends, by its time limit if nothing else.
AgentFairness ==
    /\ WF_agentVars(NextRunReached) /\ WF_agentVars(RunDueAgents)
    /\ \A w \in Runners : /\ WF_agentVars(RunBegins(w))
                          /\ WF_agentVars(RunReports(w) \/ RunFails(w))
                          /\ WF_agentVars(RunSaves(w))

AgentSpec == InitAgents /\ [][NextAgents]_agentVars /\ AgentFairness

(***************************************************************************)
(* Properties.                                                             *)
(***************************************************************************)

\* A scheduled agent that keeps failing is given up, although its runs overlap and
\* overwrite each other's counts.
GivesUp == (agent.status = "active" /\ agent.cron) ~> (agent.status # "active" \/ healthy)
=============================================================================
