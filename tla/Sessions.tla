------------------------------ MODULE Sessions ------------------------------
(***************************************************************************)
(* The Telegram sessions of one account and the listener that uses them:   *)
(* logins, short-lived clients of requests and workers, the listener's     *)
(* start, its two periodic loops, the commands it gets through Redis       *)
(* publish/subscribe, and the beat task that wakes it.  A session that     *)
(* Telegram no longer accepts is disabled by whoever meets the error.      *)
(***************************************************************************)
EXTENDS Naturals, Sequences, FiniteSets

CONSTANTS
    MaxSessions,   \* bound on the number of logins that succeed
    Logins,        \* verifications in progress
    Callers,       \* requests and tasks that open a client of their own
    MaxBusy,       \* bound on the callers and message handlers under way at a time
    MaxInbox,      \* bound on the commands under way that people and the beat add
    MaxFaults,     \* bound on logouts, changed settings, revocations, lost commands, crashes
                   \* and cut connections, together
    MayBeCut       \* whether a connection may end for good (reconnects exhausted)

ASSUME SessionConstants == /\ MaxSessions \in Nat /\ MaxInbox \in Nat /\ MaxFaults \in Nat
                           /\ MaxBusy \in Nat
                           /\ MayBeCut \in BOOLEAN

VARIABLES
    session,    \* rows of telegram_sessions: absent, active, inactive or deleted
    accepted,   \* the sessions Telegram still accepts
    realtime,   \* UserSettings.realtime_sync_enabled
    login,      \* each verification, with the active sessions it has read
    crossed,    \* two verifications have overlapped
    client,     \* each user of a client: where it stands, its session, whether to restart
                \* the listener, whether its error was another client's
    listening,  \* the session of the listener's client, 0 for none
    linked,     \* that client is connected
    alive,      \* the key listener:active
    inbox,      \* commands on the listener's channel
    setting,    \* a change of realtime published but not committed
    trouble     \* events of MaxFaults so far

sessionVars == <<session, accepted, realtime, login, crossed, client, listening,
                 linked, alive, inbox, setting, trouble>>

SessionIds == 1..MaxSessions
Starter == "starter"    \* the listener's command loop, in _start_user
Checker == "checker"    \* the listener's health loop
Handler == "handler"    \* a handler of the listener's client that has a message in hand
Holders == Callers \cup {Starter, Checker, Handler}
Active == {s \in SessionIds : session[s] = "active"}
NoLogin == [open |-> FALSE, read |-> {}]
Unused == [at |-> "idle", sess |-> 0, again |-> FALSE, astray |-> FALSE]

SessionTypeOK ==
    /\ session \in [SessionIds -> {"absent", "active", "inactive", "deleted"}]
    /\ accepted \subseteq SessionIds
    /\ realtime \in BOOLEAN /\ crossed \in BOOLEAN /\ linked \in BOOLEAN /\ alive \in BOOLEAN
    /\ login \in [Logins -> [open : BOOLEAN, read : SUBSET SessionIds]]
    /\ client \in [Holders -> [at : {"idle", "opening", "working", "failing", "refused",
                                     "telling", "stopping"},
                               sess : 0..MaxSessions, again : BOOLEAN, astray : BOOLEAN]]
    /\ listening \in 0..MaxSessions
    /\ inbox \in Seq({"start", "stop"}) /\ Len(inbox) <= MaxInbox + 1 + 2 * MaxSessions
    /\ setting \in {"idle", "on", "off"}
    /\ trouble \in 0..MaxFaults

InitSessions ==
    /\ session = [s \in SessionIds |-> "absent"]
    /\ accepted = {}
    /\ realtime \in BOOLEAN
    /\ login = [l \in Logins |-> NoLogin]
    /\ crossed = FALSE
    /\ client = [h \in Holders |-> Unused]
    /\ listening = 0 /\ linked = FALSE /\ alive = FALSE
    /\ inbox = <<>>
    /\ setting = "idle"
    /\ trouble = 0

Fault == trouble < MaxFaults /\ trouble' = trouble + 1

Spare == Cardinality({h \in Callers \cup {Handler} : client[h].at # "idle"}) < MaxBusy

\* Who is free not to publish waits for room (a bound of the model).
Room == Len(inbox) < MaxInbox

\* publish: it arrives, or nobody hears it.
Hear(commands) == inbox' = inbox \o commands
Publish(commands) == \/ Hear(commands) /\ UNCHANGED trouble
                     \/ Fault /\ UNCHANGED inbox

Moves(h, place) == client' = [client EXCEPT ![h].at = place]
Closes(h) == client' = [client EXCEPT ![h] = Unused]

\* _handle_unauthorized_client ends with _stop_user, whoever else just with the error.
Ends(h) == IF h \in {Checker, Handler}
             THEN client' = [client EXCEPT ![h] = [Unused EXCEPT !.at = "stopping"]]
             ELSE Closes(h)

(***************************************************************************)
(* Logins, logouts and the setting.                                        *)
(***************************************************************************)

\* save_session reads the active sessions.
LoginReads(l) ==
    /\ ~ login[l].open
    /\ \E s \in SessionIds : session[s] = "absent"
    /\ login' = [login EXCEPT ![l] = [open |-> TRUE, read |-> Active]]
    /\ crossed' = (crossed \/ \E o \in Logins \ {l} : login[o].open)
    /\ UNCHANGED <<session, accepted, realtime, client, listening, linked, alive, inbox,
                   setting, trouble>>

\* A bug: the sessions of earlier logins stay active.
LoginAdds(l) ==
    /\ login[l].open
    /\ \E s \in SessionIds :
         /\ session[s] = "absent" /\ \A o \in 1..(s - 1) : session[o] # "absent"
         /\ session' = [session EXCEPT ![s] = "active"]
         /\ accepted' = accepted \cup {s}
    /\ login' = [login EXCEPT ![l] = NoLogin]
    /\ UNCHANGED <<realtime, crossed, client, listening, linked, alive, inbox, setting,
                   trouble>>

\* It disables those it has read, adds the new one, and the request commits.
LoginSaves(l) ==
    /\ login[l].open
    /\ \E s \in SessionIds :
         /\ session[s] = "absent" /\ \A o \in 1..(s - 1) : session[o] # "absent"
         /\ \A o \in login[l].read : session[o] # "deleted"
         /\ session' = [o \in SessionIds |->
                          IF o = s THEN "active"
                          ELSE IF o \in login[l].read /\ session[o] = "active" THEN "inactive"
                          ELSE session[o]]
         /\ accepted' = accepted \cup {s}
    /\ login' = [login EXCEPT ![l] = NoLogin]
    /\ UNCHANGED <<realtime, crossed, client, listening, linked, alive, inbox, setting,
                   trouble>>

\* A row it has read was deleted meanwhile: its UPDATE finds no row, and the request fails.
LoginFails(l) ==
    /\ login[l].open
    /\ \E o \in login[l].read : session[o] = "deleted"
    /\ login' = [login EXCEPT ![l] = NoLogin]
    /\ UNCHANGED <<session, accepted, realtime, crossed, client, listening, linked, alive,
                   inbox, setting, trouble>>

\* DELETE /telegram/session removes the rows; nobody is told.
Logout ==
    /\ \E s \in SessionIds : session[s] \in {"active", "inactive"}
    /\ Fault
    /\ session' = [s \in SessionIds |->
                     IF session[s] = "absent" THEN "absent" ELSE "deleted"]
    /\ UNCHANGED <<accepted, realtime, login, crossed, client, listening, linked, alive,
                   inbox, setting>>

\* The setting is published while its transaction is open ...
SettingTold(value) ==
    /\ setting = "idle" /\ realtime # (value = "on") /\ Room
    /\ Fault /\ Hear(<<IF value = "on" THEN "start" ELSE "stop">>)
    /\ setting' = value
    /\ UNCHANGED <<session, accepted, realtime, login, crossed, client, listening, linked,
                   alive>>

\* ... and committed when the request ends.
SettingSaved ==
    /\ setting # "idle"
    /\ realtime' = (setting = "on") /\ setting' = "idle"
    /\ UNCHANGED <<session, accepted, login, crossed, client, listening, linked, alive,
                   inbox, trouble>>

\* select_chats turns it on and, after its commit, wakes the listener.
SelectionWakes ==
    /\ setting = "idle" /\ Room
    /\ realtime' = TRUE
    /\ Fault /\ Hear(<<"start">>)
    /\ UNCHANGED <<session, accepted, login, crossed, client, listening, linked, alive,
                   setting>>

(***************************************************************************)
(* Clients.                                                                *)
(***************************************************************************)

\* get_client: exactly one active session, and the client connects.
Opens(h, s) ==
    /\ client[h].at = "idle"
    /\ Active = {s}
    /\ client' = [client EXCEPT ![h] = [Unused EXCEPT !.at = "opening", !.sess = s]]

CallerOpens(h) ==
    /\ Spare
    /\ \E s \in SessionIds : Opens(h, s)
    /\ UNCHANGED <<session, accepted, realtime, login, crossed, listening, linked, alive,
                   inbox, setting, trouble>>

\* get_me, and later any call that may fail with an authorization error.
Asks(h) ==
    /\ client[h].at \in {"opening", "working"}
    /\ IF client[h].sess \in accepted
         THEN client[h].at = "opening" /\ Moves(h, "working")
         ELSE Moves(h, "refused")
    /\ UNCHANGED <<session, accepted, realtime, login, crossed, listening, linked, alive,
                   inbox, setting, trouble>>

CallerEnds(h) ==
    /\ client[h].at = "working" /\ Closes(h)
    /\ UNCHANGED <<session, accepted, realtime, login, crossed, listening, linked, alive,
                   inbox, setting, trouble>>

\* A bug: the error of a client disables whatever session is active.
TargetsAny(h) == Active

\* The session an authorization error disables: the client's own, if still active.
Targets(h) == {client[h].sess} \cap Active

\* invalidate_unauthorized_session: its transaction.
Disables(h) ==
    /\ client[h].at = "refused"
    /\ LET found == Targets(h)
           rest == Active \ found
       IN  \/ /\ found = {}
              /\ Ends(h)
              /\ UNCHANGED <<session, realtime>>
           \/ /\ found # {}
              /\ session' = [s \in SessionIds |-> IF s \in found THEN "inactive"
                                                  ELSE session[s]]
              /\ realtime' = (realtime /\ rest # {})
              /\ client' = [client EXCEPT ![h].at = "telling",
                                          ![h].again = realtime /\ rest # {}]
    /\ UNCHANGED <<accepted, login, crossed, listening, linked, alive, inbox, setting,
                   trouble>>

\* The key is removed and the commands are published.
Tells(h) ==
    /\ client[h].at = "telling"
    /\ alive' = FALSE
    /\ Publish(IF client[h].again THEN <<"stop", "start">> ELSE <<"stop">>)
    /\ Ends(h)
    /\ UNCHANGED <<session, accepted, realtime, login, crossed, listening, linked, setting>>

CallerDies(h) ==
    /\ client[h].at # "idle" /\ Fault /\ Closes(h)
    /\ UNCHANGED <<session, accepted, realtime, login, crossed, listening, linked, alive,
                   inbox, setting>>

(***************************************************************************)
(* The listener.                                                           *)
(***************************************************************************)

\* start_user: ignored while there is a client, refused without a session.
TakesStart ==
    /\ client[Starter].at = "idle" /\ inbox # <<>> /\ Head(inbox) = "start"
    /\ inbox' = Tail(inbox)
    /\ \/ /\ listening = 0
          /\ \E s \in SessionIds : Opens(Starter, s)
       \/ /\ listening # 0 \/ Cardinality(Active) # 1
          /\ UNCHANGED client
    /\ UNCHANGED <<session, accepted, realtime, login, crossed, listening, linked, alive,
                   setting, trouble>>

\* stop_user: _stop_user drops the client and the key.
TakesStop ==
    /\ client[Starter].at = "idle" /\ inbox # <<>> /\ Head(inbox) = "stop"
    /\ inbox' = Tail(inbox)
    /\ listening' = 0 /\ linked' = FALSE /\ alive' = FALSE
    /\ UNCHANGED <<session, accepted, realtime, login, crossed, client, setting, trouble>>

\* catch_up succeeds: the client is registered.
Started ==
    /\ client[Starter].at = "working" /\ client[Starter].sess \in accepted
    /\ listening' = client[Starter].sess /\ linked' = TRUE /\ alive' = TRUE
    /\ Closes(Starter)
    /\ UNCHANGED <<session, accepted, realtime, login, crossed, inbox, setting, trouble>>

\* _heartbeat_loop: the key lives while the client is connected.
Heartbeat ==
    /\ listening # 0 /\ alive # linked
    /\ alive' = linked
    /\ UNCHANGED <<session, accepted, realtime, login, crossed, client, listening, linked,
                   inbox, setting, trouble>>

\* It works with the client that is registered now.
LooksAt(h, place) ==
    client' = [client EXCEPT ![h] = [Unused EXCEPT !.at = place, !.sess = listening]]

\* _health_check_loop catches up with the client it finds.
CheckerLooks ==
    /\ client[Checker].at = "idle" /\ listening # 0 /\ linked
    /\ LooksAt(Checker, "working")
    /\ UNCHANGED <<session, accepted, realtime, login, crossed, listening, linked, alive,
                   inbox, setting, trouble>>

CheckerContent ==
    /\ client[Checker].at = "working" /\ client[Checker].sess \in accepted
    /\ Closes(Checker)
    /\ UNCHANGED <<session, accepted, realtime, login, crossed, listening, linked, alive,
                   inbox, setting, trouble>>

\* _handle_unauthorized_client ends with _stop_user, whatever client there is now.
Stops(h) ==
    /\ client[h].at = "stopping"
    /\ listening' = 0 /\ linked' = FALSE /\ alive' = FALSE
    /\ Closes(h)
    /\ UNCHANGED <<session, accepted, realtime, login, crossed, inbox, setting, trouble>>

\* _handle_message asks Telegram for the chat or the sender and is refused (any other
\* answer leaves all this alone); its transaction is rolled back first ...
MessageFails ==
    /\ client[Handler].at = "idle" /\ listening # 0 /\ linked /\ listening \notin accepted
    /\ Spare
    /\ LooksAt(Handler, "failing")
    /\ UNCHANGED <<session, accepted, realtime, login, crossed, listening, linked, alive,
                   inbox, setting, trouble>>

\* ... and then the client that is registered by now is taken for the one that failed.
HandlerBlames ==
    /\ client[Handler].at = "failing"
    /\ IF listening = 0
         THEN Closes(Handler)
         ELSE client' = [client EXCEPT ![Handler].at = "refused",
                                       ![Handler].sess = listening,
                                       ![Handler].astray = listening # client[Handler].sess]
    /\ UNCHANGED <<session, accepted, realtime, login, crossed, listening, linked, alive,
                   inbox, setting, trouble>>

\* The key outlives a listener that is gone by its time to live.
AliveLapses ==
    /\ alive /\ ~ linked
    /\ alive' = FALSE
    /\ UNCHANGED <<session, accepted, realtime, login, crossed, client, listening, linked,
                   inbox, setting, trouble>>

\* The process ends and is started again: _load_enabled_users.
ListenerRestarts ==
    /\ Fault
    /\ client' = [client EXCEPT ![Starter] = Unused, ![Checker] = Unused,
                                 ![Handler] = Unused]
    /\ listening' = 0 /\ linked' = FALSE
    /\ inbox' = IF realtime THEN <<"start">> ELSE <<>>
    /\ UNCHANGED <<session, accepted, realtime, login, crossed, alive, setting>>

\* A bug: the check trusts the setting of the listener's last start.
HealthCheckOnce ==
    /\ realtime /\ ~ alive /\ inbox = <<>> /\ trouble = 0
    /\ Publish(<<"start">>)
    /\ UNCHANGED <<session, accepted, realtime, login, crossed, client, listening, linked,
                   alive, setting>>

\* listener_health_check of the beat.
HealthCheck ==
    /\ realtime /\ ~ alive /\ inbox = <<>>
    /\ Publish(<<"start">>)
    /\ UNCHANGED <<session, accepted, realtime, login, crossed, client, listening, linked,
                   alive, setting>>

(***************************************************************************)
(* Telegram.                                                               *)
(***************************************************************************)

\* The owner ends the session in another device.
Revoke(s) ==
    /\ s \in accepted /\ Fault
    /\ accepted' = accepted \ {s}
    /\ UNCHANGED <<session, realtime, login, crossed, client, listening, linked, alive,
                   inbox, setting>>

\* The library gives up reconnecting.
ConnectionCut ==
    /\ MayBeCut /\ linked /\ Fault
    /\ linked' = FALSE
    /\ UNCHANGED <<session, accepted, realtime, login, crossed, client, listening, alive,
                   inbox, setting>>

ListenerStep ==
    \/ TakesStart \/ TakesStop \/ Started \/ Heartbeat
    \/ CheckerLooks \/ CheckerContent
    \/ MessageFails \/ HandlerBlames
    \/ \E h \in {Starter, Checker} : Asks(h)
    \/ \E h \in {Starter, Checker, Handler} : Disables(h) \/ Tells(h)
    \/ \E h \in {Checker, Handler} : Stops(h)

CallerStep(h) ==
    \/ CallerOpens(h) \/ Asks(h) \/ CallerEnds(h) \/ Disables(h) \/ Tells(h) \/ CallerDies(h)

NextSessions ==
    \/ \E l \in Logins : LoginReads(l) \/ LoginSaves(l) \/ LoginFails(l)
    \/ Logout
    \/ \E value \in {"on", "off"} : SettingTold(value)
    \/ SettingSaved
    \/ SelectionWakes
    \/ \E h \in Callers : CallerStep(h)
    \/ ListenerStep
    \/ AliveLapses
    \/ ListenerRestarts
    \/ HealthCheck
    \/ \E s \in SessionIds : Revoke(s)
    \/ ConnectionCut

\* The listener's loops, the time to live and the beat go on; people need not act.
SessionFairness ==
    /\ WF_sessionVars(TakesStart) /\ WF_sessionVars(TakesStop)
    /\ WF_sessionVars(Started) /\ WF_sessionVars(Heartbeat)
    /\ WF_sessionVars(CheckerContent) /\ SF_sessionVars(CheckerLooks)
    /\ WF_sessionVars(HandlerBlames)
    /\ \A h \in Holders \ {Handler} : WF_sessionVars(Asks(h))
    /\ \A h \in Holders : WF_sessionVars(Disables(h)) /\ WF_sessionVars(Tells(h))
    /\ \A h \in {Checker, Handler} : WF_sessionVars(Stops(h))
    /\ WF_sessionVars(AliveLapses) /\ SF_sessionVars(HealthCheck)
    /\ WF_sessionVars(SettingSaved)

SessionSpec == InitSessions /\ [][NextSessions]_sessionVars /\ SessionFairness

(***************************************************************************)
(* Properties.                                                             *)
(***************************************************************************)

\* The late error of an old client never disables a session Telegram accepts: only a
\* login replaces it.  The exception is _handle_message, which looks up the client to
\* blame after its own has failed: it may find the one that has taken its place.
OnlyTheRefused ==
    [][\A s \in SessionIds :
         session[s] = "active" /\ session'[s] = "inactive" /\ s \in accepted
           => \/ \E n \in SessionIds : session[n] = "absent" /\ session'[n] = "active"
              \/ client[Handler].at = "refused" /\ client[Handler].astray
                 /\ client[Handler].sess = s
      ]_sessionVars

\* Unless two verifications overlap, one session at most is active: with two of them
\* get_client raises for every caller.
OneActiveSession == ~ crossed => Cardinality(Active) <= 1

\* While live updates are wanted and one accepted session is active, the listener does
\* not stay down, whatever commands were lost or came late.
ListenerComesBack ==
    <>[](realtime /\ \E s \in accepted : Active = {s}) => []<>(listening # 0 /\ linked)
=============================================================================
