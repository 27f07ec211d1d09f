-------------------------- MODULE Sessions_proofs ---------------------------
(* Proofs about Telegram sessions for any number of logins, callers, commands  *)
(* and faults.                                                                 *)
EXTENDS Sessions, FiniteSetTheorems, TLAPS

SessionStates == {"absent", "active", "inactive", "deleted"}
Place == {"idle", "opening", "working", "failing", "refused", "telling", "stopping"}
ClientState == [at : Place, sess : 0..MaxSessions, again : BOOLEAN, astray : BOOLEAN]

\* What the proofs need of the types.
RowTypes ==
    /\ session \in [SessionIds -> SessionStates]
    /\ login \in [Logins -> [open : BOOLEAN, read : SUBSET SessionIds]]
    /\ client \in [Holders -> ClientState]
    /\ accepted \subseteq SessionIds

\* Unless verifications overlapped, at most one is open, and it has read all that is
\* active.
OneLogin ==
    ~ crossed => /\ \A l, o \in Logins : login[l].open /\ login[o].open => l = o
                 /\ \A l \in Logins : login[l].open => Active \subseteq login[l].read
                 /\ \A s, t \in Active : s = t

\* A client has the session of a login, and is refused only with one that Telegram no
\* longer accepts, unless a handler blames the client that took the place of its own.
ClientsHonest ==
    /\ \A h \in Holders : client[h].at \notin {"idle", "stopping"} =>
         client[h].sess \in SessionIds /\ session[client[h].sess] # "absent"
    /\ \A h \in Holders : client[h].at \in {"failing", "refused"} =>
         client[h].sess \notin accepted \/ (h = Handler /\ client[h].astray /\ client[h].at = "refused")
    /\ listening # 0 => listening \in SessionIds /\ session[listening] # "absent"

SessionInv == RowTypes /\ OneLogin /\ ClientsHonest

LEMMA SessionInit == InitSessions => SessionInv
<1> SUFFICES ASSUME InitSessions PROVE SessionInv
    OBVIOUS
<1>1. RowTypes
    BY SessionConstants DEF InitSessions, RowTypes, NoLogin, Unused, SessionStates, ClientState, Place
<1>2. OneLogin
    BY DEF InitSessions, OneLogin, NoLogin, Active
<1>3. ClientsHonest
    BY DEF InitSessions, ClientsHonest, Unused
<1> QED BY <1>1, <1>2, <1>3 DEF SessionInv

\* The four ways in which rows and verifications change.
RowsRest == UNCHANGED <<session, login, crossed, accepted>>
LEMMA RowSteps == ASSUME NextSessions
                  PROVE  \/ \E l \in Logins : LoginReads(l) \/ LoginSaves(l) \/ LoginFails(l)
                         \/ Logout
                         \/ \E h \in Holders : Disables(h)
                         \/ RowsRest
                         \/ \E s \in SessionIds : Revoke(s)
<1> USE DEF RowsRest
<1>1. ASSUME NEW h \in Holders, CallerOpens(h) \/ Asks(h) \/ CallerEnds(h) \/ Tells(h) \/ CallerDies(h)
      PROVE  RowsRest
    BY <1>1 DEF CallerOpens, Asks, CallerEnds, Tells, CallerDies
<1>2. ASSUME NEW h \in Callers, CallerStep(h) PROVE Disables(h) \/ RowsRest
    BY <1>1, <1>2 DEF CallerStep, Holders
<1>3. ASSUME ListenerStep PROVE RowsRest \/ \E h \in Holders : Disables(h)
  <2>1. CASE TakesStart \/ TakesStop \/ Started \/ Heartbeat \/ CheckerLooks \/ CheckerContent
               \/ MessageFails \/ HandlerBlames
      BY <2>1 DEF TakesStart, TakesStop, Started, Heartbeat, CheckerLooks, CheckerContent,
         MessageFails, HandlerBlames
  <2>2. CASE \E h \in {Starter, Checker} : Asks(h)
      BY <1>1, <2>2 DEF Holders
  <2>3. CASE \E h \in {Starter, Checker, Handler} : Disables(h) \/ Tells(h)
      BY <1>1, <2>3 DEF Holders
  <2>4. CASE \E h \in {Checker, Handler} : Stops(h)
      BY <2>4 DEF Stops
  <2> QED BY <1>3, <2>1, <2>2, <2>3, <2>4 DEF ListenerStep
<1>4. (\E value \in {"on", "off"} : SettingTold(value)) \/ SettingSaved \/ SelectionWakes
        \/ AliveLapses \/ ListenerRestarts \/ HealthCheck \/ ConnectionCut => RowsRest
    BY DEF SettingTold, SettingSaved, SelectionWakes, AliveLapses, ListenerRestarts,
           HealthCheck, ConnectionCut
<1> QED BY <1>2, <1>3, <1>4 DEF NextSessions, Holders

\* Rows and verifications: their types, what is active, and that none becomes absent.
LEMMA RowsKept == ASSUME SessionInv, [NextSessions]_sessionVars
                  PROVE  /\ session' \in [SessionIds -> SessionStates]
                         /\ login' \in [Logins -> [open : BOOLEAN, read : SUBSET SessionIds]]
                         /\ accepted' \subseteq SessionIds
                         /\ OneLogin'
                         /\ \A s \in SessionIds : session[s] # "absent" =>
                              session'[s] # "absent" /\ (s \in accepted' => s \in accepted)
<1> DEFINE Good == /\ session' \in [SessionIds -> SessionStates]
                   /\ login' \in [Logins -> [open : BOOLEAN, read : SUBSET SessionIds]]
                   /\ accepted' \subseteq SessionIds
                   /\ OneLogin'
                   /\ \A s \in SessionIds : session[s] # "absent" =>
                        session'[s] # "absent" /\ (s \in accepted' => s \in accepted)
<1>t. RowTypes /\ OneLogin
    BY DEF SessionInv
<1>1. ASSUME RowsRest PROVE Good
    BY <1>1, <1>t DEF RowsRest, RowTypes, OneLogin, Active
<1>2. ASSUME NEW l \in Logins, LoginReads(l) PROVE Good
  <2>1. /\ session' = session /\ accepted' = accepted /\ Active' = Active
        /\ ~ crossed' => ~ crossed /\ \A o \in Logins : o # l => ~ login[o].open
      BY <1>2 DEF LoginReads, Active
  <2>2. login' = [login EXCEPT ![l] = [open |-> TRUE, read |-> Active]]
      BY <1>2 DEF LoginReads
  <2>3. login' \in [Logins -> [open : BOOLEAN, read : SUBSET SessionIds]]
      BY <1>t, <2>2 DEF RowTypes, Active
  <2>4. /\ login'[l].read = Active
        /\ \A o \in Logins : o # l => login'[o] = login[o]
      BY <1>t, <2>2 DEF RowTypes
  <2>5. OneLogin'
      BY <1>t, <2>1, <2>4 DEF OneLogin
  <2> QED BY <1>t, <2>1, <2>3, <2>5 DEF RowTypes
<1>3. ASSUME NEW l \in Logins, LoginSaves(l) PROVE Good
  <2>1. PICK s \in SessionIds :
          /\ session[s] = "absent"
          /\ session' = [o \in SessionIds |->
                           IF o = s THEN "active"
                           ELSE IF o \in login[l].read /\ session[o] = "active" THEN "inactive"
                           ELSE session[o]]
          /\ accepted' = accepted \cup {s}
      BY <1>3 DEF LoginSaves
  <2>2. /\ login[l].open /\ crossed' = crossed
        /\ login' = [login EXCEPT ![l] = NoLogin]
      BY <1>3 DEF LoginSaves
  <2>3. session' \in [SessionIds -> SessionStates]
      BY <1>t, <2>1 DEF RowTypes, SessionStates
  <2>4. login' \in [Logins -> [open : BOOLEAN, read : SUBSET SessionIds]]
      BY <1>t, <2>2 DEF RowTypes, NoLogin
  <2>5. /\ ~ login'[l].open
        /\ \A o \in Logins : o # l => login'[o] = login[o]
      BY <1>t, <2>2 DEF RowTypes, NoLogin
  <2>6. ~ crossed => \A t \in Active' : t = s
      BY <1>t, <2>1, <2>2 DEF OneLogin, Active
  <2>7. ~ crossed => \A o \in Logins : ~ login'[o].open
      BY <1>t, <2>2, <2>5 DEF OneLogin
  <2>8. OneLogin'
      BY <2>2, <2>6, <2>7 DEF OneLogin
  <2>9. \A t \in SessionIds : session[t] # "absent" =>
          session'[t] # "absent" /\ (t \in accepted' => t \in accepted)
      BY <2>1
  <2>10. accepted' \subseteq SessionIds
      BY <1>t, <2>1 DEF RowTypes
  <2> QED BY <2>3, <2>4, <2>8, <2>9, <2>10
<1>l. ASSUME NEW l \in Logins, LoginFails(l) PROVE Good
  <2>1. /\ session' = session /\ accepted' = accepted /\ crossed' = crossed
        /\ login' = [login EXCEPT ![l] = NoLogin]
      BY <1>l DEF LoginFails
  <2>2. login' \in [Logins -> [open : BOOLEAN, read : SUBSET SessionIds]]
      BY <1>t, <2>1 DEF RowTypes, NoLogin
  <2>3. /\ ~ login'[l].open
        /\ \A o \in Logins : o # l => login'[o] = login[o]
      BY <1>t, <2>1 DEF RowTypes, NoLogin
  <2>4. OneLogin'
      BY <1>t, <2>1, <2>3 DEF OneLogin, Active
  <2> QED BY <1>t, <2>1, <2>2, <2>4 DEF RowTypes
<1>4. ASSUME Logout PROVE Good
  <2>1. /\ login' = login /\ accepted' = accepted /\ crossed' = crossed
        /\ session' = [s \in SessionIds |-> IF session[s] = "absent" THEN "absent" ELSE "deleted"]
      BY <1>4 DEF Logout
  <2>2. Active' = {}
      BY <2>1 DEF Active
  <2>3. OneLogin'
      BY <1>t, <2>1, <2>2 DEF OneLogin
  <2> QED BY <1>t, <2>1, <2>3 DEF RowTypes, SessionStates
<1>5. ASSUME NEW h \in Holders, Disables(h) PROVE Good
  <2>1. /\ login' = login /\ accepted' = accepted /\ crossed' = crossed
        /\ \/ session' = session
           \/ session' = [s \in SessionIds |-> IF s \in Targets(h) THEN "inactive" ELSE session[s]]
      BY <1>5 DEF Disables
  <2>2. \A s \in SessionIds : s \in Targets(h) => session[s] = "active"
      BY DEF Targets, Active
  <2>3. Active' \subseteq Active
      BY <2>1 DEF Active
  <2>4. OneLogin'
      BY <1>t, <2>1, <2>3 DEF OneLogin
  <2>5. session' \in [SessionIds -> SessionStates]
      BY <1>t, <2>1 DEF RowTypes, SessionStates
  <2>6. \A s \in SessionIds : session[s] # "absent" => session'[s] # "absent"
      BY <2>1
  <2> QED BY <1>t, <2>1, <2>4, <2>5, <2>6 DEF RowTypes
<1>6. ASSUME NEW s \in SessionIds, Revoke(s) PROVE Good
  <2>1. /\ session' = session /\ login' = login /\ crossed' = crossed
        /\ accepted' = accepted \ {s}
      BY <1>6 DEF Revoke
  <2> QED BY <1>t, <2>1 DEF RowTypes, OneLogin, Active
<1>7. UNCHANGED sessionVars => RowsRest
    BY DEF sessionVars, RowsRest
<1> QED BY <1>1, <1>2, <1>3, <1>l, <1>4, <1>5, <1>6, <1>7, RowSteps

\* A user of a client goes one of these ways; the others stay where they are.
Stays(h) == client'[h] = client[h]
Quits(h) == client'[h].at \in {"idle", "stopping"} /\ client'[h] \in ClientState
Begins(h) == /\ client'[h] \in ClientState
             /\ client'[h].sess \in SessionIds /\ session[client'[h].sess] # "absent"
             /\ client'[h].at \in {"failing", "refused"}
                  => /\ accepted' = accepted
                     /\ \/ client'[h].sess \notin accepted
                        \/ h = Handler /\ client'[h].astray /\ client'[h].at = "refused"
GoesOn(h) == /\ client[h].at \notin {"idle", "stopping"} /\ client'[h] \in ClientState
             /\ client'[h].sess = client[h].sess
             /\ client'[h].at \in {"failing", "refused"}
                  => client[h].sess \notin accepted /\ accepted' = accepted
Way(h) == Stays(h) \/ Quits(h) \/ Begins(h) \/ GoesOn(h)
Ways == client' \in [Holders -> ClientState] /\ \A h \in Holders : Way(h)

LEMMA UnusedState == Unused \in ClientState /\ Unused.at = "idle"
    BY SessionConstants DEF Unused, ClientState, Place

\* What a user of a client has when it begins.
Fresh(place, s) == [Unused EXCEPT !.at = place, !.sess = s]
LEMMA FreshState == ASSUME NEW place \in Place, NEW s \in 0..MaxSessions
                    PROVE  /\ Fresh(place, s) \in ClientState
                           /\ Fresh(place, s).at = place /\ Fresh(place, s).sess = s
    BY SessionConstants DEF Fresh, Unused, ClientState

\* What is left to do after _handle_unauthorized_client has told.
Stopping == [Unused EXCEPT !.at = "stopping"]
LEMMA StoppingState == Stopping \in ClientState /\ Stopping.at = "stopping"
<1>1. "stopping" \in Place /\ 0 \in 0..MaxSessions
    BY SessionConstants DEF Place
<1> QED BY <1>1 DEF Stopping, Unused, ClientState

\* One row of clients changes.
LEMMA OneWay == ASSUME RowTypes, NEW h \in Holders, NEW c \in ClientState,
                       client' = [client EXCEPT ![h] = c], Way(h)
                PROVE  Ways
<1>1. client' \in [Holders -> ClientState]
    BY DEF RowTypes
<1>2. \A g \in Holders : g # h => Stays(g)
    BY DEF RowTypes, Stays
<1> QED BY <1>1, <1>2 DEF Ways, Way

LEMMA ClosesWay == ASSUME RowTypes, NEW h \in Holders, Closes(h) PROVE Ways
<1>1. client' = [client EXCEPT ![h] = Unused] /\ client'[h] = Unused
    BY DEF Closes, RowTypes
<1>2. Way(h)
    BY <1>1, UnusedState DEF Way, Quits
<1> QED BY <1>1, <1>2, UnusedState, OneWay

LEMMA EndsWay == ASSUME RowTypes, NEW h \in Holders, Ends(h) PROVE Ways
<1>1. CASE client' = [client EXCEPT ![h] = Stopping]
  <2>1. client'[h] = Stopping
      BY <1>1 DEF RowTypes
  <2>2. Way(h)
      BY <2>1, StoppingState DEF Way, Quits
  <2> QED BY <1>1, <2>2, StoppingState, OneWay
<1> QED BY <1>1, ClosesWay DEF Ends, Stopping

LEMMA MovesWay == ASSUME RowTypes, NEW h \in Holders, NEW p \in Place, Moves(h, p),
                         client[h].at \notin {"idle", "stopping"},
                         p \in {"failing", "refused"} => client[h].sess \notin accepted /\ accepted' = accepted
                  PROVE  Ways
<1> DEFINE c == [client[h] EXCEPT !.at = p]
<1>1. client' = [client EXCEPT ![h] = c] /\ client'[h] = c
    BY DEF Moves, RowTypes
<1>2. c \in ClientState /\ c.at = p /\ c.sess = client[h].sess
    BY DEF RowTypes, ClientState
<1>3. Way(h)
    BY <1>1, <1>2 DEF Way, GoesOn
<1> QED BY <1>1, <1>2, <1>3, OneWay

LEMMA OpensWay == ASSUME RowTypes, NEW h \in Holders, NEW s \in SessionIds, Opens(h, s) PROVE Ways
<1> DEFINE c == Fresh("opening", s)
<1>1. client' = [client EXCEPT ![h] = c] /\ client'[h] = c
    BY DEF Opens, RowTypes, Fresh
<1>2. c \in ClientState /\ c.at = "opening" /\ c.sess = s /\ s \in Active
  <2>1. s \in 0..MaxSessions /\ "opening" \in Place /\ s \in Active
      BY SessionConstants DEF SessionIds, Opens, Place
  <2> QED BY <2>1, FreshState
<1> HIDE DEF c
<1>3. Way(h)
    BY <1>1, <1>2 DEF Way, Begins, Active
<1> QED BY <1>1, <1>2, <1>3, OneWay

LEMMA ClientSteps == ASSUME SessionInv, [NextSessions]_sessionVars PROVE Ways
<1>t. RowTypes
    BY DEF SessionInv
<1>h. Starter \in Holders /\ Checker \in Holders /\ Handler \in Holders /\ Callers \subseteq Holders
    BY DEF Holders
<1>p. {"working", "failing", "refused", "telling", "stopping"} \subseteq Place
    BY DEF Place
<1>1. client' = client => Ways
    BY <1>t DEF Ways, Way, Stays, RowTypes
<1>2. ASSUME NEW h \in Holders, CallerOpens(h) PROVE Ways
    BY <1>2, <1>t, OpensWay DEF CallerOpens
<1>3. ASSUME NEW h \in Holders, Asks(h) PROVE Ways
  <2>1. client[h].at \notin {"idle", "stopping"} /\ accepted' = accepted
      BY <1>3 DEF Asks
  <2>2. CASE client[h].sess \in accepted /\ Moves(h, "working")
      BY <1>t, <1>p, <2>1, <2>2, MovesWay
  <2>3. CASE client[h].sess \notin accepted /\ Moves(h, "refused")
      BY <1>t, <1>p, <2>1, <2>3, MovesWay
  <2> QED BY <1>3, <2>2, <2>3 DEF Asks
<1>4. ASSUME NEW h \in Holders, CallerEnds(h) \/ CallerDies(h) PROVE Ways
    BY <1>4, <1>t, ClosesWay DEF CallerEnds, CallerDies
<1>5. ASSUME NEW h \in Holders, Tells(h) PROVE Ways
  <2>1. Ends(h)
      BY <1>5 DEF Tells
  <2> QED BY <1>t, <2>1, EndsWay
<1>6. ASSUME NEW h \in Holders, Disables(h) PROVE Ways
  <2>1. client[h].at = "refused"
      BY <1>6 DEF Disables
  <2>2. CASE Ends(h)
      BY <1>t, <2>2, EndsWay
  <2>3. CASE \E b \in BOOLEAN : client' = [client EXCEPT ![h].at = "telling", ![h].again = b]
    <3>1. PICK b \in BOOLEAN : client' = [client EXCEPT ![h].at = "telling", ![h].again = b]
        BY <2>3
    <3> DEFINE c == [client[h] EXCEPT !.at = "telling", !.again = b]
    <3>2. c \in ClientState /\ c.at = "telling" /\ c.sess = client[h].sess
        BY <1>t, <1>p DEF RowTypes, ClientState
    <3>3. client' = [client EXCEPT ![h] = c] /\ client'[h] = c
        BY <1>t, <3>1 DEF RowTypes
    <3>4. Way(h)
        BY <2>1, <3>2, <3>3 DEF Way, GoesOn
    <3> QED BY <1>t, <3>2, <3>3, <3>4, OneWay
  <2>4. (realtime /\ Active \ Targets(h) # {}) \in BOOLEAN
      OBVIOUS
  <2> QED BY <1>6, <2>2, <2>3, <2>4 DEF Disables
<1>7. CASE TakesStart
    BY <1>7, <1>1, <1>t, <1>h, OpensWay DEF TakesStart
<1>8. CASE Started
    BY <1>8, <1>t, <1>h, ClosesWay DEF Started
<1>9. ASSUME NEW h \in Holders, NEW place \in {"working", "failing"}, LooksAt(h, place), listening # 0,
             place = "failing" => listening \notin accepted /\ accepted' = accepted
      PROVE  Ways
  <2> DEFINE c == Fresh(place, listening)
  <2>1. client' = [client EXCEPT ![h] = c] /\ client'[h] = c
      BY <1>9, <1>t DEF LooksAt, RowTypes, Fresh
  <2>2. listening \in SessionIds /\ session[listening] # "absent"
      BY <1>9 DEF SessionInv, ClientsHonest
  <2>3. c \in ClientState /\ c.at = place /\ c.sess = listening
    <3>1. listening \in 0..MaxSessions /\ place \in Place
        BY <1>p, <2>2, SessionConstants DEF SessionIds
    <3> QED BY <3>1, FreshState
  <2> HIDE DEF c
  <2>4. Way(h)
      BY <1>9, <2>1, <2>2, <2>3 DEF Way, Begins
  <2> QED BY <1>t, <2>1, <2>3, <2>4, OneWay
<1>l. CASE CheckerLooks \/ MessageFails
    BY <1>l, <1>h, <1>9 DEF CheckerLooks, MessageFails
<1>b. CASE HandlerBlames
  <2>1. CASE listening = 0
      BY <1>b, <1>t, <1>h, <2>1, ClosesWay DEF HandlerBlames
  <2>2. CASE listening # 0
    <3> DEFINE c == [client[Handler] EXCEPT !.at = "refused", !.sess = listening,
                                            !.astray = listening # client[Handler].sess]
    <3>1. client' = [client EXCEPT ![Handler] = c] /\ client'[Handler] = c
        BY <1>b, <1>t, <1>h, <2>2 DEF HandlerBlames, RowTypes
    <3>2. listening \in SessionIds /\ session[listening] # "absent"
        BY <2>2 DEF SessionInv, ClientsHonest
    <3>3. /\ c \in ClientState /\ c.at = "refused" /\ c.sess = listening
          /\ c.astray = (listening # client[Handler].sess)
      <4>1. client[Handler] \in ClientState /\ listening \in 0..MaxSessions /\ "refused" \in Place
          BY <1>t, <1>h, <1>p, <3>2, SessionConstants DEF RowTypes, SessionIds
      <4>2. (listening # client[Handler].sess) \in BOOLEAN
          OBVIOUS
      <4> QED BY <4>1, <4>2 DEF ClientState
    <3>4. client[Handler].at = "failing" /\ accepted' = accepted
        BY <1>b DEF HandlerBlames
    <3>5. client[Handler].sess \notin accepted
        BY <1>h, <3>4 DEF SessionInv, ClientsHonest
    <3> HIDE DEF c
    <3>6. Way(Handler)
      <4>1. CASE listening = client[Handler].sess
          BY <3>1, <3>2, <3>3, <3>4, <3>5, <4>1 DEF Way, Begins
      <4>2. CASE listening # client[Handler].sess
          BY <3>1, <3>2, <3>3, <3>4, <4>2 DEF Way, Begins
      <4> QED BY <4>1, <4>2
    <3> QED BY <1>t, <1>h, <3>1, <3>3, <3>6, OneWay
  <2> QED BY <2>1, <2>2
<1>10. ASSUME NEW h \in Holders, CheckerContent \/ Stops(h) PROVE Ways
    BY <1>10, <1>t, <1>h, ClosesWay DEF CheckerContent, Stops
<1>11. CASE ListenerRestarts
  <2>1. client' = [client EXCEPT ![Starter] = Unused, ![Checker] = Unused, ![Handler] = Unused]
      BY <1>11 DEF ListenerRestarts
  <2>2. \A h \in Holders : client'[h] = client[h] \/ client'[h] = Unused
      BY <1>t, <2>1 DEF RowTypes
  <2>3. client' \in [Holders -> ClientState]
      BY <1>t, <2>1, UnusedState DEF RowTypes
  <2> QED BY <2>2, <2>3, UnusedState DEF Ways, Way, Stays, Quits
<1>12. (\E l \in Logins : LoginReads(l) \/ LoginSaves(l) \/ LoginFails(l)) \/ Logout
         \/ (\E value \in {"on", "off"} : SettingTold(value)) \/ SettingSaved \/ SelectionWakes
         \/ TakesStop \/ Heartbeat \/ AliveLapses \/ HealthCheck
         \/ (\E s \in SessionIds : Revoke(s)) \/ ConnectionCut
       => client' = client
    BY DEF LoginReads, LoginSaves, LoginFails, Logout, SettingTold, SettingSaved, SelectionWakes, TakesStop,
           Heartbeat, AliveLapses, HealthCheck, Revoke, ConnectionCut
<1>13. UNCHANGED sessionVars => client' = client
    BY DEF sessionVars
<1>14. ASSUME NEW h \in Callers, CallerStep(h) PROVE Ways
    BY <1>14, <1>h, <1>2, <1>3, <1>4, <1>5, <1>6 DEF CallerStep
<1>15. CASE ListenerStep
  <2>1. CASE \E h \in {Starter, Checker} : Asks(h)
      BY <1>h, <1>3, <2>1
  <2>2. CASE \E h \in {Starter, Checker, Handler} : Disables(h) \/ Tells(h)
      BY <1>h, <1>5, <1>6, <2>2
  <2>3. CASE CheckerContent \/ \E h \in {Checker, Handler} : Stops(h)
      BY <1>h, <1>10, <2>3
  <2> QED BY <1>15, <1>1, <1>7, <1>8, <1>l, <1>b, <1>12, <2>1, <2>2, <2>3 DEF ListenerStep
<1> QED BY <1>1, <1>11, <1>12, <1>13, <1>14, <1>15 DEF NextSessions

\* Whom the listener listens to.
LEMMA ListeningSteps == ASSUME SessionInv, [NextSessions]_sessionVars
                        PROVE  listening' # 0 => listening' \in SessionIds /\ session[listening'] # "absent"
<1>1. ListenerStep => listening' \in {listening, 0, client[Starter].sess}
    BY DEF ListenerStep, TakesStart, TakesStop, Started, Heartbeat, CheckerLooks, CheckerContent,
           MessageFails, HandlerBlames, Stops, Asks, Disables, Tells
<1>2. ListenerStep /\ listening' = client[Starter].sess
        => listening' = listening \/ listening' = 0 \/ client[Starter].at = "working"
    BY DEF ListenerStep, TakesStart, TakesStop, Started, Heartbeat, CheckerLooks, CheckerContent,
           MessageFails, HandlerBlames, Stops, Asks, Disables, Tells
<1>3. \A h \in Callers : CallerStep(h) => listening' = listening
    BY DEF CallerStep, CallerOpens, Asks, CallerEnds, Disables, Tells, CallerDies
<1>4. (\E l \in Logins : LoginReads(l) \/ LoginSaves(l) \/ LoginFails(l)) \/ Logout
         \/ (\E value \in {"on", "off"} : SettingTold(value)) \/ SettingSaved \/ SelectionWakes
         \/ AliveLapses \/ HealthCheck \/ ListenerRestarts
         \/ (\E s \in SessionIds : Revoke(s)) \/ ConnectionCut
       => listening' \in {listening, 0}
    BY DEF LoginReads, LoginSaves, LoginFails, Logout, SettingTold, SettingSaved, SelectionWakes,
           AliveLapses, HealthCheck, ListenerRestarts, Revoke, ConnectionCut
<1>5. UNCHANGED sessionVars => listening' = listening
    BY DEF sessionVars
<1>6. listening' \in {listening, 0} \/ (listening' = client[Starter].sess /\ client[Starter].at = "working")
    BY <1>1, <1>2, <1>3, <1>4, <1>5 DEF NextSessions
<1> QED BY <1>6 DEF SessionInv, ClientsHonest, Holders

LEMMA SessionInvStep == SessionInv /\ [NextSessions]_sessionVars => SessionInv'
<1> SUFFICES ASSUME SessionInv, [NextSessions]_sessionVars PROVE SessionInv'
    OBVIOUS
<1>1. RowTypes'
    BY RowsKept, ClientSteps DEF RowTypes, Ways
<1>2. ASSUME NEW h \in Holders, client'[h].at \notin {"idle", "stopping"}
      PROVE  client'[h].sess \in SessionIds /\ session[client'[h].sess] # "absent"
    BY <1>2, ClientSteps DEF Ways, Way, Stays, Quits, Begins, GoesOn, SessionInv, ClientsHonest
<1>3. ASSUME NEW h \in Holders, client'[h].at \in {"failing", "refused"}
      PROVE  client'[h].sess \notin accepted'
               \/ (h = Handler /\ client'[h].astray /\ client'[h].at = "refused")
  <2>1. client'[h].sess \in SessionIds /\ session[client'[h].sess] # "absent"
      BY <1>2, <1>3
  <2>2. \/ client'[h].sess \notin accepted
        \/ h = Handler /\ client'[h].astray /\ client'[h].at = "refused"
      BY <1>3, ClientSteps DEF Ways, Way, Stays, Quits, Begins, GoesOn, SessionInv, ClientsHonest
  <2> QED BY <2>1, <2>2, RowsKept
<1>4. ClientsHonest'
    BY <1>2, <1>3, RowsKept, ListeningSteps DEF ClientsHonest
<1> QED BY <1>1, <1>4, RowsKept DEF SessionInv

\* While no two verifications overlap, get_client never finds two active sessions
\* (services/telegram_client.py save_session, get_client).
THEOREM SessionsStaySingle == SessionSpec => []OneActiveSession
<1>1. SessionInv => OneActiveSession
  <2> SUFFICES ASSUME SessionInv, ~ crossed PROVE Cardinality(Active) <= 1
      BY DEF OneActiveSession
  <2>1. \A s, t \in Active : s = t
      BY DEF SessionInv, OneLogin
  <2>2. CASE Active = {}
      BY <2>2, FS_EmptySet
  <2>3. CASE \E s : Active = {s}
      BY <2>3, FS_Singleton
  <2> QED BY <2>1, <2>2, <2>3
<1> QED BY <1>1, SessionInit, SessionInvStep, PTL DEF SessionSpec

\* A session that Telegram accepts is disabled by a login only, never by the late error
\* of some other client (invalidate_unauthorized_session), but for that of a message's
\* handler that blames the client it finds (_handle_message).
THEOREM AcceptedSessionsStay == SessionSpec => OnlyTheRefused
<1> DEFINE Step == \A s \in SessionIds :
                     session[s] = "active" /\ session'[s] = "inactive" /\ s \in accepted
                       => \/ \E n \in SessionIds : session[n] = "absent" /\ session'[n] = "active"
                          \/ client[Handler].at = "refused" /\ client[Handler].astray
                             /\ client[Handler].sess = s
<1>1. SessionInv /\ [NextSessions]_sessionVars => [Step]_sessionVars
  <2> SUFFICES ASSUME SessionInv, [NextSessions]_sessionVars, NEW s \in SessionIds,
                      session[s] = "active", session'[s] = "inactive", s \in accepted
               PROVE  \/ \E n \in SessionIds : session[n] = "absent" /\ session'[n] = "active"
                      \/ client[Handler].at = "refused" /\ client[Handler].astray
                         /\ client[Handler].sess = s
      OBVIOUS
  <2>1. ASSUME NEW l \in Logins, LoginSaves(l)
        PROVE  \E n \in SessionIds : session[n] = "absent" /\ session'[n] = "active"
      BY <2>1 DEF LoginSaves
  <2>2. ASSUME NEW h \in Holders, Disables(h)
        PROVE  client[Handler].at = "refused" /\ client[Handler].astray /\ client[Handler].sess = s
    <3>1. client[h].at = "refused"
          /\ (client[h].sess \notin accepted \/ (h = Handler /\ client[h].astray))
        BY <2>2 DEF Disables, SessionInv, ClientsHonest
    <3>2. session'[s] = session[s] \/ s \in Targets(h)
        BY <2>2 DEF Disables
    <3> QED BY <3>1, <3>2 DEF Targets
  <2>3. \A l \in Logins : ~ LoginReads(l) /\ ~ LoginFails(l)
      BY DEF LoginReads, LoginFails
  <2>4. ~ Logout /\ ~ RowsRest /\ \A n \in SessionIds : ~ Revoke(n)
      BY DEF Logout, RowsRest, Revoke
  <2>5. ~ UNCHANGED sessionVars
      BY DEF sessionVars
  <2> QED BY <2>1, <2>2, <2>3, <2>4, <2>5, RowSteps
<1> QED BY <1>1, SessionInit, SessionInvStep, PTL DEF SessionSpec, OnlyTheRefused
-----------------------------------------------------------------------------
(* The other variables, and how many commands can wait.  People and the beat   *)
(* wait for room; the others publish two commands at most about a session that *)
(* they have disabled, and nobody disables it again.                           *)

Ended == {"inactive", "deleted"}
Telling(h) == client[h].at = "telling"

\* The disabled sessions whose commands were published, or never will be.
Told == {s \in SessionIds : session[s] \in Ended /\ \A h \in Holders : Telling(h) => client[h].sess # s}

TellersApart ==
    /\ \A h \in Holders : Telling(h) => session[client[h].sess] \in Ended
    /\ \A h, g \in Holders : Telling(h) /\ Telling(g) /\ client[h].sess = client[g].sess => h = g
Commands == inbox \in Seq({"start", "stop"})
InboxBounded == Len(inbox) <= MaxInbox + 1 + 2 * Cardinality(Told)
Settings ==
    /\ realtime \in BOOLEAN /\ crossed \in BOOLEAN /\ linked \in BOOLEAN /\ alive \in BOOLEAN
    /\ listening \in 0..MaxSessions
    /\ setting \in {"idle", "on", "off"}
    /\ trouble \in 0..MaxFaults

TellInv == TellersApart /\ Commands /\ InboxBounded /\ Settings

LEMMA TellInit == InitSessions => TellInv
<1> SUFFICES ASSUME InitSessions PROVE TellInv
    OBVIOUS
<1>1. TellersApart
    BY DEF InitSessions, TellersApart, Telling, Unused
<1>2. Told = {}
    BY DEF InitSessions, Told, Ended
<1>3. Commands /\ InboxBounded
    BY <1>2, FS_EmptySet, SessionConstants DEF InitSessions, Commands, InboxBounded
<1>4. Settings
  <2>1. 0 \in 0..MaxSessions /\ 0 \in 0..MaxFaults
      BY SessionConstants
  <2> QED BY <2>1 DEF InitSessions, Settings
<1> QED BY <1>1, <1>3, <1>4 DEF TellInv

LEMMA ToldIsFinite == ASSUME NEW S \in SUBSET SessionIds
                      PROVE  IsFiniteSet(S) /\ Cardinality(S) \in Nat /\ Cardinality(S) <= MaxSessions
<1>1. IsFiniteSet(SessionIds) /\ Cardinality(SessionIds) = MaxSessions
    BY FS_Interval, SessionConstants DEF SessionIds
<1> QED BY <1>1, FS_Subset, FS_CardinalityType

\* The inbox never holds more than there is room for, but for what Tells adds.
Kept == \/ Len(inbox') <= Len(inbox)
        \/ Len(inbox') <= MaxInbox + 1

LEMMA SettingSteps == ASSUME RowTypes, ClientsHonest, Settings, [NextSessions]_sessionVars PROVE Settings'
<1>f. Fault => trouble' \in 0..MaxFaults
    BY SessionConstants DEF Fault, Settings
<1>z. 0 \in 0..MaxSessions
    BY SessionConstants
<1>1. ASSUME NEW h \in Holders, CallerOpens(h) \/ Asks(h) \/ CallerEnds(h) \/ CallerDies(h)
      PROVE  Settings'
    BY <1>1, <1>f DEF CallerOpens, Asks, CallerEnds, CallerDies, Settings
<1>2. ASSUME NEW h \in Holders, Disables(h) PROVE Settings'
  <2>1. realtime' = realtime \/ realtime' = (realtime /\ Active \ Targets(h) # {})
      BY <1>2 DEF Disables
  <2>2. realtime' \in BOOLEAN
      BY <2>1 DEF Settings
  <2> QED BY <1>2, <2>2 DEF Disables, Settings
<1>3. ASSUME NEW h \in Holders, Tells(h) PROVE Settings'
  <2>1. trouble' = trouble \/ Fault
      BY <1>3 DEF Tells, Publish
  <2> QED BY <1>3, <2>1, <1>f DEF Tells, Settings
<1>4. CASE \E l \in Logins : LoginReads(l) \/ LoginSaves(l) \/ LoginFails(l)
  <2>1. crossed' \in BOOLEAN
      BY <1>4 DEF LoginReads, LoginSaves, LoginFails, Settings
  <2> QED BY <1>4, <2>1 DEF LoginReads, LoginSaves, LoginFails, Settings
<1>5. CASE Logout \/ (\E s \in SessionIds : Revoke(s)) \/ ConnectionCut
    BY <1>5, <1>f DEF Logout, Revoke, ConnectionCut, Settings
<1>6. CASE \E value \in {"on", "off"} : SettingTold(value)
    BY <1>6, <1>f DEF SettingTold, Settings
<1>7. CASE SettingSaved \/ SelectionWakes
  <2>1. realtime' \in BOOLEAN
      BY <1>7 DEF SettingSaved, SelectionWakes
  <2> QED BY <1>7, <2>1, <1>f DEF SettingSaved, SelectionWakes, Settings
<1>8. CASE TakesStart \/ TakesStop \/ Heartbeat \/ CheckerLooks \/ CheckerContent
             \/ MessageFails \/ HandlerBlames \/ \E h \in {Checker, Handler} : Stops(h)
    BY <1>8, <1>z DEF TakesStart, TakesStop, Heartbeat, CheckerLooks, CheckerContent,
       MessageFails, HandlerBlames, Stops, Settings
<1>9. CASE Started
  <2>1. client[Starter].sess \in 0..MaxSessions
      BY DEF RowTypes, ClientState, Holders
  <2> QED BY <1>9, <2>1 DEF Started, Settings
<1>10. CASE AliveLapses
    BY <1>10 DEF AliveLapses, Settings
<1>11. CASE ListenerRestarts
    BY <1>11, <1>f, <1>z DEF ListenerRestarts, Settings
<1>12. CASE HealthCheck
    BY <1>12, <1>f DEF HealthCheck, Publish, Settings
<1>13. CASE UNCHANGED sessionVars
    BY <1>13 DEF sessionVars, Settings
<1>14. CASE ListenerStep
    BY <1>14, <1>1, <1>2, <1>3, <1>8, <1>9 DEF ListenerStep, Holders
<1>15. ASSUME NEW h \in Callers, CallerStep(h) PROVE Settings'
    BY <1>15, <1>1, <1>2, <1>3 DEF CallerStep, Holders
<1> QED BY <1>4, <1>5, <1>6, <1>7, <1>10, <1>11, <1>12, <1>13, <1>14, <1>15 DEF NextSessions
\* A session that is disabled stays so; one whose commands are out is told for good,
\* unless the step disables a session, which is another one.
LEMMA EndedStays == ASSUME SessionInv, [NextSessions]_sessionVars, NEW s \in SessionIds, session[s] \in Ended
                    PROVE  session'[s] \in Ended
<1>1. ASSUME NEW l \in Logins, LoginReads(l) \/ LoginSaves(l) \/ LoginFails(l)
      PROVE  session'[s] \in Ended
  <2>1. CASE LoginReads(l) \/ LoginFails(l)
      BY <2>1 DEF LoginReads, LoginFails
  <2>2. CASE LoginSaves(l)
    <3>1. PICK n \in SessionIds :
            /\ session[n] = "absent"
            /\ session' = [o \in SessionIds |->
                             IF o = n THEN "active"
                             ELSE IF o \in login[l].read /\ session[o] = "active" THEN "inactive"
                             ELSE session[o]]
        BY <2>2 DEF LoginSaves
    <3> QED BY <3>1 DEF Ended
  <2> QED BY <1>1, <2>1, <2>2
<1>2. CASE Logout
    BY <1>2 DEF Logout, Ended
<1>3. ASSUME NEW h \in Holders, Disables(h) PROVE session'[s] \in Ended
    BY <1>3 DEF Disables, Ended
<1>4. CASE RowsRest
    BY <1>4 DEF RowsRest
<1>5. ASSUME NEW n \in SessionIds, Revoke(n) PROVE session'[s] \in Ended
    BY <1>5 DEF Revoke
<1>6. CASE UNCHANGED sessionVars
    BY <1>6 DEF sessionVars
<1> QED BY <1>1, <1>2, <1>3, <1>4, <1>5, <1>6, RowSteps

\* Who is about to tell: those who were, and one who has just disabled its session.
StillTells(h) == Telling(h) /\ client'[h].sess = client[h].sess
Quiet == \A h \in Holders : client'[h].at = "telling" => StillTells(h)
Disabled(h) ==
    /\ session[client[h].sess] = "active" /\ session'[client[h].sess] = "inactive"
    /\ client'[h].sess = client[h].sess /\ ~ Telling(h)
    /\ \A g \in Holders \ {h} : client'[g] = client[g]
    /\ inbox' = inbox

\* One row of clients changes, and does not come to tell.
LEMMA RowQuiet == ASSUME RowTypes, NEW h \in Holders, NEW c, client' = [client EXCEPT ![h] = c], c.at # "telling"
                  PROVE  Quiet
    BY DEF RowTypes, Quiet, StillTells, Telling
LEMMA ClosesQuiet == ASSUME RowTypes, NEW h \in Holders, Closes(h) PROVE Quiet
    BY UnusedState, RowQuiet DEF Closes
LEMMA MovesQuiet == ASSUME RowTypes, NEW h \in Holders, NEW p \in Place \ {"telling"}, Moves(h, p) PROVE Quiet
<1> DEFINE c == [client[h] EXCEPT !.at = p]
<1>1. client' = [client EXCEPT ![h] = c]
    BY DEF Moves
<1>2. c.at = p
    BY DEF RowTypes, ClientState
<1> QED BY <1>1, <1>2, RowQuiet
LEMMA EndsQuiet == ASSUME RowTypes, NEW h \in Holders, Ends(h) PROVE Quiet
<1>1. CASE client' = [client EXCEPT ![h] = Stopping]
    BY <1>1, StoppingState, RowQuiet
<1> QED BY <1>1, ClosesQuiet DEF Ends, Stopping
LEMMA OpensQuiet == ASSUME RowTypes, NEW h \in Holders, NEW s, Opens(h, s) PROVE Quiet
<1> DEFINE c == [Unused EXCEPT !.at = "opening", !.sess = s]
<1>1. client' = [client EXCEPT ![h] = c] /\ c.at # "telling"
    BY DEF Opens, Unused
<1> HIDE DEF c
<1> QED BY <1>1, RowQuiet

LEMMA TellerSteps == ASSUME SessionInv, Commands, [NextSessions]_sessionVars
                     PROVE  \/ Quiet /\ Kept /\ inbox' \in Seq({"start", "stop"})
                            \/ \E h \in Holders : Disabled(h)
                            \/ \E h \in Holders : Tells(h)
<1> DEFINE Calm == Quiet /\ Kept /\ inbox' \in Seq({"start", "stop"})
<1>t. RowTypes
    BY DEF SessionInv
<1>h. Starter \in Holders /\ Checker \in Holders /\ Handler \in Holders /\ Callers \subseteq Holders
    BY DEF Holders
<1>p. {"working", "refused", "stopping"} \subseteq Place \ {"telling"}
    BY DEF Place
<1>i. inbox' = inbox => Kept /\ inbox' \in Seq({"start", "stop"})
    BY DEF Kept, Commands
<1>k. /\ <<>> \in Seq({"start", "stop"}) /\ Len(<<>>) = 0
      /\ <<"start">> \in Seq({"start", "stop"}) /\ Len(<<"start">>) = 1
      /\ <<>> \o <<"start">> = <<"start">>
    OBVIOUS
<1>c. client' = client => Quiet
    BY DEF Quiet, StillTells, Telling
<1>r. ASSUME Room, NEW x \in {"start", "stop"}, Hear(<<x>>)
      PROVE  Kept /\ inbox' \in Seq({"start", "stop"})
    BY <1>r, SessionConstants DEF Room, Hear, Kept, Commands
<1>1. ASSUME NEW h \in Holders, CallerOpens(h) PROVE Calm
    BY <1>1, <1>t, <1>i, OpensQuiet DEF CallerOpens
<1>2. ASSUME NEW h \in Holders, Asks(h) PROVE Calm
    BY <1>2, <1>t, <1>p, <1>i, MovesQuiet DEF Asks
<1>3. ASSUME NEW h \in Holders, CallerEnds(h) \/ CallerDies(h) PROVE Calm
    BY <1>3, <1>t, <1>i, ClosesQuiet DEF CallerEnds, CallerDies
<1>4. ASSUME NEW h \in Holders, Disables(h) PROVE Calm \/ Disabled(h)
  <2>1. client[h].at = "refused" /\ inbox' = inbox
      BY <1>4 DEF Disables
  <2>2. CASE Ends(h)
      BY <1>t, <1>i, <2>1, <2>2, EndsQuiet
  <2>3. CASE /\ Targets(h) # {}
             /\ session' = [s \in SessionIds |-> IF s \in Targets(h) THEN "inactive" ELSE session[s]]
             /\ client' = [client EXCEPT ![h].at = "telling", ![h].again = realtime /\ Active \ Targets(h) # {}]
    <3>1. client[h].sess \in Targets(h) /\ client[h].sess \in Active
        BY <2>3 DEF Targets
    <3>2. session[client[h].sess] = "active" /\ session'[client[h].sess] = "inactive"
        BY <2>3, <3>1 DEF Active
    <3>3. client'[h].sess = client[h].sess /\ \A g \in Holders \ {h} : client'[g] = client[g]
        BY <1>t, <2>3 DEF RowTypes, ClientState
    <3> QED BY <2>1, <3>2, <3>3 DEF Disabled, Telling
  <2> QED BY <1>4, <2>2, <2>3 DEF Disables
<1>5. CASE TakesStart
  <2>1. inbox # <<>> /\ inbox' = Tail(inbox)
      BY <1>5 DEF TakesStart
  <2>2. Kept /\ inbox' \in Seq({"start", "stop"})
      BY <2>1 DEF Kept, Commands
  <2> QED BY <1>5, <1>t, <1>h, <1>c, <2>2, OpensQuiet DEF TakesStart
<1>6. CASE TakesStop
  <2>1. inbox # <<>> /\ inbox' = Tail(inbox) /\ client' = client
      BY <1>6 DEF TakesStop
  <2> QED BY <1>c, <2>1 DEF Kept, Commands
<1>7. CASE Started \/ CheckerContent \/ \E h \in {Checker, Handler} : Stops(h)
    BY <1>7, <1>t, <1>h, <1>i, ClosesQuiet DEF Started, CheckerContent, Stops
<1>l. ASSUME NEW h \in Holders, NEW place \in {"working", "failing"}, LooksAt(h, place) PROVE Quiet
  <2> DEFINE c == [Unused EXCEPT !.at = place, !.sess = listening]
  <2>1. client' = [client EXCEPT ![h] = c] /\ c.at # "telling"
      BY <1>l DEF LooksAt, Unused
  <2> HIDE DEF c
  <2> QED BY <1>t, <2>1, RowQuiet
<1>8. CASE CheckerLooks \/ MessageFails
    BY <1>8, <1>h, <1>i, <1>l DEF CheckerLooks, MessageFails
<1>b. CASE HandlerBlames
  <2>1. inbox' = inbox
      BY <1>b DEF HandlerBlames
  <2>2. CASE listening = 0
      BY <1>b, <1>t, <1>h, <1>i, <2>1, <2>2, ClosesQuiet DEF HandlerBlames
  <2>3. CASE listening # 0
    <3> DEFINE c == [client[Handler] EXCEPT !.at = "refused", !.sess = listening,
                                            !.astray = listening # client[Handler].sess]
    <3>1. client' = [client EXCEPT ![Handler] = c]
        BY <1>b, <1>t, <1>h, <2>3 DEF HandlerBlames, RowTypes
    <3>2. c.at = "refused"
        BY <1>t, <1>h DEF RowTypes, ClientState
    <3> HIDE DEF c
    <3> QED BY <1>t, <1>h, <1>i, <2>1, <3>1, <3>2, RowQuiet
  <2> QED BY <2>2, <2>3
<1>9. CASE ListenerRestarts
  <2>1. Quiet
      BY <1>9, <1>t DEF ListenerRestarts, RowTypes, Quiet, StillTells, Telling, Unused
  <2>2. inbox' = <<"start">> \/ inbox' = <<>>
      BY <1>9 DEF ListenerRestarts
  <2>3. inbox' \in Seq({"start", "stop"}) /\ Len(inbox') <= 1
    <3>1. inbox' = <<"start">> => inbox' \in Seq({"start", "stop"}) /\ Len(inbox') <= 1
        OBVIOUS
    <3>2. inbox' = <<>> => inbox' \in Seq({"start", "stop"}) /\ Len(inbox') <= 1
        OBVIOUS
    <3> QED BY <2>2, <3>1, <3>2
  <2>4. Kept
      BY <2>3, SessionConstants DEF Kept
  <2> QED BY <2>1, <2>3, <2>4
<1>10. CASE HealthCheck
  <2>1. inbox = <<>> /\ client' = client /\ (inbox' = inbox \/ inbox' = inbox \o <<"start">>)
      BY <1>10 DEF HealthCheck, Publish, Hear
  <2>2. inbox' \in Seq({"start", "stop"}) /\ Len(inbox') <= 1
    <3>1. CASE inbox' = inbox
        BY <2>1, <3>1
    <3>2. CASE inbox' = inbox \o <<"start">>
        BY <2>1, <3>2, <1>k
    <3> QED BY <2>1, <3>1, <3>2
  <2>3. Kept
      BY <2>2, SessionConstants DEF Kept
  <2> QED BY <1>c, <2>1, <2>2, <2>3
<1>11. CASE \E value \in {"on", "off"} : SettingTold(value)
    BY <1>11, <1>c, <1>r DEF SettingTold
<1>12. CASE SelectionWakes
    BY <1>12, <1>c, <1>r DEF SelectionWakes
<1>13. (\E l \in Logins : LoginReads(l) \/ LoginSaves(l) \/ LoginFails(l)) \/ Logout \/ SettingSaved
         \/ Heartbeat \/ AliveLapses \/ (\E s \in SessionIds : Revoke(s)) \/ ConnectionCut
       => client' = client /\ inbox' = inbox
    BY DEF LoginReads, LoginSaves, LoginFails, Logout, SettingSaved, Heartbeat, AliveLapses, Revoke,
           ConnectionCut
<1>14. UNCHANGED sessionVars => client' = client /\ inbox' = inbox
    BY DEF sessionVars
<1> HIDE DEF Calm
<1>15. ASSUME NEW h \in Callers, CallerStep(h) PROVE Calm \/ Disabled(h) \/ Tells(h)
    BY <1>15, <1>h, <1>1, <1>2, <1>3, <1>4 DEF CallerStep
<1>16. client' = client /\ inbox' = inbox => Calm
    BY <1>c, <1>i DEF Calm
<1>17. CASE ListenerStep
  <2>1. CASE \E h \in {Starter, Checker} : Asks(h)
      BY <2>1, <1>h, <1>2 DEF Calm
  <2>2. CASE \E h \in {Starter, Checker, Handler} : Disables(h) \/ Tells(h)
      BY <2>2, <1>h, <1>4 DEF Calm
  <2> QED BY <1>17, <1>13, <1>16, <1>5, <1>6, <1>7, <1>8, <1>b, <2>1, <2>2 DEF ListenerStep, Calm
<1>18. Calm \/ (\E h \in Holders : Disabled(h)) \/ \E h \in Holders : Tells(h)
    BY <1>h, <1>9, <1>10, <1>11, <1>12, <1>13, <1>14, <1>15, <1>16, <1>17 DEF NextSessions, Calm
<1> QED BY <1>18 DEF Calm

LEMMA TellStep == SessionInv /\ TellInv /\ [NextSessions]_sessionVars => TellInv'
<1> SUFFICES ASSUME SessionInv, TellInv, [NextSessions]_sessionVars PROVE TellInv'
    OBVIOUS
<1>t. /\ RowTypes /\ ClientsHonest /\ TellersApart /\ Commands /\ InboxBounded /\ Settings
      /\ Len(inbox) \in Nat
    BY DEF SessionInv, TellInv, Commands
<1>n. /\ MaxSessions \in Nat /\ MaxInbox \in Nat /\ Told \in SUBSET SessionIds
      /\ Told' \in SUBSET SessionIds
      /\ Cardinality(Told) \in Nat /\ Cardinality(Told') \in Nat /\ IsFiniteSet(Told')
  <2>1. Told \in SUBSET SessionIds /\ Told' \in SUBSET SessionIds
      BY DEF Told, SessionIds
  <2> QED BY <2>1, ToldIsFinite, SessionConstants
<1>s. \A h \in Holders : Telling(h) => client[h].sess \in SessionIds
    BY <1>t DEF Telling, ClientsHonest
<1>e. \A s \in SessionIds : session[s] \in Ended => session'[s] \in Ended
    BY EndedStays
<1>1. Settings'
    BY <1>t, SettingSteps
<1>m. Told \subseteq Told' => Cardinality(Told) <= Cardinality(Told')
    BY <1>n, FS_Subset
<1>2. CASE Quiet /\ Kept /\ inbox' \in Seq({"start", "stop"})
  <2>1. Told \subseteq Told'
      BY <1>2, <1>e DEF Told, Quiet, StillTells, Telling
  <2>2. TellersApart'
      BY <1>2, <1>e, <1>s, <1>t DEF TellersApart, Quiet, StillTells, Telling
  <2>3. Len(inbox') \in Nat
      BY <1>2
  <2>4. InboxBounded'
      BY <1>2, <1>t, <1>n, <1>m, <2>1, <2>3 DEF Kept, InboxBounded
  <2> QED BY <1>1, <1>2, <2>2, <2>4 DEF TellInv, Commands
<1>3. ASSUME NEW h \in Holders, Disabled(h) PROVE TellInv'
  <2>1. \A g \in Holders \ {h} : client'[g] = client[g]
      BY <1>3 DEF Disabled
  <2>2. \A g \in Holders : Telling(g) => g # h /\ client[g].sess # client[h].sess
      BY <1>3, <1>t DEF Disabled, TellersApart, Ended
  <2>3. Told \subseteq Told'
    <3>1. client[h].sess \notin Told
        BY <1>3 DEF Disabled, Told, Ended
    <3> QED BY <1>3, <1>e, <2>1, <3>1 DEF Told, Disabled, Telling
  <2>4. \A g \in Holders : client'[g].at = "telling" => session'[client'[g].sess] \in Ended
      BY <1>3, <1>e, <1>s, <1>t, <2>1 DEF Disabled, Telling, TellersApart, Ended
  <2>5. ASSUME NEW g \in Holders, NEW k \in Holders, client'[g].at = "telling", client'[k].at = "telling",
               client'[g].sess = client'[k].sess
        PROVE  g = k
      BY <1>3, <1>t, <2>1, <2>2, <2>5 DEF Disabled, Telling, TellersApart
  <2>6. TellersApart'
      BY <2>4, <2>5 DEF TellersApart, Telling
  <2>7. inbox' = inbox
      BY <1>3 DEF Disabled
  <2>8. InboxBounded' /\ Commands'
      BY <1>t, <1>n, <1>m, <2>3, <2>7 DEF InboxBounded, Commands
  <2> QED BY <1>1, <2>6, <2>8 DEF TellInv
<1>4. ASSUME NEW h \in Holders, Tells(h) PROVE TellInv'
  <2> DEFINE s == client[h].sess
  <2>1. /\ Telling(h) /\ s \in SessionIds /\ session[s] \in Ended /\ s \notin Told
        /\ session' = session
      BY <1>4, <1>s, <1>t DEF Tells, Telling, TellersApart, Told
  <2>2. /\ client'[h].at # "telling"
        /\ \A g \in Holders \ {h} : client'[g] = client[g]
    <3>1. \/ client' = [client EXCEPT ![h] = Stopping]
          \/ client' = [client EXCEPT ![h] = Unused]
        BY <1>4 DEF Tells, Ends, Closes, Stopping
    <3> QED BY <1>t, <3>1, UnusedState, StoppingState DEF RowTypes
  <2>3. s \in Told'
      BY <1>t, <2>1, <2>2 DEF Told, Telling, TellersApart
  <2>4. Told \cup {s} \subseteq Told'
      BY <1>e, <2>2, <2>3 DEF Told, Telling
  <2>5. Cardinality(Told) + 1 <= Cardinality(Told')
    <3>1. IsFiniteSet(Told) /\ Cardinality(Told \cup {s}) = Cardinality(Told) + 1
        BY <1>n, <2>1, ToldIsFinite, FS_AddElement
    <3> QED BY <1>n, <2>4, <3>1, FS_Subset
  <2>6. TellersApart'
      BY <1>t, <2>1, <2>2 DEF TellersApart, Telling
  <2>7. \/ inbox' = inbox
        \/ inbox' = inbox \o <<"stop", "start">> \/ inbox' = inbox \o <<"stop">>
      BY <1>4 DEF Tells, Publish, Hear
  <2>8. inbox' \in Seq({"start", "stop"}) /\ Len(inbox') \in Nat /\ Len(inbox') <= Len(inbox) + 2
    <3>1. CASE inbox' = inbox
        BY <1>t, <3>1 DEF Commands
    <3>2. CASE inbox' = inbox \o <<"stop", "start">>
        BY <1>t, <3>2 DEF Commands
    <3>3. CASE inbox' = inbox \o <<"stop">>
        BY <1>t, <3>3 DEF Commands
    <3> QED BY <2>7, <3>1, <3>2, <3>3
  <2>9. InboxBounded'
      BY <1>t, <1>n, <2>5, <2>8 DEF InboxBounded
  <2> QED BY <1>1, <2>6, <2>8, <2>9 DEF TellInv, Commands
<1> QED BY <1>t, <1>2, <1>3, <1>4, TellerSteps

\* The rows, clients and commands are what the code can write, and a disabled session
\* costs two commands at most: whoever comes later finds it disabled
\* (invalidate_unauthorized_session) and publishes nothing.
THEOREM SessionTypesAlways == SessionSpec => []SessionTypeOK
<1>1. SessionInv /\ TellInv => SessionTypeOK
  <2> SUFFICES ASSUME SessionInv, TellInv PROVE SessionTypeOK
      OBVIOUS
  <2>1. Cardinality(Told) \in Nat /\ Cardinality(Told) <= MaxSessions
      BY ToldIsFinite DEF Told
  <2>2. inbox \in Seq({"start", "stop"}) /\ Len(inbox) <= MaxInbox + 1 + 2 * MaxSessions
    <3>1. Len(inbox) \in Nat /\ Len(inbox) <= MaxInbox + 1 + 2 * Cardinality(Told)
        BY DEF TellInv, Commands, InboxBounded
    <3> QED BY <2>1, <3>1, SessionConstants DEF TellInv, Commands
  <2>3. /\ session \in [SessionIds -> {"absent", "active", "inactive", "deleted"}]
        /\ accepted \subseteq SessionIds
        /\ login \in [Logins -> [open : BOOLEAN, read : SUBSET SessionIds]]
        /\ client \in [Holders -> [at : {"idle", "opening", "working", "failing", "refused",
                                         "telling", "stopping"},
                                   sess : 0..MaxSessions, again : BOOLEAN, astray : BOOLEAN]]
      BY DEF SessionInv, RowTypes, SessionStates, ClientState, Place
  <2>4. Settings
      BY DEF TellInv
  <2> QED BY <2>2, <2>3, <2>4 DEF SessionTypeOK, Settings
<1>2. SessionInv /\ TellInv /\ [NextSessions]_sessionVars => (SessionInv /\ TellInv)'
    BY SessionInvStep, TellStep
<1> QED BY <1>1, <1>2, SessionInit, TellInit, PTL DEF SessionSpec
=============================================================================
