SPECIFICATION Spec
CONSTANTS
    MaxSessions = 2
    Logins = {l1, l2}
    Callers = {c1}
    MaxBusy = 1
    MaxInbox = 1
    MaxFaults = 2
    MayBeCut = FALSE
    Notes = {m1}
    Kinds = {"live", "media"}
    Posters = {p1, p2}
    Endpoints = {e1, e2}
    BatchLimit = 2
    MaxRefusals = 2
    Runners = {r1, r2}
    ErrorLimit = 3
    MaxQueued = 2
    MaxUpsets = 3
    Writers = {w1, w2}
    MaxTexts = 3
    MaxLost = 1
INVARIANT ServicesTypeOK
INVARIANT OneActiveSession
INVARIANT DeliveredIsQuiet
INVARIANT SentIsStored
PROPERTY OnlyTheRefused
PROPERTY ListenerComesBack
PROPERTY EventsArrive
PROPERTY GivesUp
CHECK_DEADLOCK FALSE
