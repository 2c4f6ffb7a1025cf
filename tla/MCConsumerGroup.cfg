\* Two requests at a time, up to three members, one or two topics.
SPECIFICATION FairSpec
CONSTANTS
    c1 = c1  c2 = c2
    Subs = {1, 2, 3}
    Calls = {c1, c2}
    Deployments <- MCDeployments
INVARIANTS
    GroupSound
    SessionsSound
PROPERTIES
    OnlyLeaveEndsStreams
    GroupSettles
CHECK_DEADLOCK FALSE
