SPECIFICATION Spec
CONSTANTS
    r1 = r1  r2 = r2
    Request = {r1, r2}
    k1 = k1  k2 = k2  k3 = k3
    Key = {k1, k2, k3}
    c1 = c1  c2 = c2
    Challenge = {c1, c2}
    Limit = 2
    Window = 1
    MaxKeys = 2
    Ttl = 1
    MaxUsed = 1
    NoKey = NoKey
    NoChallenge = NoChallenge
    Loads <- MCLoads
    server = server  loop = loop
    Component = {server, loop}
    Server = server
    MaxCrashes = 1
CHECK_DEADLOCK FALSE
INVARIANTS
    TypeOK
    SolutionOnce
PROPERTIES
    ExhaustedStaysShut
    StopEndsEverything
