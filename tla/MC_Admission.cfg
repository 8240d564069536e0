\* Two servers, one with one permit and one with two; two clients with
\* one-line scripts; enough accept errors for one server to exit.
CONSTANTS
    A = A
    B = B
    c1 = c1
    c2 = c2
    none = none
    x = x
    y = y
    Servers <- MC_Servers
    Clients <- MC_Clients
    NoServer <- none
    Addr <- MC_Addr
    ObjectIds <- MC_ObjectIds
    ScriptLines <- MC_ScriptLines
    MaxConnections <- MC_MaxUneven
    Lines = 1
    MaxAcceptErrors = 5

SPECIFICATION Spec
INVARIANTS TypeOK SyncDispatchedAsSent
PROPERTIES PoolRefinement SyncAnswered
CHECK_DEADLOCK FALSE
