\* Both servers with one permit; two clients with one-line scripts; no
\* accept errors.  SyncAnswered is expected to fail: each server's permit
\* held by a SYNC whose peer connection waits in the other's backlog.
CONSTANTS
    A = A
    B = B
    c1 = c1
    c2 = c2
    none = none
    x = x
    y = y
    Servers <- MC_Servers
    Clients <- MC_Clients
    NoServer <- none
    Addr <- MC_Addr
    ObjectIds <- MC_ObjectIds
    ScriptLines <- MC_ScriptLines
    MaxConnections <- MC_MaxOne
    Lines = 1
    MaxAcceptErrors = 0

SPECIFICATION Spec
PROPERTY SyncAnswered
CHECK_DEADLOCK FALSE
