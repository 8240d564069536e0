CONSTANTS
    A = A  B = B  C = C  x = x  y = y  t1 = t1  t2 = t2  g1 = g1  g2 = g2
    Servers <- MC_Servers
    Ids <- MC_Ids
    Tasks <- MC_Tasks
    SyncOf <- MC_OneSync
    SizeOf <- MC_SizesBig
    MaxIdsPerReq = 2
    MaxNetFailures = 1
    MaxAppOps = 0
    MaxSyncs = 2
    MaxStoreErrors = 1
    InitStore <- MC_InitStore
SPECIFICATION Spec
CHECK_DEADLOCK FALSE
INVARIANTS
    StreamWellFormed
    StoreErrorsAttributed
PROPERTIES
    SyncCompletes
