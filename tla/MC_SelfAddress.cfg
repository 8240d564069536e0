CONSTANTS
    A = A  B = B  C = C  x = x  y = y  t1 = t1  t2 = t2  g1 = g1  g2 = g2
    Servers <- MC_Servers
    Ids <- MC_Ids
    Tasks <- MC_Tasks
    SyncOf <- MC_SyncOf
    SizeOf <- MC_SizesOk
    MaxIdsPerReq = 1
    MaxNetFailures = 0
    MaxAppOps = 0
    MaxSyncs = 1
    MaxStoreErrors = 0
    InitStore <- MC_InitStore
SPECIFICATION Spec
CHECK_DEADLOCK FALSE
INVARIANT
    SyncAlwaysAnswered
