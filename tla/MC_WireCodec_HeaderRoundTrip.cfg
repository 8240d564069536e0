CONSTANTS
    a = a  b = b  c = c  d = d
    MetaBits = 2
    DataBits = 6
    LenBits = 2
    MaxMetaSize <- MC_MaxMetaSize
    MaxDataSize <- MC_MaxDataSize
    MaxIdListLen <- MC_MaxIdListLen
    IdVals <- MC_IdVals
SPECIFICATION Spec
CHECK_DEADLOCK FALSE
INVARIANT
    HeaderRoundTrip
