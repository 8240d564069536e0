---------------------------- MODULE MC_WireCodec ----------------------------
(* WireCodec with the code's field widths scaled down: 2-bit metadata size, *)
(* 6-bit data size, 2-bit list length; each limit keeps its relation to   *)
(* its field width.                                                         *)
EXTENDS WireCodec

CONSTANTS a, b, c, d

MC_IdVals == {a, b, c, d}
MC_MaxMetaSize == 2^2        \* MAX_META_SIZE = 2^16, the field is 16 bits
MC_MaxDataSize == 2^(6 - 4)  \* MAX_DATA_SIZE = 2^44, the field is 48 bits
MC_MaxIdListLen == 2^2       \* MAX_OBJECT_ID_LIST_LEN = 2^16, the field is 16 bits
=============================================================================
