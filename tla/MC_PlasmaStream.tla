--------------------------- MODULE MC_PlasmaStream ---------------------------
(* Instantiation of PlasmaStream for TLC: two servers, two object ids, two  *)
(* peer-request slots.                                                      *)
EXTENDS PlasmaStream

CONSTANTS A, B, C, x, y, t1, t2, g1, g2

MC_Servers == {A, B}
MC_Servers3 == {A, B, C}
MC_Ids == {x, y}
MC_Tasks == {t1, t2}

\* Each slot is its own SYNC connection: the two tasks can name the same ids.
MC_SyncOf == [t \in MC_Tasks |-> IF t = t1 THEN g1 ELSE g2]
\* One SYNC with two peer requests (ids disjoint by Request::validate).
MC_OneSync == [t \in MC_Tasks |-> g1]

\* Both objects start at A; other stores get objects by transfer or AppCreate.
MC_InitStore == [s \in MC_Servers |-> IF s = A THEN MC_Ids ELSE {}]
MC_InitStore3 == [s \in MC_Servers3 |-> IF s = A THEN MC_Ids ELSE {}]

MC_SizesOk   == [o \in MC_Ids |-> "ok"]
MC_SizesZero == [o \in MC_Ids |-> IF o = x THEN "ok" ELSE "zero"]
MC_SizesBig  == [o \in MC_Ids |-> IF o = x THEN "ok" ELSE "big"]
=============================================================================
