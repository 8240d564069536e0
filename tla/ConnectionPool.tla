--------------------------- MODULE ConnectionPool ---------------------------
(***************************************************************************)
(* What the listener of a plasma-stream server promises about the          *)
(* connections it serves (server/listener.rs, the comment on               *)
(* limit_connections): while the server runs, at most MaxConnections       *)
(* connections are being processed at once; a connection is admitted only *)
(* by a running server and leaves when its processing ends; when the       *)
(* server process ends, every connection it was processing ends with it.   *)
(*                                                                         *)
(* Admission.tla is shown to implement this specification.                 *)
(***************************************************************************)
EXTENDS Naturals, FiniteSets

CONSTANTS
    Servers,         \* the server processes
    Conns,           \* connection identities
    MaxConnections   \* MaxConnections[s]: --max-connections of server s

VARIABLES
    admitted,   \* admitted[s]: the connections server s is processing
    up          \* the servers whose process is still running

poolVars == <<admitted, up>>

PoolTypeOK ==
    /\ admitted \in [Servers -> SUBSET Conns]
    /\ up \subseteq Servers

Init ==
    /\ admitted = [s \in Servers |-> {}]
    /\ up = Servers

\* A running server with a free slot starts processing connection k.
Admit(s, k) ==
    /\ s \in up
    /\ k \notin admitted[s]
    /\ Cardinality(admitted[s]) < MaxConnections[s]
    /\ admitted' = [admitted EXCEPT ![s] = @ \cup {k}]
    /\ UNCHANGED up

\* The processing of connection k ends and its slot is free again.
Leave(s, k) ==
    /\ k \in admitted[s]
    /\ admitted' = [admitted EXCEPT ![s] = @ \ {k}]
    /\ UNCHANGED up

\* The server process ends, and with it every connection it processes.
Shutdown(s) ==
    /\ s \in up
    /\ up' = up \ {s}
    /\ admitted' = [admitted EXCEPT ![s] = {}]

Next == \E s \in Servers :
            \/ Shutdown(s)
            \/ \E k \in Conns : Admit(s, k) \/ Leave(s, k)

Spec == Init /\ [][Next]_poolVars
=============================================================================
