---------------------------- MODULE MC_Admission ----------------------------
(* Admission instantiated for TLC: two servers, two clients. *)
EXTENDS Admission

CONSTANTS A, B, c1, c2, none, x, y

MC_Servers == {A, B}
MC_Clients == {c1, c2}

\* A server with one permit and one with two.
MC_MaxUneven == [s \in MC_Servers |-> IF s = A THEN 1 ELSE 2]

\* Both servers with one permit.
MC_MaxOne == [s \in MC_Servers |-> 1]

\* Each server listens on port 2021 of one IPv4 address.
MC_Addr == [s \in MC_Servers |->
              [family |-> "V4", port |-> 2021,
               ip |-> IF s = A THEN <<10, 0, 0, 1>> ELSE <<10, 0, 0, 2>>]]

\* An IPv6 address ([::1]:2021) and a token that is no socket address.
V6Addr == [family |-> "V6", port |-> 2021, ip |-> [i \in 1 .. 16 |-> IF i = 16 THEN 1 ELSE 0]]
BadAddr == [family |-> "none", port |-> 0, ip |-> <<>>]

\* x hex-decodes to 20 bytes; y does not.
MC_ObjectIds == {x}

\* Script lines: a COPY from A, a TAKE from B, a COPY from the IPv6
\* address, a COPY listing x twice, and lines that do not parse.
MC_ScriptLines ==
    {[verb |-> "COPY", addr |-> MC_Addr[A], ids |-> <<x>>],
     [verb |-> "take", addr |-> MC_Addr[B], ids |-> <<x>>],
     [verb |-> "copy", addr |-> V6Addr, ids |-> <<x>>],
     [verb |-> "COPY", addr |-> MC_Addr[A], ids |-> <<x, x>>],
     [verb |-> "COPY", addr |-> BadAddr, ids |-> <<x>>],
     [verb |-> "TAKE", addr |-> MC_Addr[B], ids |-> <<y>>],
     [verb |-> "MOVE", addr |-> MC_Addr[B], ids |-> <<x>>]}
=============================================================================
