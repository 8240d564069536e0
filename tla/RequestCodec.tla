---------------------------- MODULE RequestCodec ----------------------------
(***************************************************************************)
(* The request frames of the plasma-stream wire protocol (request.rs):     *)
(* Request::write_into and Request::read_from for SYNC, COPY and TAKE, the *)
(* PeerRequests of a SYNC, socket addresses and object-id lists, and       *)
(* Request::validate.  A frame is a sequence of bytes (naturals below 256) *)
(* in which an object id, 20 bytes on the wire, is one element: the reader *)
(* takes ids whole (read_exact of num_ids * OBJECT_ID_BYTES).              *)
(*                                                                         *)
(* A request is a record [type, peers, objects]; a PeerRequest is          *)
(* [kind, from, objects]; a socket address is [family, port, ip], ip the   *)
(* sequence of its octets.  A reader returns [ok, val, rest] or [ok, err]. *)
(***************************************************************************)
EXTENDS Naturals, Sequences, SequencesExt

SYNC_TYPE_ID == 1
COPY_TYPE_ID == 2
TAKE_TYPE_ID == 3
IPV4_TYPE_ID == 4
IPV6_TYPE_ID == 6

MAX_OBJECT_ID_LIST_LEN == 65536   \* lib.rs
MAX_NUM_SYNC_PEERS == 1024        \* lib.rs

TypeId(t) == CASE t = "SYNC" -> SYNC_TYPE_ID [] t = "COPY" -> COPY_TYPE_ID [] t = "TAKE" -> TAKE_TYPE_ID
TypeName(t) == IF t = COPY_TYPE_ID THEN "COPY" ELSE "TAKE"

Ok(v, w) == [ok |-> TRUE, val |-> v, rest |-> w]
Err(e) == [ok |-> FALSE, err |-> e]

\* The stream after its first n bytes.
Skip(w, n) == SubSeq(w, n + 1, Len(w))

-----------------------------------------------------------------------------
(* Writers *)

\* write_u16_le of a value cast `as u16`.
U16le(n) == <<n % 256, (n \div 256) % 256>>

\* write_object_id_list: the length as u16, then the ids.
WriteObjectIdList(l) == U16le(Len(l)) \o l

\* write_peer_addr: the family tag, the port, then ip().octets().
WritePeerAddr(a) ==
    <<IF a.family = "V4" THEN IPV4_TYPE_ID ELSE IPV6_TYPE_ID>>
        \o U16le(a.port) \o a.ip

\* PeerRequest::write_into.
WritePeerRequest(p) ==
    <<TypeId(p.kind)>> \o WritePeerAddr(p.from) \o WriteObjectIdList(p.objects)

\* Request::write_into: a SYNC writes the number of peer requests as u16 and
\* each of them; a COPY or TAKE writes its id list.
WriteRequest(r) ==
    <<TypeId(r.type)>> \o
        IF r.type = "SYNC"
        THEN U16le(Len(r.peers))
                 \o FlattenSeq([i \in DOMAIN r.peers |-> WritePeerRequest(r.peers[i])])
        ELSE WriteObjectIdList(r.objects)

-----------------------------------------------------------------------------
(* Readers *)

Eof == Err("UnexpectedEof")

ReadU16le(w) == w[1] + 256 * w[2]

\* read_u32_le.
ReadU32le(w) == w[1] + 256 * w[2] + 65536 * w[3] + 16777216 * w[4]

\* Mutant: the octets taken from the most significant byte down.
ReadIpv4Address_big_endian(w) ==
    LET a == ReadU32le(w) IN
    <<(a \div 16777216) % 256, (a \div 65536) % 256, (a \div 256) % 256, a % 256>>

\* read_ipv4_address: Ipv4Addr::new(a as u8, (a >> 8) as u8, (a >> 16) as u8,
\* (a >> 24) as u8) of the u32 read.
ReadIpv4Address(w) ==
    LET a == ReadU32le(w) IN
    <<a % 256, (a \div 256) % 256, (a \div 65536) % 256, (a \div 16777216) % 256>>

\* read_socket_addr: family tag and port, then the address; an IPv6 address
\* reaches read_ipv6_address, which is unimplemented!() and panics.
ReadSocketAddr(w) ==
    IF Len(w) < 3 THEN Eof
    ELSE LET port == ReadU16le(Skip(w, 1))
             r == Skip(w, 3)
         IN CASE w[1] = IPV4_TYPE_ID ->
                   IF Len(r) < 4 THEN Eof
                   ELSE Ok([family |-> "V4", port |-> port,
                            ip |-> ReadIpv4Address(r)], Skip(r, 4))
              [] w[1] = IPV6_TYPE_ID -> Err("unimplemented")
              [] OTHER -> Err("InvalidPeerAddressType")

\* read_object_id_list: the u16 length, then that many ids.
ReadObjectIdList(w) ==
    IF Len(w) < 2 \/ Len(w) < 2 + ReadU16le(w) THEN Eof
    ELSE Ok(SubSeq(w, 3, 2 + ReadU16le(w)), Skip(w, 2 + ReadU16le(w)))

\* PeerRequest::read_from.
ReadPeerRequest(w) ==
    IF w = <<>> THEN Eof
    ELSE IF Head(w) \notin {COPY_TYPE_ID, TAKE_TYPE_ID} THEN Err("InvalidPeerRequestType")
    ELSE LET a == ReadSocketAddr(Tail(w)) IN
         IF ~a.ok THEN a
         ELSE LET l == ReadObjectIdList(a.rest) IN
              IF ~l.ok THEN l
              ELSE Ok([kind |-> TypeName(Head(w)), from |-> a.val, objects |-> l.val],
                      l.rest)

\* The loop of Request::read_from over num_peer_requests; `?` stops it at
\* the first error.
RECURSIVE ReadPeerRequests(_, _, _)
ReadPeerRequests(n, w, acc) ==
    IF n = 0 THEN Ok(acc, w)
    ELSE LET p == ReadPeerRequest(w) IN
         IF ~p.ok THEN p ELSE ReadPeerRequests(n - 1, p.rest, Append(acc, p.val))

\* Request::read_from of a stream holding at least the type byte (an empty
\* stream at end of file is Ok(None), which the handler tests first).
ReadRequest(w) ==
    LET r == Tail(w) IN
    CASE Head(w) = SYNC_TYPE_ID ->
           IF Len(r) < 2 THEN Eof
           ELSE LET ps == ReadPeerRequests(ReadU16le(r), Skip(r, 2), <<>>) IN
                IF ~ps.ok THEN ps
                ELSE Ok([type |-> "SYNC", peers |-> ps.val, objects |-> <<>>], ps.rest)
      [] Head(w) \in {COPY_TYPE_ID, TAKE_TYPE_ID} ->
           LET l == ReadObjectIdList(r) IN
           IF ~l.ok THEN l
           ELSE Ok([type |-> TypeName(Head(w)), peers |-> <<>>, objects |-> l.val], l.rest)
      [] OTHER -> Err("InvalidRequestType")

-----------------------------------------------------------------------------
(* Validation *)

\* An id list neither empty nor longer than MAX_OBJECT_ID_LIST_LEN
\* (PeerRequest::validate, and the length checks of Request::validate).
IdListLenOk(l) == Len(l) \in 1 .. MAX_OBJECT_ID_LIST_LEN

\* Request::validate: a SYNC has 1..MAX_NUM_SYNC_PEERS valid peer requests
\* whose incoming objects are all distinct; a COPY or TAKE has a valid id
\* list with no duplicate.
ValidRequest(r) ==
    IF r.type = "SYNC"
    THEN /\ Len(r.peers) \in 1 .. MAX_NUM_SYNC_PEERS
         /\ \A i \in DOMAIN r.peers : IdListLenOk(r.peers[i].objects)
         /\ IsInjective(FlattenSeq([i \in DOMAIN r.peers |-> r.peers[i].objects]))
    ELSE IdListLenOk(r.objects) /\ IsInjective(r.objects)
=============================================================================
