----------------------------- MODULE WireCodec -----------------------------
(***************************************************************************)
(* The fixed-width fields of the plasma-stream wire format: the object     *)
(* header (server/sender.rs send_object, server/receiver.rs                *)
(* read_object_header) and the length prefix of an object-id list          *)
(* (request.rs write_object_id_list, read_object_id_list).  One writer     *)
(* puts a header or a list on the wire, one reader takes it off.           *)
(*                                                                         *)
(* Field widths are parameters so that TLC can enumerate every value: the  *)
(* code's 16-bit metadata size, 48-bit data size and 16-bit list length    *)
(* become MetaBits, DataBits and LenBits, and each limit keeps its         *)
(* relation to its field (MAX_META_SIZE = 2^16 = 2^MetaBits,               *)
(* MAX_DATA_SIZE = 2^44 = 2^(DataBits - 4), MAX_OBJECT_ID_LIST_LEN = 2^16  *)
(* = 2^LenBits).                                                            *)
(***************************************************************************)
EXTENDS Naturals, Sequences, Bitwise, Functions

CONSTANTS
    MetaBits,     \* width of the metadata-size field of a header
    DataBits,     \* width of the data-size field of a header
    MaxMetaSize,  \* MAX_META_SIZE
    MaxDataSize,  \* MAX_DATA_SIZE
    LenBits,      \* width of the length prefix of an object-id list
    MaxIdListLen, \* MAX_OBJECT_ID_LIST_LEN
    IdVals        \* object ids

HeaderBits == MetaBits + DataBits   \* the u64 header

VARIABLES
    wire,   \* what the writer put on the stream and the reader has not taken
    sent,   \* the value the writer encoded
    got     \* the value the reader decoded

vars == <<wire, sent, got>>

None == [kind |-> "none", meta |-> 0, data |-> 0, ids |-> <<>>]
HeaderVal(m, d) == [kind |-> "header", meta |-> m, data |-> d, ids |-> <<>>]
IdsVal(l) == [kind |-> "ids", meta |-> 0, data |-> 0, ids |-> l]

-----------------------------------------------------------------------------
(* The codec *)

\* send_object: header = meta_size | (data_size << 16), written as a u64.
EncodeHeader(meta, data) == (meta | (data * 2^MetaBits)) % 2^HeaderBits

\* read_object_header: meta_size = header as u16, data_size = header >> 16.
DecodeMeta(h) == h % 2^MetaBits
DecodeData(h) == h \div 2^MetaBits

\* write_object_id_list: the length as u16, then the ids.
EncodeIdList(l) == <<Len(l) % 2^LenBits>> \o l

\* read_object_id_list: the length, then that many ids; what follows is left
\* on the stream for the next read.
DecodeIdList(w) == SubSeq(w, 2, 1 + w[1])

\* Request::validate of a COPY or TAKE and PeerRequest::validate, with the
\* duplicate check of Request::validate.
ValidIdList(l) == Len(l) \in 1..MaxIdListLen /\ IsInjective(l)

\* Id lists with at most MaxIdListLen distinct ids.
IdLists == UNION {{l \in [1..n -> IdVals] : IsInjective(l)} : n \in 1..MaxIdListLen}

-----------------------------------------------------------------------------
(* Writer and reader *)

Init == wire = <<>> /\ sent = None /\ got = None

\* The sender writes the header of an object whose sizes passed
\* check_object_sizes (and the asserts in send_object).
send_object_header(meta, data) ==
    /\ sent = None
    /\ meta <= MaxMetaSize /\ data <= MaxDataSize
    /\ wire' = <<EncodeHeader(meta, data)>>
    /\ sent' = HeaderVal(meta, data)
    /\ UNCHANGED got

read_object_header ==
    /\ sent.kind = "header" /\ got = None
    /\ got' = HeaderVal(DecodeMeta(wire[1]), DecodeData(wire[1]))
    /\ wire' = Tail(wire)
    /\ UNCHANGED sent

\* A client (Client::sync) or a receiver (process_peer_request) writes a
\* request whose id list passed validation.
write_object_id_list(l) ==
    /\ sent = None
    /\ ValidIdList(l)
    /\ wire' = EncodeIdList(l)
    /\ sent' = IdsVal(l)
    /\ UNCHANGED got

read_object_id_list ==
    /\ sent.kind = "ids" /\ got = None
    /\ got' = IdsVal(DecodeIdList(wire))
    /\ wire' = SubSeq(wire, 2 + wire[1], Len(wire))
    /\ UNCHANGED sent

Next ==
    \/ \E m \in 0..MaxMetaSize, d \in 0..MaxDataSize : send_object_header(m, d)
    \/ read_object_header
    \/ \E l \in IdLists : write_object_id_list(l)
    \/ read_object_id_list

Spec == Init /\ [][Next]_vars

-----------------------------------------------------------------------------
(* Properties *)

\* The receiver reads back the metadata and data sizes of every object the
\* sender accepted (send_object encode, read_object_header decode).
HeaderRoundTrip ==
    got.kind = "header" => got.meta = sent.meta /\ got.data = sent.data

\* The reader of a request gets back every object-id list that validation
\* accepted, and nothing of it is left on the stream
\* (write_object_id_list, read_object_id_list).
IdListRoundTrip ==
    got.kind = "ids" => got.ids = sent.ids /\ wire = <<>>
=============================================================================
