---------------------------- MODULE PlasmaStream ----------------------------
(***************************************************************************)
(* The object-transfer engine of plasma-stream: SYNC fan-out              *)
(* (server/dispatcher.rs), the object receiver (server/receiver.rs), the  *)
(* object sender run by a peer's connection handler (server/sender.rs,    *)
(* server/handler.rs), the per-server coordination sets `receiving` and   *)
(* `deleting` (server/store.rs) and the part of the Plasma store they use *)
(* (plasma-store/src/lib.rs).                                              *)
(*                                                                         *)
(* Every task t is one PeerRequest of a SYNC.  Its receiver runs on the    *)
(* server the client asked (req[t].to); its sender runs on the peer        *)
(* (req[t].from) in the handler of the connection the receiver opened.     *)
(* chan[t] is that TCP stream, from sender to receiver.                    *)
(***************************************************************************)
EXTENDS Naturals, Sequences, FiniteSets, SequencesExt, Functions

CONSTANTS
    Servers,        \* plasma-stream servers, each with its own Plasma store
    Ids,            \* object ids
    Tasks,          \* peer-request slots
    SyncOf,         \* SyncOf[t]: the SYNC (client connection) task t is part of
    SizeOf,         \* SizeOf[o]: data size of object o: "ok", "zero" or "big"
    MaxIdsPerReq,   \* bound on the length of one object-id list
    MaxNetFailures, \* bound on failed connects plus broken streams
    MaxAppOps,      \* bound on calls made by other clients of a Plasma store
    MaxSyncs,       \* bound on SYNC requests clients send
    MaxStoreErrors, \* bound on Plasma store calls that return an error
    InitStore       \* InitStore[s]: the ids sealed in the store of s at start

Syncs == Range(SyncOf)

ASSUME SizeOf \in [Ids -> {"ok", "zero", "big"}]
ASSUME InitStore \in [Servers -> SUBSET Ids]
ASSUME MaxIdsPerReq \in 1..Cardinality(Ids)
ASSUME {MaxNetFailures, MaxAppOps, MaxSyncs, MaxStoreErrors} \subseteq Nat

VARIABLES
    store,      \* store[s][o]: "absent", "unsealed" or "sealed"
    pendingDel, \* pendingDel[s]: the Plasma client's deferred deletions
    receiving,  \* receiving[s]: Store::receiving of server s
    deleting,   \* deleting[s]: Store::deleting of server s
    sync,       \* sync[g]: "idle" or "running" (Dispatcher::run)
    response,   \* response[g]: what the last SYNC of g wrote to the client
    req,        \* req[t]: the PeerRequest of task t and the server running it
    rcv,        \* rcv[t]: progress of process_peer_request / ObjectReceiver
    ri,         \* ri[t]: index of the object the receiver is reading
    created,    \* created[t]: ids the receiver of t created (history)
    result,     \* result[t]: the response code of task t
    snd,        \* snd[t]: progress of the peer's handler / ObjectSender
    si,         \* si[t]: index of the next object the sender writes
    chan,       \* chan[t]: messages in flight from sender to receiver
    broken,     \* broken[t]: the network broke the stream of t
    failures,   \* network failures so far
    appOps,     \* calls by other Plasma clients so far
    everSealed, \* ids that were ever sealed in some store (history)
    appDeleted, \* ids some other Plasma client deleted (history)
    storeErrors,\* Plasma store calls that failed so far
    storeFailed,\* storeFailed[t]: servers whose store call for t returned
                \* an error, AlreadyExists included (history)
    syncs       \* SYNC requests so far

storeVars == <<store, pendingDel>>
syncVars  == <<sync, response, req, syncs>>
rcvVars   == <<rcv, ri, created, result>>
sndVars   == <<snd, si>>
netVars   == <<chan, broken, failures>>
appVars   == <<appOps, everSealed, appDeleted>>
faultVars == <<storeErrors, storeFailed>>
envVars   == <<appVars, faultVars>>
vars == <<storeVars, receiving, deleting, syncVars, rcvVars, sndVars,
          netVars, envVars>>

-----------------------------------------------------------------------------
(* Values *)

\* lib.rs status_codes, as names.
BEGIN == "BEGIN"
Codes == {"SUCCESS", "OB_DATA_TOO_LARGE_ERR", "OB_DATA_ZERO_LENGTH_ERR",
          "PLASMA_STORE_ERR", "PEER_PLASMA_STORE_ERR",
          "OB_DELETION_SCHEDULED_ERR", "OB_NOT_FOUND_ERR",
          "OB_ALREADY_RECEIVING_ERR", "OB_ALREADY_IN_STORE_ERR",
          "PEER_CONNECTION_ERR"}
NoResult == "none"

\* ObjectSendError::response_code: the byte the sender writes before it
\* returns the error (ConnectionError has none).
SendErrorCode ==
    [ObjectDeletionScheduled |-> "OB_DELETION_SCHEDULED_ERR",
     ObjectMetaTooLarge      |-> "OB_META_TOO_LARGE_ERR",
     ObjectDataTooLarge      |-> "OB_DATA_TOO_LARGE_ERR",
     ObjectsNotFound         |-> "OB_NOT_FOUND_ERR",
     StoreError              |-> "PLASMA_STORE_ERR",
     ConnectionError         |-> NoResult]

\* ObjectReceiveError::response_code (PeerError is PeerCode below), which
\* SyncError::ReceiverError passes on.
ReceiveErrorCode ==
    [AlreadyReceiving     |-> "OB_ALREADY_RECEIVING_ERR",
     AlreadyInStore       |-> "OB_ALREADY_IN_STORE_ERR",
     ObjectMetaTooLarge   |-> "OB_META_TOO_LARGE_ERR",
     ObjectDataTooLarge   |-> "OB_DATA_TOO_LARGE_ERR",
     ZeroLengthObjectData |-> "OB_DATA_ZERO_LENGTH_ERR",
     StoreError           |-> "PLASMA_STORE_ERR",
     ConnectionError      |-> "PEER_CONNECTION_ERR"]

\* SyncError::response_code of the errors raised by the dispatcher itself.
SyncErrorCode ==
    [PeerConnectionFailed  |-> "PEER_CONNECTION_ERR",
     PeerRequestNotSent    |-> "PEER_CONNECTION_ERR",
     PeerRequestPanicked   |-> "PEER_REQUEST_PANICKED",
     ClientConnectionError |-> "CLIENT_CONNECTION_ERR",
     PeerAddressIsSelf     |-> "PEER_CONNECTION_ERR"]
\* What a SYNC wrote to its client: nothing yet, one code per peer request,
\* or nothing before the connection was closed.
NoResponse == [closed |-> FALSE, codes |-> <<>>]
Answer(c) == [closed |-> FALSE, codes |-> c]
Closed == [closed |-> TRUE, codes |-> <<>>]

\* Object-id lists that Request::validate accepts (non-empty, no duplicates).
IdLists == UNION {{l \in [1..n -> Ids] : IsInjective(l)} : n \in 1..MaxIdsPerReq}
PeerRequests == [kind : {"COPY", "TAKE"}, from : Servers, ids : IdLists]
NoReq == [kind |-> "NONE", from |-> CHOOSE s \in Servers : TRUE,
          to |-> CHOOSE s \in Servers : TRUE, ids |-> <<>>]

\* Messages of the data plane: a status byte, an object header with its
\* metadata (carrying the data size class), and the object data.
Status(c) == [type |-> "status", val |-> c]
Header(z) == [type |-> "head", val |-> z]
Data      == [type |-> "data", val |-> "-"]
Msgs == {Status(c) : c \in Codes \cup {BEGIN}} \cup
        {Header(z) : z \in {"ok", "zero", "big"}} \cup {Data}

RcvPhases == {"idle", "init", "added", "prepared", "sent", "reading",
              "created", "done"}
SndPhases == {"none", "pending", "run", "checked", "got", "stream", "done"}

TasksOf(g) == {t \in Tasks : SyncOf[t] = g}
IdSet(t) == ToSet(req[t].ids)

\* The receiver of t has its ids in `receiving` (between add_to_receiving
\* and Drop).
Registered(t) == rcv[t] \in {"added", "prepared", "sent", "reading", "created"}
\* The sender of t holds ObjectBuffers of its ids (get_many to return).
Holding(t) == snd[t] \in {"got", "stream"}
\* A TAKE sender past check_deleting and not yet dropped.
Scheduling(t) == req[t].kind = "TAKE" /\ snd[t] \in {"checked", "got", "stream"}

\* Server s's Plasma client has object o in use.
InUse(s, o) == \E t \in Tasks : req[t].from = s /\ Holding(t) /\ o \in IdSet(t)

\* Nothing more will happen on the peer side of task t.
Quiet(t) ==
    /\ rcv[t] \in {"idle", "done"}
    /\ \/ snd[t] \in {"none", "done"}
       \/ snd[t] = "pending" /\ broken[t]

\* The receiver end of the stream is still reading.
Writable(t) == ~broken[t] /\ rcv[t] # "done"

\* A read on the stream fails: the link broke, or the sender closed it and
\* everything it wrote has been read.
Eof(t) == broken[t] \/ (chan[t] = <<>> /\ snd[t] = "done")

Readable(t, type) == ~broken[t] /\ chan[t] # <<>> /\ Head(chan[t]).type = type

-----------------------------------------------------------------------------
(* The Plasma store (plasma-store/src/lib.rs) *)

\* contains_many: the ids of D that are present and sealed.
ContainsMany(s, D) == {o \in D : store[s][o] = "sealed"}

\* get_many: every id of D is returned (sealed); any other id is None.
GetManyFound(s, D) == D \subseteq ContainsMany(s, D)

\* create fails with AlreadyExists unless the id is absent (an unsealed
\* object exists too).
CanCreate(s, o) == store[s][o] = "absent"

\* ObjectBuffer::seal of a created object.
Seal(s, o) == store' = [store EXCEPT ![s][o] = "sealed"]

\* A Plasma call made for task t on the store of s returns an error
\* (PlasmaError, mapped to StoreError by the caller).
StoreCallFailed(t, s) == storeFailed' = [storeFailed EXCEPT ![t] = @ \cup {s}]

\* The store of s fails a call for task t (out of memory, or its socket to
\* the server broke): the fault model, bounded by MaxStoreErrors.
StoreFault(t, s) ==
    /\ storeErrors < MaxStoreErrors
    /\ storeErrors' = storeErrors + 1
    /\ StoreCallFailed(t, s)

\* PlasmaClient::delete_many(D) as documented at lib.rs:366-368: an object
\* that is present and sealed and not in use is deleted, anything else is
\* left alone.
DeleteManyStore(s, D) ==
    [o \in Ids |-> IF o \in D /\ store[s][o] = "sealed" /\ ~InUse(s, o)
                   THEN "absent" ELSE store[s][o]]

\* The environment: the C++ Plasma client, outside this repository.  A
\* delete of an object this client itself has in use is not dropped but
\* remembered, and carried out when the last buffer of the object is
\* released (the comment at sender.rs:119-121 relies on it for a TAKE,
\* which deletes while it still holds its buffers).
DeleteManyPending(s, D) == pendingDel[s] \cup {o \in D : InUse(s, o)}

\* The environment: of the ids sender t releases, those in the deletion
\* cache pd that no other sender of the server still holds.
ReleasedDeletes(t, pd) ==
    {o \in IdSet(t) \cap pd :
        ~\E u \in Tasks \ {t} : req[u].from = req[t].from /\ Holding(u)
                                /\ o \in IdSet(u)}

\* The environment: the Plasma client's answer to release, given its
\* deletion cache pd.
PlasmaRelease(t, pd) ==
    LET s == req[t].from
        D == ReleasedDeletes(t, pd)
    IN /\ store' = [store EXCEPT ![s] =
                      [o \in Ids |-> IF o \in D THEN "absent" ELSE @[o]]]
       /\ pendingDel' = [pendingDel EXCEPT ![s] = pd \ D]

\* impl Drop for ObjectBuffer: plasma::release of every buffer sender t
\* holds (send_objects returns and its `objects` go out of scope).
Release(t, pd) == PlasmaRelease(t, pd)

-----------------------------------------------------------------------------
(* Drop of the receiver and sender, and their error exits *)

\* impl Drop for ObjectReceiver: remove all object_ids from `receiving`.
DropReceiver(t) ==
    receiving' = [receiving EXCEPT ![req[t].to] = @ \ IdSet(t)]

\* impl Drop for ObjectSender: if delete_after_send, remove all object_ids
\* from `deleting`.
DropSender(t) ==
    deleting' = IF req[t].kind = "TAKE"
                THEN [deleting EXCEPT ![req[t].from] = @ \ IdSet(t)]
                ELSE deleting

\* process_peer_request returns an error: the receiver is dropped.
Fail(t, code) ==
    /\ rcv' = [rcv EXCEPT ![t] = "done"]
    /\ result' = [result EXCEPT ![t] = code]
    /\ DropReceiver(t)

\* The error path of ObjectReceiver::run: delete_many(ids[0..=i]).
Rollback(t) ==
    LET s == req[t].to
        D == ToSet(SubSeq(req[t].ids, 1, ri[t]))
    IN /\ store' = [store EXCEPT ![s] = DeleteManyStore(s, D)]
       /\ pendingDel' = [pendingDel EXCEPT ![s] = DeleteManyPending(s, D)]

\* ObjectSender::run on an error: if it has a response code, write it (the
\* write result is ignored); then the handler drops the sender and returns.
SenderFail(t, code) ==
    /\ chan' = IF code # NoResult /\ Writable(t)
               THEN [chan EXCEPT ![t] = Append(@, Status(code))]
               ELSE chan
    /\ snd' = [snd EXCEPT ![t] = "done"]
    /\ DropSender(t)

-----------------------------------------------------------------------------
(* Dispatcher (dispatcher.rs) *)

\* Request::validate of a SYNC: incoming ids are unique across peer requests.
ValidSync(prs) ==
    \A t, u \in DOMAIN prs :
        t # u => ToSet(prs[t].ids) \cap ToSet(prs[u].ids) = {}

\* The handler of server `to` reads and validates a SYNC for slot g, and the
\* dispatcher either rejects it (a peer address is its own: the handler
\* returns the error and closes the connection) or spawns one task per peer
\* request.
ClientSync(g) ==
    /\ sync[g] = "idle"
    /\ \A t \in TasksOf(g) : Quiet(t)
    /\ syncs < MaxSyncs
    /\ syncs' = syncs + 1
    /\ \E to \in Servers, prs \in [TasksOf(g) -> PeerRequests] :
        /\ ValidSync(prs)
        /\ \/ /\ \E t \in TasksOf(g) : prs[t].from = to
              /\ response' = [response EXCEPT ![g] = Closed]
              /\ UNCHANGED <<sync, req, rcvVars, sndVars, netVars, storeFailed>>
           \/ /\ \A t \in TasksOf(g) : prs[t].from # to
              /\ sync' = [sync EXCEPT ![g] = "running"]
              /\ req' = [t \in Tasks |->
                          IF t \in TasksOf(g)
                          THEN [kind |-> prs[t].kind, from |-> prs[t].from,
                                to |-> to, ids |-> prs[t].ids]
                          ELSE req[t]]
              /\ rcv' = [t \in Tasks |-> IF t \in TasksOf(g) THEN "init" ELSE rcv[t]]
              /\ ri' = [t \in Tasks |-> IF t \in TasksOf(g) THEN 0 ELSE ri[t]]
              /\ created' = [t \in Tasks |-> IF t \in TasksOf(g) THEN {} ELSE created[t]]
              /\ result' = [t \in Tasks |-> IF t \in TasksOf(g) THEN NoResult ELSE result[t]]
              /\ snd' = [t \in Tasks |-> IF t \in TasksOf(g) THEN "none" ELSE snd[t]]
              /\ si' = [t \in Tasks |-> IF t \in TasksOf(g) THEN 0 ELSE si[t]]
              /\ chan' = [t \in Tasks |-> IF t \in TasksOf(g) THEN <<>> ELSE chan[t]]
              /\ broken' = [t \in Tasks |-> IF t \in TasksOf(g) THEN FALSE ELSE broken[t]]
              /\ storeFailed' = [t \in Tasks |-> IF t \in TasksOf(g) THEN {} ELSE storeFailed[t]]
              /\ UNCHANGED <<response, failures>>
    /\ UNCHANGED <<storeVars, receiving, deleting, appVars, storeErrors>>

\* All tasks of g joined: write one status byte per peer request.
Respond(g) ==
    /\ sync[g] = "running"
    /\ \A t \in TasksOf(g) : rcv[t] = "done"
    /\ response' = [response EXCEPT ![g] = Answer([t \in TasksOf(g) |-> result[t]])]
    /\ sync' = [sync EXCEPT ![g] = "idle"]
    /\ UNCHANGED <<storeVars, receiving, deleting, req, syncs, rcvVars,
                   sndVars, netVars, envVars>>

-----------------------------------------------------------------------------
(* Client (client/mod.rs, errors.rs) *)

\* PeerResult::from: the client's reading of one response byte.
PeerResults == [SUCCESS                   |-> "Ok",
                OB_META_TOO_LARGE_ERR     |-> "ObjectMetaTooLarge",
                OB_DATA_TOO_LARGE_ERR     |-> "ObjectDataTooLarge",
                OB_DATA_ZERO_LENGTH_ERR   |-> "ZeroLengthObjectData",
                PLASMA_STORE_ERR          |-> "PlasmaStoreError",
                PEER_PLASMA_STORE_ERR     |-> "PeerPlasmaStoreError",
                PEER_REQUEST_PANICKED     |-> "PeerRequestPanicked",
                OB_DELETION_SCHEDULED_ERR |-> "ObjectDeletionScheduled",
                OB_NOT_FOUND_ERR          |-> "ObjectsNotFound",
                OB_ALREADY_RECEIVING_ERR  |-> "AlreadyReceiving",
                OB_ALREADY_IN_STORE_ERR   |-> "AlreadyInStore",
                PEER_CONNECTION_ERR       |-> "PeerConnectionError"]
PeerResultFrom(c) ==
    IF c \in DOMAIN PeerResults THEN PeerResults[c] ELSE "UnknownError"

-----------------------------------------------------------------------------
(* Receiver side: process_peer_request and ObjectReceiver (receiver.rs) *)

\* prepare, first half: add_to_receiving under the `receiving` lock.
add_to_receiving(t) ==
    LET s == req[t].to IN
    /\ rcv[t] = "init"
    /\ \/ /\ IdSet(t) \cap receiving[s] # {}
          /\ Fail(t, ReceiveErrorCode.AlreadyReceiving)
       \/ /\ IdSet(t) \cap receiving[s] = {}
          /\ receiving' = [receiving EXCEPT ![s] = @ \cup IdSet(t)]
          /\ rcv' = [rcv EXCEPT ![t] = "added"]
          /\ UNCHANGED result
    /\ UNCHANGED <<storeVars, deleting, syncVars, ri, created, sndVars,
                   netVars, envVars>>

\* Mutant: AlreadyInStore returned without dropping the receiver.
contains_check_no_drop(t) ==
    LET s == req[t].to IN
    /\ rcv[t] = "added"
    /\ \/ /\ ContainsMany(s, IdSet(t)) # {}
          /\ rcv' = [rcv EXCEPT ![t] = "done"]
          /\ result' = [result EXCEPT ![t] = "OB_ALREADY_IN_STORE_ERR"]
          /\ UNCHANGED receiving
       \/ /\ ContainsMany(s, IdSet(t)) = {}
          /\ rcv' = [rcv EXCEPT ![t] = "prepared"]
          /\ UNCHANGED <<result, receiving>>
    /\ UNCHANGED <<storeVars, deleting, syncVars, ri, created, sndVars,
                   netVars, envVars>>

\* prepare, second half: contains_many on the local store.
contains_check(t) ==
    LET s == req[t].to IN
    /\ rcv[t] = "added"
    /\ \/ /\ ContainsMany(s, IdSet(t)) # {}
          /\ Fail(t, ReceiveErrorCode.AlreadyInStore)
          /\ UNCHANGED faultVars
       \/ /\ ContainsMany(s, IdSet(t)) = {}
          /\ rcv' = [rcv EXCEPT ![t] = "prepared"]
          /\ UNCHANGED <<result, receiving, faultVars>>
       \/ /\ StoreFault(t, s)
          /\ Fail(t, ReceiveErrorCode.StoreError)
    /\ UNCHANGED <<storeVars, deleting, syncVars, ri, created, sndVars,
                   netVars, appVars>>

\* TcpStream::connect and Request::write_into; either failure is
\* PEER_CONNECTION_ERR.
connect_and_request(t) ==
    /\ rcv[t] = "prepared"
    /\ \/ /\ rcv' = [rcv EXCEPT ![t] = "sent"]
          /\ snd' = [snd EXCEPT ![t] = "pending"]
          /\ UNCHANGED <<result, receiving, failures>>
       \/ /\ failures < MaxNetFailures
          /\ failures' = failures + 1
          /\ Fail(t, SyncErrorCode.PeerConnectionFailed)
          /\ UNCHANGED snd
    /\ UNCHANGED <<storeVars, deleting, syncVars, ri, created, si, chan,
                   broken, envVars>>

\* Mutant: the peer's code is forwarded as is, PLASMA_STORE_ERR included.
PeerCode_no_relabel(c) == c

\* ObjectReceiveError::PeerError -> response code.
PeerCode(c) == IF c = "PLASMA_STORE_ERR" THEN "PEER_PLASMA_STORE_ERR" ELSE c

\* Mutant: a closed or broken stream is not an error while waiting for the
\* status byte.
read_status_no_eof(t) ==
    /\ rcv[t] = "sent"
    /\ Readable(t, "status")
    /\ chan' = [chan EXCEPT ![t] = Tail(@)]
    /\ \/ /\ Head(chan[t]).val = BEGIN
          /\ rcv' = [rcv EXCEPT ![t] = "reading"]
          /\ ri' = [ri EXCEPT ![t] = 1]
          /\ UNCHANGED <<result, receiving>>
       \/ /\ Head(chan[t]).val # BEGIN
          /\ Fail(t, PeerCode(Head(chan[t]).val))
          /\ UNCHANGED ri
    /\ UNCHANGED <<storeVars, deleting, syncVars, created, sndVars, broken,
                   failures, envVars>>

\* ObjectReceiver::run: read the status byte.
read_status(t) ==
    /\ rcv[t] = "sent"
    /\ \/ /\ Eof(t)
          /\ Fail(t, ReceiveErrorCode.ConnectionError)
          /\ UNCHANGED <<chan, ri>>
       \/ /\ Readable(t, "status")
          /\ Head(chan[t]).val = BEGIN
          /\ chan' = [chan EXCEPT ![t] = Tail(@)]
          /\ rcv' = [rcv EXCEPT ![t] = "reading"]
          /\ ri' = [ri EXCEPT ![t] = 1]
          /\ UNCHANGED <<result, receiving>>
       \/ /\ Readable(t, "status")
          /\ Head(chan[t]).val # BEGIN
          /\ chan' = [chan EXCEPT ![t] = Tail(@)]
          /\ Fail(t, PeerCode(Head(chan[t]).val))
          /\ UNCHANGED ri
    /\ UNCHANGED <<storeVars, deleting, syncVars, created, sndVars, broken,
                   failures, envVars>>

\* The receive loop fails on object ri[t]: delete_many(ids[0..=i]), then
\* process_peer_request returns and the receiver is dropped.
FailAndRollback(t, code) == Fail(t, code) /\ Rollback(t)

\* receive_object, up to data: read_object_header, the size checks, the
\* metadata read and create.
read_header(t) ==
    LET s == req[t].to
        o == req[t].ids[ri[t]]
    IN
    /\ rcv[t] = "reading"
    /\ \/ /\ Eof(t)
          /\ FailAndRollback(t, ReceiveErrorCode.ConnectionError)
          /\ UNCHANGED <<chan, created, faultVars>>
       \/ /\ Readable(t, "head")
          /\ Head(chan[t]).val = "zero"
          /\ chan' = [chan EXCEPT ![t] = Tail(@)]
          /\ FailAndRollback(t, ReceiveErrorCode.ZeroLengthObjectData)
          /\ UNCHANGED <<created, faultVars>>
       \/ /\ Readable(t, "head")
          /\ Head(chan[t]).val = "ok"
          /\ chan' = [chan EXCEPT ![t] = Tail(@)]
          /\ \/ /\ ~CanCreate(s, o)   \* create: AlreadyExists
                /\ StoreCallFailed(t, s)
                /\ FailAndRollback(t, ReceiveErrorCode.StoreError)
                /\ UNCHANGED <<created, storeErrors>>
             \/ /\ CanCreate(s, o)   \* create: the store fails
                /\ StoreFault(t, s)
                /\ FailAndRollback(t, ReceiveErrorCode.StoreError)
                /\ UNCHANGED created
             \/ /\ CanCreate(s, o)
                /\ store' = [store EXCEPT ![s][o] = "unsealed"]
                /\ created' = [created EXCEPT ![t] = @ \cup {o}]
                /\ rcv' = [rcv EXCEPT ![t] = "created"]
                /\ UNCHANGED <<pendingDel, result, receiving, faultVars>>
    /\ UNCHANGED <<deleting, syncVars, ri, sndVars, broken, failures, appVars>>

\* Mutant: the object index still advances after the last object.
read_data_ri_past_end(t) ==
    LET s == req[t].to
        o == req[t].ids[ri[t]]
    IN
    /\ rcv[t] = "created"
    /\ \/ /\ Eof(t)
          /\ FailAndRollback(t, "PEER_CONNECTION_ERR")
          /\ UNCHANGED <<chan, ri>>
       \/ /\ Readable(t, "data")
          /\ chan' = [chan EXCEPT ![t] = Tail(@)]
          /\ Seal(s, o)
          /\ UNCHANGED pendingDel
          /\ ri' = [ri EXCEPT ![t] = @ + 1]
          /\ \/ /\ ri[t] < Len(req[t].ids)
                /\ rcv' = [rcv EXCEPT ![t] = "reading"]
                /\ UNCHANGED <<result, receiving>>
             \/ /\ ri[t] = Len(req[t].ids)
                /\ Fail(t, "SUCCESS")
    /\ UNCHANGED <<deleting, syncVars, created, sndVars, broken, failures,
                   envVars>>

\* receive_object, data: read_exact into the object buffer, then seal.  After
\* the last object, run returns Ok, the socket is shut down and the receiver
\* dropped.
read_data(t) ==
    LET s == req[t].to
        o == req[t].ids[ri[t]]
    IN
    /\ rcv[t] = "created"
    /\ \/ /\ Eof(t)
          /\ FailAndRollback(t, ReceiveErrorCode.ConnectionError)
          /\ UNCHANGED <<chan, ri, faultVars>>
       \/ /\ Readable(t, "data")
          /\ chan' = [chan EXCEPT ![t] = Tail(@)]
          /\ Seal(s, o)
          /\ UNCHANGED <<pendingDel, faultVars>>
          /\ \/ /\ ri[t] < Len(req[t].ids)
                /\ ri' = [ri EXCEPT ![t] = @ + 1]
                /\ rcv' = [rcv EXCEPT ![t] = "reading"]
                /\ UNCHANGED <<result, receiving>>
             \/ /\ ri[t] = Len(req[t].ids)
                /\ Fail(t, "SUCCESS")
                /\ UNCHANGED ri
       \/ /\ Readable(t, "data")   \* seal fails: the buffer is released unsealed
          /\ chan' = [chan EXCEPT ![t] = Tail(@)]
          /\ StoreFault(t, s)
          /\ FailAndRollback(t, ReceiveErrorCode.StoreError)
          /\ UNCHANGED ri
    /\ UNCHANGED <<deleting, syncVars, created, sndVars, broken, failures,
                   appVars>>

RecvStep(t) ==
    \/ add_to_receiving(t)
    \/ contains_check(t)
    \/ connect_and_request(t)
    \/ read_status(t)
    \/ read_header(t)
    \/ read_data(t)

-----------------------------------------------------------------------------
(* Sender side: the peer's Handler and ObjectSender (handler.rs, sender.rs) *)

\* The peer's handler reads and validates the COPY/TAKE request and builds
\* the sender (delete_after_send for TAKE).
accept(t) ==
    /\ snd[t] = "pending"
    /\ ~broken[t]
    /\ snd' = [snd EXCEPT ![t] = "run"]
    /\ UNCHANGED <<storeVars, receiving, deleting, syncVars, rcvVars, si,
                   netVars, envVars>>

\* check_deleting under the `deleting` lock.
check_deleting(t) ==
    LET s == req[t].from IN
    /\ snd[t] = "run"
    /\ \/ /\ IdSet(t) \cap deleting[s] # {}
          /\ SenderFail(t, SendErrorCode.ObjectDeletionScheduled)
       \/ /\ IdSet(t) \cap deleting[s] = {}
          /\ deleting' = IF req[t].kind = "TAKE"
                         THEN [deleting EXCEPT ![s] = @ \cup IdSet(t)]
                         ELSE deleting
          /\ snd' = [snd EXCEPT ![t] = "checked"]
          /\ UNCHANGED chan
    /\ UNCHANGED <<storeVars, receiving, syncVars, rcvVars, si, broken,
                   failures, envVars>>

\* Mutant: ObjectsNotFound returned without dropping the sender.
get_objects_no_drop(t) ==
    LET s == req[t].from IN
    /\ snd[t] = "checked"
    /\ \/ /\ ~GetManyFound(s, IdSet(t))
          /\ chan' = IF Writable(t)
                     THEN [chan EXCEPT ![t] = Append(@, Status("OB_NOT_FOUND_ERR"))]
                     ELSE chan
          /\ snd' = [snd EXCEPT ![t] = "done"]
          /\ UNCHANGED deleting
       \/ /\ GetManyFound(s, IdSet(t))
          /\ \E o \in IdSet(t) : SizeOf[o] = "big"
          /\ SenderFail(t, "OB_DATA_TOO_LARGE_ERR")
       \/ /\ GetManyFound(s, IdSet(t))
          /\ \A o \in IdSet(t) : SizeOf[o] # "big"
          /\ snd' = [snd EXCEPT ![t] = "got"]
          /\ UNCHANGED <<chan, deleting>>
    /\ UNCHANGED <<storeVars, receiving, syncVars, rcvVars, si, broken,
                   failures, envVars>>

\* Mutant: check_object_sizes is skipped.
get_objects_no_size_check(t) ==
    LET s == req[t].from IN
    /\ snd[t] = "checked"
    /\ \/ /\ ~GetManyFound(s, IdSet(t))
          /\ SenderFail(t, "OB_NOT_FOUND_ERR")
       \/ /\ GetManyFound(s, IdSet(t))
          /\ snd' = [snd EXCEPT ![t] = "got"]
          /\ UNCHANGED <<chan, deleting>>
    /\ UNCHANGED <<storeVars, receiving, syncVars, rcvVars, si, broken,
                   failures, envVars>>

\* get_objects (get_many) and check_object_sizes.  A get that fails drops
\* the buffers already returned: nothing stays held.
get_objects(t) ==
    LET s == req[t].from IN
    /\ snd[t] = "checked"
    /\ \/ /\ ~GetManyFound(s, IdSet(t))
          /\ SenderFail(t, SendErrorCode.ObjectsNotFound)
          /\ UNCHANGED faultVars
       \/ /\ GetManyFound(s, IdSet(t))
          /\ \E o \in IdSet(t) : SizeOf[o] = "big"
          /\ SenderFail(t, SendErrorCode.ObjectDataTooLarge)
          /\ UNCHANGED faultVars
       \/ /\ GetManyFound(s, IdSet(t))
          /\ \A o \in IdSet(t) : SizeOf[o] # "big"
          /\ snd' = [snd EXCEPT ![t] = "got"]
          /\ UNCHANGED <<chan, deleting, faultVars>>
       \/ /\ StoreFault(t, s)
          /\ SenderFail(t, SendErrorCode.StoreError)
    /\ UNCHANGED <<storeVars, receiving, syncVars, rcvVars, si, broken,
                   failures, appVars>>

\* A write fails with ConnectionError: send_objects returns (releasing the
\* objects), and run handles the error like any other.
SenderAbort(t) ==
    /\ Release(t, pendingDel[req[t].from])
    /\ SenderFail(t, SendErrorCode.ConnectionError)

\* Write the BEGIN status byte.
write_begin(t) ==
    /\ snd[t] = "got"
    /\ \/ /\ Writable(t)
          /\ chan' = [chan EXCEPT ![t] = Append(@, Status(BEGIN))]
          /\ snd' = [snd EXCEPT ![t] = "stream"]
          /\ si' = [si EXCEPT ![t] = 1]
          /\ UNCHANGED <<storeVars, deleting>>
       \/ /\ ~Writable(t)   \* the write lands in the kernel buffer
          /\ snd' = [snd EXCEPT ![t] = "stream"]
          /\ si' = [si EXCEPT ![t] = 1]
          /\ UNCHANGED <<storeVars, deleting, chan>>
       \/ /\ ~Writable(t)
          /\ SenderAbort(t)
          /\ UNCHANGED si
    /\ UNCHANGED <<receiving, syncVars, rcvVars, broken, failures, envVars>>

\* send_object: header, metadata and data of object si[t].
send_object(t) ==
    LET o == req[t].ids[si[t]] IN
    /\ snd[t] = "stream"
    /\ si[t] <= Len(req[t].ids)
    /\ \/ /\ Writable(t)
          /\ chan' = [chan EXCEPT ![t] = @ \o <<Header(SizeOf[o]), Data>>]
          /\ si' = [si EXCEPT ![t] = @ + 1]
          /\ UNCHANGED <<storeVars, deleting, snd>>
       \/ /\ ~Writable(t)
          /\ si' = [si EXCEPT ![t] = @ + 1]
          /\ UNCHANGED <<storeVars, deleting, snd, chan>>
       \/ /\ ~Writable(t)
          /\ SenderAbort(t)
          /\ UNCHANGED si
    /\ UNCHANGED <<receiving, syncVars, rcvVars, broken, failures, envVars>>

\* All objects written: a TAKE calls delete_many while it still holds the
\* objects (deferred by the Plasma client), send_objects returns and drops
\* the objects (release), the handler drops the sender.
send_done(t) ==
    LET s == req[t].from
        pd == IF req[t].kind = "TAKE" THEN pendingDel[s] \cup IdSet(t)
                                      ELSE pendingDel[s]
    IN
    /\ snd[t] = "stream"
    /\ si[t] > Len(req[t].ids)
    /\ Release(t, pd)
    /\ snd' = [snd EXCEPT ![t] = "done"]
    /\ DropSender(t)
    /\ UNCHANGED <<receiving, syncVars, rcvVars, si, netVars, envVars>>

SendStep(t) ==
    \/ accept(t)
    \/ check_deleting(t)
    \/ get_objects(t)
    \/ write_begin(t)
    \/ send_object(t)
    \/ send_done(t)

-----------------------------------------------------------------------------
(* Environment: the network and other clients of each Plasma store *)

\* The network breaks the stream of task t.
Break(t) ==
    /\ failures < MaxNetFailures
    /\ ~broken[t]
    /\ snd[t] # "none"
    /\ ~(rcv[t] = "done" /\ snd[t] = "done")
    /\ broken' = [broken EXCEPT ![t] = TRUE]
    /\ failures' = failures + 1
    /\ UNCHANGED <<storeVars, receiving, deleting, syncVars, rcvVars,
                   sndVars, chan, envVars>>

\* Another process creates and seals o in the store of s.
AppCreate(s, o) ==
    /\ appOps < MaxAppOps
    /\ CanCreate(s, o)
    /\ store' = [store EXCEPT ![s][o] = "sealed"]
    /\ appOps' = appOps + 1
    /\ everSealed' = everSealed \cup {o}
    /\ UNCHANGED <<pendingDel, receiving, deleting, syncVars, rcvVars,
                   sndVars, netVars, appDeleted, faultVars>>

\* Another process deletes o; the store skips objects in use.
AppDelete(s, o) ==
    /\ appOps < MaxAppOps
    /\ store[s][o] = "sealed"
    /\ ~InUse(s, o)
    /\ store' = [store EXCEPT ![s][o] = "absent"]
    /\ appOps' = appOps + 1
    /\ appDeleted' = appDeleted \cup {o}
    /\ UNCHANGED <<pendingDel, receiving, deleting, syncVars, rcvVars,
                   sndVars, netVars, everSealed, faultVars>>

-----------------------------------------------------------------------------
(* Specification *)

Init ==
    /\ store = [s \in Servers |->
                  [o \in Ids |-> IF o \in InitStore[s] THEN "sealed" ELSE "absent"]]
    /\ pendingDel = [s \in Servers |-> {}]
    /\ receiving = [s \in Servers |-> {}]
    /\ deleting = [s \in Servers |-> {}]
    /\ sync = [g \in Syncs |-> "idle"]
    /\ response = [g \in Syncs |-> NoResponse]
    /\ req = [t \in Tasks |-> NoReq]
    /\ rcv = [t \in Tasks |-> "idle"]
    /\ ri = [t \in Tasks |-> 0]
    /\ created = [t \in Tasks |-> {}]
    /\ result = [t \in Tasks |-> NoResult]
    /\ snd = [t \in Tasks |-> "none"]
    /\ si = [t \in Tasks |-> 0]
    /\ chan = [t \in Tasks |-> <<>>]
    /\ broken = [t \in Tasks |-> FALSE]
    /\ failures = 0
    /\ appOps = 0
    /\ everSealed = {o \in Ids : \E s \in Servers : store[s][o] = "sealed"}
    /\ appDeleted = {}
    /\ storeErrors = 0
    /\ storeFailed = [t \in Tasks |-> {}]
    /\ syncs = 0

Next ==
    \/ \E g \in Syncs : ClientSync(g) \/ Respond(g)
    \/ \E t \in Tasks : RecvStep(t) \/ SendStep(t) \/ Break(t)
    \/ \E s \in Servers, o \in Ids : AppCreate(s, o) \/ AppDelete(s, o)

\* tokio runs every spawned task and handler until it blocks on a socket;
\* the blocking is the enabling condition of each step.
Fairness ==
    /\ \A t \in Tasks : WF_vars(RecvStep(t)) /\ WF_vars(SendStep(t))
    /\ \A g \in Syncs : WF_vars(Respond(g))

Spec == Init /\ [][Next]_vars /\ Fairness

-----------------------------------------------------------------------------
(* Properties *)

TypeOK ==
    /\ store \in [Servers -> [Ids -> {"absent", "unsealed", "sealed"}]]
    /\ pendingDel \in [Servers -> SUBSET Ids]
    /\ receiving \in [Servers -> SUBSET Ids]
    /\ deleting \in [Servers -> SUBSET Ids]
    /\ sync \in [Syncs -> {"idle", "running"}]
    /\ req \in [Tasks -> {NoReq} \cup
                  [kind : {"COPY", "TAKE"}, from : Servers, to : Servers,
                   ids : IdLists]]
    /\ rcv \in [Tasks -> RcvPhases]
    /\ ri \in [Tasks -> 0..MaxIdsPerReq]
    /\ created \in [Tasks -> SUBSET Ids]
    /\ result \in [Tasks -> Codes \cup {NoResult}]
    /\ snd \in [Tasks -> SndPhases]
    /\ si \in [Tasks -> 0..(MaxIdsPerReq + 1)]
    /\ chan \in [Tasks -> Seq(Msgs)]
    /\ broken \in [Tasks -> BOOLEAN]
    /\ failures \in 0..MaxNetFailures
    /\ appOps \in 0..MaxAppOps
    /\ storeErrors \in 0..MaxStoreErrors
    /\ storeFailed \in [Tasks -> SUBSET Servers]
    /\ syncs \in 0..MaxSyncs
    /\ \A t \in Tasks : /\ ri[t] <= Len(req[t].ids)
                       /\ si[t] <= Len(req[t].ids) + 1

\* Store::receiving never keeps an id after the receivers that registered it
\* were dropped: every id in it belongs to a live receiver of that server
\* (add_to_receiving and the Drop of ObjectReceiver on every exit path).
NoStaleReceiving ==
    \A s \in Servers :
        receiving[s] \subseteq
            UNION {IdSet(t) : t \in {u \in Tasks : Registered(u) /\ req[u].to = s}}

\* Store::deleting never keeps an id after the TAKE that scheduled it was
\* dropped (check_deleting and the Drop of ObjectSender).
NoStaleDeleting ==
    \A s \in Servers :
        deleting[s] \subseteq
            UNION {IdSet(t) : t \in {u \in Tasks : Scheduling(u) /\ req[u].from = s}}

\* The data stream of a transfer is a status code, or BEGIN followed by a
\* header and data per object: a status byte is only ever the first
\* message and never arrives while the receiver reads objects, and a header
\* of an object over the size limits never reaches the wire
\* (send_objects, check_object_sizes, ObjectSender::run).
StreamWellFormed ==
    \A t \in Tasks :
        /\ \A i \in 2..Len(chan[t]) : chan[t][i].type # "status"
        /\ rcv[t] \in {"reading", "created"} =>
              \A i \in 1..Len(chan[t]) : chan[t][i].type # "status"
        /\ \A i \in 1..Len(chan[t]) : chan[t][i] # Header("big")

\* What the client of an answered SYNC reads for each peer request tells the
\* truth about the Plasma stores: PlasmaStoreError only when a store call of
\* the server it asked failed for that request, PeerPlasmaStoreError only
\* when the peer's store failed, and Ok only when no store call for it
\* failed.  The codes cross the sender's error byte, the receiver's
\* PeerError relabelling (ObjectReceiveError::response_code), the
\* dispatcher's response and PeerResult::from in the client.
StoreErrorsAttributed ==
    \A g \in Syncs :
        (sync[g] = "idle" /\ DOMAIN response[g].codes = TasksOf(g)) =>
            \A t \in TasksOf(g) :
                LET r == PeerResultFrom(response[g].codes[t]) IN
                /\ r = "PlasmaStoreError" => req[t].to \in storeFailed[t]
                /\ r = "PeerPlasmaStoreError" => req[t].from \in storeFailed[t]
                /\ r = "Ok" => storeFailed[t] = {}

\* Every SYNC the dispatcher starts eventually joins all its tasks and
\* answers the client: no receive blocks forever on a stream the sender
\* closed or the network broke.
SyncCompletes ==
    \A g \in Syncs : sync[g] = "running" ~> sync[g] = "idle"

-----------------------------------------------------------------------------
(* Properties the code is expected to have and that TLC finds violated *)

\* At most one receiver of a server handles an id at a time (the purpose of
\* Store::receiving and add_to_receiving).
ReceiveExclusive ==
    \A t, u \in Tasks :
        (t # u /\ Registered(t) /\ Registered(u) /\ req[t].to = req[u].to)
            => IdSet(t) \cap IdSet(u) = {}

\* At most one TAKE of a server schedules an id for deletion at a time (the
\* purpose of Store::deleting and check_deleting).
TakeExclusive ==
    \A t, u \in Tasks :
        (t # u /\ Scheduling(t) /\ Scheduling(u) /\ req[t].from = req[u].from)
            => IdSet(t) \cap IdSet(u) = {}

\* A failed receive returns the store to its state before the request: an
\* unsealed object exists only while a receiver is filling it.
NoLeakedUnsealed ==
    \A s \in Servers, o \in Ids :
        store[s][o] = "unsealed" =>
            \E t \in Tasks : /\ req[t].to = s /\ rcv[t] = "created"
                             /\ req[t].ids[ri[t]] = o

\* The rollback of a failed receive (delete_many of ids[0..=i]) deletes only
\* objects that receiver created: an object the store held before, or that
\* another client created meanwhile, survives it.
RollbackDeletesOnlyOwn ==
    [][\A t \in Tasks :
         (Registered(t) /\ rcv'[t] = "done" /\ result'[t] # "SUCCESS") =>
            \A o \in Ids : (store[req[t].to][o] = "sealed" /\
                           store'[req[t].to][o] = "absent") => o \in created[t]
      ]_vars

\* plasma-stream never destroys the last copy of an object: an object that
\* was sealed somewhere and that no other client deleted is sealed in some
\* store, or is being received.
NoObjectLost ==
    \A o \in everSealed \ appDeleted :
        \/ \E s \in Servers : store[s][o] = "sealed"
        \/ \E t \in Tasks : Registered(t) /\ o \in IdSet(t) /\ snd[t] = "done"
                            /\ rcv[t] \in {"sent", "reading", "created"}

\* The client of a SYNC always gets one response byte per peer request.
SyncAlwaysAnswered ==
    \A g \in Syncs : response[g] # Closed
=============================================================================
