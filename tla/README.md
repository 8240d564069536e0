# TLA+ models of plasma-stream

This directory holds TLA+ models of `plasma-stream`, a server that moves
immutable objects between the Plasma shared-memory stores of different
machines. It also holds the TLC configurations that check the models. The
Rust sources are under `src/plasma-stream` (the server) and
`src/plasma-store` (the Rust binding to the Plasma client).

## 1. Inventory

### Components

| Component | Source | State it keeps | Operations |
|---|---|---|---|
| Store handle | `server/store.rs` | shared Plasma client, `timeout_ms`, the `receiving` and `deleting` sets (each behind a `Mutex`) | `build_sender`, `build_receiver` |
| Plasma binding | `plasma-store/src/lib.rs` | per object: absent / unsealed / sealed; the client's reference counts and its deferred-deletion cache (inside the C++ client) | `get`/`get_many`, `create`, `seal`, `abort`, `delete`/`delete_many`, `contains`/`contains_many`, `ObjectBuffer::drop` (release) |
| Object sender | `server/sender.rs` | `object_ids`, `delete_after_send`; holds the `ObjectBuffer`s it fetched | `run`, `send_objects`, `check_deleting`, `get_objects`, `check_object_sizes`, `send_object`, `Drop` |
| Object receiver | `server/receiver.rs` | `object_ids`; the object being created | `prepare` (`add_to_receiving` + `contains_many`), `run`, `receive_object`, `read_object_header`, rollback `delete_many`, `Drop` |
| Dispatcher | `server/dispatcher.rs` | per SYNC: spawned task handles, the response buffer | `run` (self-address check, fan-out, join, response), `process_peer_request` |
| Connection handler | `server/handler.rs` | socket, connection permit | `run` loop (read, validate, dispatch), `Drop` (returns the permit) |
| Listener | `server/listener.rs`, `server/mod.rs` | `Semaphore` of `max_connections` permits, the accept backoff | `start`, `accept` (1..4 s backoff, fails on the 5th error) |
| Wire codec | `request.rs` | none | `Request::read_from`/`write_into`/`validate`, `PeerRequest::*`, `read_socket_addr`, `read_object_id_list`, `write_object_id_list`, object header encode (`send_object`) and decode (`read_object_header`) |
| Error taxonomy | `errors.rs`, `lib.rs` | none | `response_code` of `ObjectSendError`, `ObjectReceiveError`, `SyncError`; `PeerResult::from` |
| Client library and CLI | `client/mod.rs`, `client/cli.rs` | a socket | `Client::sync`, `parse_sync_response`, line parser |

### How the components interact

A client connects to server B and sends `SYNC [(COPY|TAKE, from A, ids)...]`.
B's handler validates the request, and B's dispatcher spawns one tokio task
per peer request. Each task builds a receiver. The receiver registers its ids
in B's `receiving` set and checks that B's store does not hold them. The task
then connects to A and writes `COPY ids` or `TAKE ids`. A's listener accepts
the connection and A's handler runs a sender on it. The sender checks A's
`deleting` set (a TAKE also registers its ids there), fetches the objects from
A's store and checks their sizes. It then writes `BEGIN` and streams
header/metadata/data per object. After the last object, a TAKE deletes the ids
from A's store. B's receiver creates and seals each object in B's store. On a
failure part-way through, it deletes the ids it has handled so far. B's
dispatcher writes one status byte per peer request back to the client.

Shared state: each server's two coordination sets, and each server's Plasma
store. The store is shared with the server's own tasks through one Plasma
client, and with other local processes through the store daemon.
Communication: TCP streams (FIFO; they can fail or close at any point). TCP
buffering means a write can succeed even though the reader never reads it.
Concurrency: tokio runs tasks on a multi-threaded pool. Set operations are
atomic under their mutexes. Plasma calls are synchronous IPC that interleave
with other threads. Every socket read and write is an await point.

### Hard behaviour

* Interleavings of receivers of one server (same ids, different SYNCs) and of
  senders of one server (COPY/TAKE of the same ids for different peers).
* Early-return paths that still run `Drop`: `Drop` removes the ids from the
  sets even when this instance never inserted them.
* A TAKE deletes at the source as soon as its writes succeed. The receiver
  never acknowledges. Receiver-side failures happen after that point.
* Failure part-way through an object: the object was created but never
  sealed, then released without `abort`.
* Deferred deletion: `delete_many` on an object that this client has in use
  only takes effect when the last `ObjectBuffer` is dropped. This is the
  C++ Plasma client's deletion cache, outside this repository; the comment
  at `sender.rs:119-121` relies on it.
* Network failure at any point. A failed connect. A socket closed by the
  other side.
* A Plasma call failing part-way through a transfer (`contains_many`,
  `create`, `seal` on the receiver; `get_many` on the sender). The byte the
  client gets must say which side's store failed.
* Connection admission: a server at `max_connections` stops accepting. Its
  own SYNC tasks need the peer's accept to make progress.
* Fixed-width fields on the wire: 16-bit metadata size, 48-bit data size,
  16-bit id-list length.

### What makes each component correct

* Receiver and store: at most one receiver of a server handles an id at a
  time. `receiving` holds exactly the ids of live receivers (no stale entries
  and no missing ones). A failed receive restores the store to its state
  before the request: nothing is left unsealed and nothing the receiver did
  not create is deleted. SUCCESS means every id was created and sealed.
* Sender: at most one TAKE of a server schedules an id at a time. `deleting`
  holds exactly the ids of live TAKE senders. A status byte appears only
  before BEGIN. Oversized objects never reach the wire. A deferred delete is
  eventually carried out.
* Transfer as a whole: a TAKE never destroys the only copy of an object.
* Dispatcher: every SYNC the handler accepts gets exactly one byte per peer
  request. Every SYNC eventually completes. A store error is reported as
  the local or the peer's store error, the one matching the side that
  failed.
* Listener and handler: permits are returned on every exit path, and at
  most `max_connections` connections are handled at once. Two servers
  serving each other's SYNCs cannot wait on each other forever.
* Codec: decoding what was encoded gives back the same value, for every
  value that validation accepts.

## 2. Plan

Modules, in order of importance:

1. `PlasmaStream.tla` (done): servers, their stores and coordination
   sets. SYNC fan-out, the receiver and sender as step-by-step processes over
   a per-task TCP stream, network failure, Plasma store errors, other Plasma
   clients of the same store, and the error-code tables with the client's
   decoding. `MC_PlasmaStream.tla` instantiates it.
2. `WireCodec.tla` (done for the header and the id-list length): the object header and id-list length
   encode/decode as operators with the source's field widths (scaled, see
   below). They are checked against the identity over every value that
   validation accepts.
3. `Admission.tla` and `ConnectionPool.tla` (done): the listener's
   semaphore, accept and its backoff, the handler loop and its permit,
   the SYNC peer task and command-line clients, across two servers.
   `ConnectionPool` states what the semaphore promises, and `Admission`
   is checked to implement it.
4. `CoordinationSet.tla` (not written): an abstract specification of one
   coordination set as a lock table ("one owner per id, released at end").
   `PlasmaStream` does not implement it. A rejected receiver or TAKE sender
   releases ids it never owned, which `ps_receive_exclusive` and
   `ps_take_exclusive` show. So the refinement can only fail, at the same
   step.
5. `RequestCodec.tla` (done): `Request`/`PeerRequest` `write_into`,
   `read_from` and `validate` byte for byte, composed into `Admission`
   between the command-line client and the handler.

## 3. Modules and how they map to the code

### PlasmaStream

State:

| Variable | Code |
|---|---|
| `store[s][o]` | the Plasma store of server s: `"absent"`, `"unsealed"` (created, not sealed), `"sealed"` |
| `pendingDel[s]` | the Plasma client's deletion cache: ids deleted while the server held them |
| `receiving[s]`, `deleting[s]` | `Store::receiving`, `Store::deleting` |
| `sync[g]`, `response[g]` | one client connection running a SYNC; the bytes written back to it |
| `req[t]` | the PeerRequest of task t, with the address of the server it runs on |
| `rcv[t]`, `ri[t]` | where `process_peer_request` and `ObjectReceiver::run` are; the index of the object being read |
| `snd[t]`, `si[t]` | where the peer's handler and `ObjectSender::send_objects` are; the index of the object being written |
| `chan[t]`, `broken[t]` | the bytes in flight on the task's TCP stream (sender to receiver); whether the network broke it |
| `created[t]`, `result[t]` | history: ids this receiver created; its response code |
| `everSealed`, `appDeleted`, `appOps` | history of other Plasma clients (create-and-seal, delete) |
| `storeErrors` | how many Plasma calls have failed with `PlasmaError::UnknownError` (bounded by `MaxStoreErrors`) |
| `storeFailed[t]` | history: the servers whose Plasma call for task t returned an error (`UnknownError` or `AlreadyExists`); cleared when a SYNC reuses t |

Each action is one stretch of code between two await points (or one mutex
critical section), with every early return of that stretch as a disjunct.
Failure paths include the `Drop` of the sender or receiver and the rollback
`delete_many`, because the code runs them before the next await. The table
under "map" in `PROJECT.json` names the lines of every definition.

Abstractions:

* Object contents are reduced to a size class. `"ok"` is within limits,
  `"zero"` is zero-length data (accepted by the sender, rejected by the
  receiver), and `"big"` is data over `MAX_DATA_SIZE`. The exact byte
  encoding is in `WireCodec`.
* `get_many`, `contains_many` and `delete_many` loop over ids with one IPC
  per id. They are modelled as one atomic step each. `get` blocks until the
  object is sealed or the timeout fires; that is modelled as "sealed now:
  returned; otherwise: None".
* A peer's handler reading and validating the COPY/TAKE request is one step
  (`accept`). The request came from a validated SYNC, so it always
  validates.
* Writes to a stream whose reader has gone, or whose link broke, may fail or
  may vanish into the kernel buffer. Both outcomes are modelled.

Fault model of the Plasma store. Any call that `lib.rs` maps to
`PlasmaError::UnknownError` (an IPC failure or an out-of-memory store) may
fail, at most `MaxStoreErrors` times in a behaviour (`StoreFault`). The
failure is a disjunct of the step that makes the call:

* `contains_check`: `contains_many` fails, `StoreError`, the receiver is
  dropped;
* `read_header`: `create` fails (besides `AlreadyExists`), then rollback;
* `read_data`: `seal` fails, the buffer is released unsealed, then rollback;
* `get_objects`: a `get` of `get_many` fails, the sender writes
  `PLASMA_STORE_ERR`, and the receiver relabels it `PEER_PLASMA_STORE_ERR`.

`DeleteManyPending`, `ReleasedDeletes` and `PlasmaRelease` are the
environment: the C++ Plasma client's deferral of a delete of an object
the client has in use, until its last release. They are not translated
from this repository and have no entry in the map; `Release` is the code's
side, the `plasma::release` of each buffer on `ObjectBuffer::drop`.
`DeleteManyStore` is `delete_many` as `lib.rs:366-368` documents it.

A sender error goes through `SenderFail`, which writes the byte of
`SendErrorCode` when there is one: `ConnectionError`, the error of a
failed write (`SenderAbort`), has none, as in `ObjectSender::run`.

The TAKE `delete_many` after the stream is not a fault point. All the
objects are still held at that time, so the client only records them in
its deletion cache.

Response codes come from the code's own tables. `SendErrorCode`,
`ReceiveErrorCode` and `SyncErrorCode` are the three `response_code`
functions of `errors.rs`, and `PeerCode` is the relabelling of a peer's
byte. `PeerResultFrom` is the client's `PeerResult::from`, which decodes
each response byte.

Actions, in code order:

| Action | Code |
|---|---|
| `ClientSync(g)` | the handler reads a SYNC; `Dispatcher::run` either returns `PeerAddressIsSelf` (the handler returns, the connection closes) or spawns one task per peer request |
| `add_to_receiving`, `contains_check` | `ObjectReceiver::prepare` |
| `connect_and_request` | `TcpStream::connect` + `Request::write_into` (a failure is `PEER_CONNECTION_ERR`) |
| `accept` | the peer's handler reads the COPY/TAKE and builds the sender |
| `check_deleting`, `get_objects` | `check_deleting`; `get_objects` + `check_object_sizes` (errors write their code, then `Drop`) |
| `write_begin`, `send_object`, `send_done` | the BEGIN byte, one object, and the TAKE `delete_many` + release of the buffers + `Drop` |
| `read_status`, `read_header`, `read_data` | `ObjectReceiver::run`: status byte; header/size checks/metadata/`create`; data/`seal` (and `Ok` after the last) |
| `Respond(g)` | join of all tasks and the response bytes |
| `Break(t)`, `AppCreate`, `AppDelete` | the network breaking a stream; another client of the same Plasma store |

### WireCodec

One writer puts an object header or an object-id list on the wire. One reader
takes it off. `EncodeHeader`, `DecodeMeta` and `DecodeData` are the shifts
and casts of `send_object` and `read_object_header`. `EncodeIdList` and
`DecodeIdList` are the `u16` length prefix of `write_object_id_list` and
`read_object_id_list`. The field widths are constants. `MC_WireCodec` scales
them down (2-bit metadata size, 6-bit data size, 2-bit list length) and keeps
each limit's relation to its field: `MAX_META_SIZE = 2^16` is `2^MetaBits`,
`MAX_DATA_SIZE = 2^44` is `2^(DataBits-4)`, and `MAX_OBJECT_ID_LIST_LEN =
2^16` is `2^LenBits`. The overflow cases are therefore the same as in the
code.

### RequestCodec

The request frames of `request.rs` as operators over sequences of bytes. An
object id, 20 bytes on the wire, is one element of the sequence:
`read_object_id_list` takes ids whole. `WriteRequest` is
`Request::write_into`: the type byte, then for a SYNC the `u16` count of
peer requests and each `PeerRequest::write_into` (type byte,
`write_peer_addr`, id list), for a COPY or TAKE the id list. `ReadRequest`
is `Request::read_from` on a stream holding at least the type byte. It
returns `[ok, val, rest]` or `[ok, err]`, and `?` is the early return of the
first error (`ReadPeerRequests` is the loop). `ReadSocketAddr` reads the
family tag and the port; an IPv4 address is `ReadIpv4Address`, the
little-endian `u32` split with `as u8` and shifts. An IPv6 address reaches
`read_ipv6_address`, which is `unimplemented!()`: the result is the error
`"unimplemented"`, and `Admission` gives it the panic's effect. `ValidRequest`
is `Request::validate`: a SYNC has 1..1024 peer requests, each with a
non-empty list of at most 65,536 ids, and no id is received twice; a COPY or
TAKE has such a list with no duplicate.

### ConnectionPool and Admission

`ConnectionPool` is the promise in the comment on `limit_connections`
(`listener.rs:28-32`): each running server processes at most
`MaxConnections[s]` connections at once. Connections are admitted only by
a running server, and they all end when its process ends. Its state is
`admitted[s]` and `up`. Its actions are `Admit`, `Leave` and `Shutdown`.

`Admission` models how the code keeps that promise, over several servers
and clients:

| Variable | Code |
|---|---|
| `permits[s]`, `lst[s]`, `backoff[s]` | the `Semaphore`'s available permits; where `Listener::start` is (waiting for a permit, in `accept`, or the process has ended); the local `backoff` of `Listener::accept` |
| `conn[k]`, `queued[k]`, `dst[k]` | a TCP connection: open or closed, still in the kernel's accept backlog of server `dst[k]` |
| `hs[k]` | the `Handler` of connection k: none, in `Request::read_from`, or awaiting `Dispatcher::run` |
| `toSrv[k]`, `toCli[k]` | a request, or a reply, written and not yet read |
| `cl[c]`, `lines[c]` | the command-line client: its place in `main` and the lines of its script left |
| `sent[c]`, `dispatched[c]` | the peer requests of the SYNC c last wrote, and those its server decoded and handed to the dispatcher |
| `pt[c]` | the peer task spawned for c's SYNC (`process_peer_request`) |

Connection `<<c, 0>>` is client c's connection, and `<<c, i>>` is the peer
connection of its i-th SYNC. `cli.rs` `parse_request` makes one peer
request per line, so each SYNC has one peer task.

The bytes on a connection are real frames. A script line is a record
`[verb, addr, ids]`. `ParseRequest` is `parse_request`: too few tokens, an
address that is not a `SocketAddr`, an id that is not 20 hex bytes, or
another verb is an error, which `main` prints before going on. `client_sync`
takes a line, and `Client::sync` validates the SYNC before writing
`WriteRequest` of it; a malformed one is never sent. `handler_read` decodes
`toSrv[k]` with `ReadRequest`. A read error, a validation error or the
IPv6 panic ends the handler: the panic unwinds through `Handler::drop`,
which returns the permit and closes the socket, so the client's
`read_exact` ends with end of stream. The dispatcher's self-address check
compares the decoded `from` with the server's address, and the peer task
connects to the server whose address the decoded `from` is, writing the
COPY or TAKE frame of `process_peer_request`.

`Parsed`, `SyncValid`, `SyncFrame`, `PeerFrame` and `Decoded` tabulate
`ParseRequest`, `ValidRequest`, `WriteRequest` and `ReadRequest` for the
script's lines and the frames they produce, and `Decode` falls back to
`ReadRequest` for any other stream. They are the same functions: TLC
evaluates a constant definition once, but re-evaluates every `LET` of the
decoder each time it checks whether a fair action is enabled.

| Action | Code |
|---|---|
| `acquire(s)` | `acquire().await.unwrap().forget()` (`listener.rs:73`) |
| `accept(s)` | `Listener::accept` returns a queued socket; `start` spawns its `Handler` |
| `accept_error(s)` | `TcpListener::accept` fails; sleep and `backoff += 1`, or, when `backoff > 4`, `start` returns the error and `main` ends the process (`ServerExit`: its handlers and peer tasks die, its connections close, its backlog is reset) |
| `handler_read(k)` | one pass of `Handler::run`'s loop: end of stream returns; a SYNC naming the server's own address fails with `PeerAddressIsSelf` and `?` ends the handler; another SYNC starts the dispatcher; a COPY/TAKE runs the sender, which ends Ok or writes its error code and ends the handler |
| `dispatch_respond(c)` | `Dispatcher::run` joins the peer task and writes the response |
| `peer_connect(c)`, `peer_receive(c)` | `process_peer_request`: `receiver.prepare` failing, `connect` refused, or connect and write the request; then the receiver reads the reply (or end of stream) and the socket is shut down |
| `client_connect`, `client_sync`, `client_response`, `client_exit` | `Client::connect` (failure ends `main`); `parse_request` and `Client::sync`'s validate and write of one line; reading the response; the end of the script |

`Drop(k)` is `Handler::drop`: the socket closes and one permit is added
back. Objects are abstracted away; `PlasmaStream` models them. A COPY/TAKE
and its reply are one message each, and `receiver.prepare`'s store checks
are a nondeterministic failure.

`PoolRefinement` is `ConnectionPool!Spec` under the mapping
`admitted[s] = {k : hs[k] # "none" /\ dst[k] = s}` and
`up = {s : lst[s] # "stopped"}`.

## 4. Runs

`PROJECT.json` "runs" lists every run. Passing runs:

* `ps_safety` (`MC_PlasmaStream.cfg`). Two servers (x and y sealed at A),
  and two SYNC slots that are separate client connections, so two tasks can
  name the same ids. Id lists are up to 2 long; y has zero-length data. At
  most 2 SYNCs, 1 network failure (a failed connect or a broken stream) and 1
  create/delete by another client. It checks `TypeOK`, `NoStaleReceiving`,
  and `NoStaleDeleting`. About 1.8 million states, about 2 minutes.
* `ps_liveness` (`MC_PlasmaStream_live.cfg`). One SYNC with two peer
  requests, with y over the size limit, one network failure and one Plasma
  store error (`MaxStoreErrors = 1`). There are no other store clients
  (`MaxAppOps = 0`). It checks `StreamWellFormed`, `StoreErrorsAttributed`
  and `SyncCompletes`. `StoreErrorsAttributed` says that, once the SYNC is
  answered, each byte the client decodes as `PlasmaStoreError` names a
  server whose store call failed on the receiving side. Each
  `PeerPlasmaStoreError` names a failure on the sending side, and each `Ok`
  task saw no store error at all. About 155,000 states, about 30 seconds.

* `adm` (`MC_Admission.cfg`). Two servers, A with one permit and B with
  two, two clients with one-line scripts, and up to five accept errors (so
  that one server can exit). A script line is one of seven: a COPY from A,
  a `take` from B, a COPY from an IPv6 address, a COPY naming one id twice,
  a line with a bad address, one with an id that does not decode and one
  with the verb MOVE. It checks `TypeOK`, `SyncDispatchedAsSent` (while a
  handler dispatches a SYNC, the peer requests it decoded are the ones its
  client wrote: the codec's write and read agree, the IPv4 octet order
  included), `PoolRefinement` and `SyncAnswered` (every SYNC sent is
  answered, by a response or by its connection closing, the IPv6 panic
  included). About 286,000 states, about 2.5 minutes.

Between them, these runs fire every action and every disjunct. Zero-length
objects only appear in the first run and oversized objects only in the
second. Each property has a mutant in `PROJECT.json`: a plausible bug in
the mapped code that TLC catches.

Violation runs (each checks one property that the spec or the code's
comments state):

| Run | Property | What TLC finds |
|---|---|---|
| `ps_receive_exclusive` | `ReceiveExclusive` | A receiver rejected with AlreadyReceiving removes the ids of the receiver that owns them (`receiver.rs:150-164`). A third request for the same id is then admitted. |
| `ps_take_exclusive` | `TakeExclusive` | The same for a TAKE rejected with ObjectDeletionScheduled (`sender.rs:220-235`). Two TAKEs of one id run at once. Three servers. |
| `ps_leaked_unsealed` | `NoLeakedUnsealed` | The stream breaks after `create`. The buffer is released without `abort`, and the rollback `delete_many` does nothing to an unsealed object. |
| `ps_take_zero_length` | `NoObjectLost` | A TAKE of a zero-length object. The sender accepts it and deletes it at the source; the receiver rejects it. |
| `ps_rollback_foreign` | `RollbackDeletesOnlyOwn` | Another client creates the object between `contains_many` and `create`. `create` fails and the rollback deletes that client's object. |
| `ps_self_address` | `SyncAlwaysAnswered` | `PeerAddressIsSelf` closes the client connection with no byte; the spec expects `[0x90]`. |
| `adm_sync_cycle` | `SyncAnswered` | Both servers have one permit. Client 1's SYNC on A names B and client 2's SYNC on B names A. Each handler keeps its permit while its peer task's connection waits in the other's backlog. The listeners wait in `acquire`, and no SYNC is ever answered. The spec gives no operation but `get_many` a timeout. |
| `wc_header` | `HeaderRoundTrip` | Metadata of exactly `MAX_META_SIZE` bytes is read back as 0 bytes, with the data size one too large. |
| `wc_id_list` | `IdListRoundTrip` | An id list of exactly `MAX_OBJECT_ID_LIST_LEN` ids is written with length 0. |

### Bounds

Two ids and lists of up to two ids give overlapping requests, both orders of
a two-object stream, and a failure on the first or on the second object.
Two SYNCs give every pair of concurrent requests on one server. The
exclusivity violations need a third request; those runs raise the bound
to three. One network failure reaches every failure point of every step,
because `Break` may fire at any point of a stream.

For `Admission`, one permit on A and two on B make A's limit reachable.
A runs out of permits whenever two connections reach it, so a lost permit
or an over-admission shows up. No cycle can hold all permits: B always has
room for A's peer connection. The cycle needs one permit on each server,
and `adm_sync_cycle` uses exactly that. The fifth accept error of one
`accept` call is the only way a server exits, so the bound is five.
The script lines reach every exit of `parse_request`, the client's
`validate`, both request types, both address families and, at the
handler, the self-address check (a COPY from A sent to A). The addresses
are `10.0.0.1` and `10.0.0.2`: every octet is below 128, so
`ReadU32le` stays inside TLC's 32-bit integers.

One store error reaches every fault point (`contains_many`, `create`,
`seal`, `get_many`), because the error may strike at any of them.
`ps_liveness` sets `MaxAppOps = 0`. Other store clients only matter to
these properties through the error exits they cause (`AlreadyExists` on
`create`, `ObjectsNotFound` on `get_many`), and the store faults exercise
those same exits. `ps_safety` keeps `MaxAppOps = 1` and
`MaxStoreErrors = 0`: with both set to 1, one run takes more than
3 minutes. With
scripts of two lines and five errors, the state space grows beyond what
one run can check in minutes.

### Fairness

Weak fairness on each task's receiver steps, on each task's sender steps and
on `Respond`. tokio keeps polling a spawned task until it completes. Each
step's enabling condition is the readiness of its socket or the end of its
critical section. There is no fairness on clients (`ClientSync`), the
network (`Break`) or other store clients, because none of them is obliged to
act.

In `Admission`, weak fairness is on each listener's `acquire` and `accept`,
on each handler, on each peer task and on each client. Clients run finite
scripts and exit at their end (`cli.rs main` returns at end of input).
Accept errors come from the environment and are not assumed to happen.

## 5. Not modelled

* A peer that stays connected and stops sending. Receiver reads have no
  timeout (`receiver.rs:83`, `receiver.rs:217`), so it would wait forever;
  the model makes a broken link an immediate read error, which is what
  `SyncCompletes` covers.
* Tracing and Display implementations: formatting only. The CLI's token
  splitting and hex decoding are abstracted to a line record whose fields
  are already split, and a bad token to a value outside the sets.
* Task panics (`PEER_REQUEST_PANICKED`): the only panics are a failed
  Plasma release (`lib.rs:209`) and poisoned mutexes, and neither is reached
  by the modelled operations.
* The Plasma store daemon itself: its behaviour is taken from the binding's
  documented contract (`lib.rs`) and the spec.
* The wait inside `get`/`get_many` (up to `timeout_ms` for an object that is
  not sealed yet). `get_many` is modelled as "sealed now, or None".
* Bytes that no modelled writer produces on a handler's connection. The
  codec decodes any stream, but the only writers are the client and the
  peer task, which both write valid frames.
* A client that keeps its connection open without sending. It holds a
  permit forever, by the design of the semaphore. The clients modelled run
  finite scripts.
* A failing rollback `delete_many` (its result is ignored by
  `ObjectReceiver::run`) and a failing `ObjectBuffer` release (a panic).
* Address aliases. The models give each server one address, so a SYNC
  cannot name its own server under another address and slip past the
  byte-for-byte self check (`dispatcher.rs:35`). It is listed as a hazard.
  Showing the resulting self-wait needs a violation run of its own.
* `ClientOptions` parsing (structopt) and `Client::copy`/`Client::take`,
  which are `unimplemented!()` and never called.
