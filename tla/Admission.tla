----------------------------- MODULE Admission -----------------------------
(***************************************************************************)
(* Connection admission across plasma-stream servers: the accept loop of   *)
(* each server (server/listener.rs start and accept) with its semaphore of *)
(* max_connections permits, the per-connection handler (server/handler.rs  *)
(* run and Drop), the SYNC dispatcher and the peer task it spawns          *)
(* (server/dispatcher.rs), and command-line clients (client/cli.rs main,   *)
(* client/mod.rs Client) that connect to one server and send one SYNC per  *)
(* line of a finite script, each SYNC naming one peer (cli.rs              *)
(* parse_request returns one PeerRequest).                                 *)
(*                                                                         *)
(* Objects are abstracted away (PlasmaStream.tla models them): a COPY or   *)
(* TAKE served by a sender and read by a receiver is one message, and the  *)
(* store checks of receiver.prepare are a nondeterministic failure.        *)
(*                                                                         *)
(* Connection <<c, 0>> is client c's connection; <<c, i>> is the peer      *)
(* connection opened for the SYNC of line i of its script.                 *)
(***************************************************************************)
EXTENDS Naturals, Sequences, FiniteSets

Codec == INSTANCE RequestCodec

CONSTANTS
    Servers,          \* server processes, each listening on one address
    Clients,          \* command-line clients
    MaxConnections,   \* MaxConnections[s]: --max-connections of server s
    Lines,            \* the number of lines of each client's script
    MaxAcceptErrors,  \* bound on the failures of TcpListener::accept
    NoServer,         \* dst of a connection not yet made
    Addr,             \* Addr[s]: the socket address clients and peers reach s at
    ObjectIds,        \* object-id tokens that hex-decode to 20 bytes
    ScriptLines       \* the lines a client's script may hold: [verb, addr, ids]

ASSUME MaxConnections \in [Servers -> Nat \ {0}] /\ Lines \in Nat /\ MaxAcceptErrors \in Nat
ASSUME NoServer \notin Servers

Conns == Clients \X (0 .. Lines)
ClientConn(c) == <<c, 0>>

\* Socket addresses (request.rs): an IPv4 or an IPv6 address and a port.
SocketAddrs ==
    [family : {"V4"}, port : 0 .. 65535, ip : [1 .. 4 -> 0 .. 255]]
        \cup [family : {"V6"}, port : 0 .. 65535, ip : [1 .. 16 -> 0 .. 255]]

PeerRequests == [kind : {"COPY", "TAKE"}, from : SocketAddrs, objects : Seq(ObjectIds)]

SyncOf(peers) == [type |-> "SYNC", peers |-> peers, objects |-> <<>>]

\* cli.rs parse_request: a line of fewer than three tokens, an address that
\* is no SocketAddr, an id that does not hex-decode to 20 bytes, or a verb
\* other than copy/COPY/take/TAKE is an error; otherwise the line is one
\* PeerRequest.
ParseRequest(l) ==
    IF \/ l.ids = <<>>
       \/ l.addr \notin SocketAddrs
       \/ \E i \in DOMAIN l.ids : l.ids[i] \notin ObjectIds
       \/ l.verb \notin {"copy", "COPY", "take", "TAKE"}
    THEN Codec!Err("invalid request")
    ELSE Codec!Ok(<<[kind |-> IF l.verb \in {"copy", "COPY"} THEN "COPY" ELSE "TAKE",
                     from |-> l.addr, objects |-> l.ids]>>, <<>>)


\* Client::sync of each script line, computed once: whether parse_request
\* and validate accept it, and the frame write_into puts on the wire.
Parsed == [l \in ScriptLines |-> ParseRequest(l)]
SyncValid == [l \in ScriptLines |-> Parsed[l].ok /\ Codec!ValidRequest(SyncOf(Parsed[l].val))]
SyncFrame == [l \in {l \in ScriptLines : SyncValid[l]} |-> Codec!WriteRequest(SyncOf(Parsed[l].val))]

\* The COPY or TAKE frame process_peer_request writes for a peer request.
PeerFrameOf(p) == Codec!WriteRequest([type |-> p.kind, peers |-> <<>>, objects |-> p.objects])
PeerFrame == [p \in {Parsed[l].val[1] : l \in DOMAIN SyncFrame} |-> PeerFrameOf(p)]
WritePeerFrame(p) == IF p \in DOMAIN PeerFrame THEN PeerFrame[p] ELSE PeerFrameOf(p)

\* Request::read_from, tabulated for the frames the scripts produce.
Decoded == [w \in {SyncFrame[l] : l \in DOMAIN SyncFrame} \cup {PeerFrame[p] : p \in DOMAIN PeerFrame}
              |-> Codec!ReadRequest(w)]
Decode(w) == IF w \in DOMAIN Decoded THEN Decoded[w] ELSE Codec!ReadRequest(w)

\* listener.rs accept: `if backoff > 4 { return Err }`.
MaxBackoff == 4

VARIABLES
    permits,       \* permits[s]: available permits of limit_connections
    lst,           \* lst[s]: where the listener of s is in its loop
    backoff,       \* backoff[s]: the local `backoff` of Listener::accept
    acceptErrors,  \* failures of accept so far, over all servers
    conn,          \* conn[k]: "none", "open" or "closed"
    queued,        \* queued[k]: k is in the accept backlog of dst[k]
    dst,           \* dst[k]: the server connection k goes to
    hs,            \* hs[k]: "none" (no Handler), "read" or "dispatch"
    toSrv,         \* toSrv[k]: a request on k the server has not read
    toCli,         \* toCli[k]: a reply on k the connecting side has not read
    cl,            \* cl[c]: "start", "ready", "waiting" or "done"
    lines,         \* lines[c]: lines of c's script not yet sent
    sent,          \* sent[c]: the peer requests of the SYNC c last wrote
    dispatched,    \* dispatched[c]: the peer requests c's server decoded and dispatched
    pt             \* pt[c]: peer task of c's SYNC: "none", "connect", "wait", "done"

listenerVars == <<permits, lst, backoff, acceptErrors>>
connVars == <<conn, queued, dst, hs, toSrv, toCli>>
reqVars == <<sent, dispatched>>
vars == <<permits, lst, backoff, acceptErrors, conn, queued, dst, hs, toSrv,
          toCli, cl, lines, sent, dispatched, pt>>

\* The peer connection of c's SYNC in progress.
Out(c) == <<c, Lines - lines[c] + 1>>

TypeOK ==
    /\ permits \in [Servers -> Nat]
    /\ lst \in [Servers -> {"acquire", "accept", "stopped"}]
    /\ backoff \in [Servers -> 1 .. MaxBackoff + 1]
    /\ acceptErrors \in 0 .. MaxAcceptErrors
    /\ conn \in [Conns -> {"none", "open", "closed"}]
    /\ queued \in [Conns -> BOOLEAN]
    /\ dst \in [Conns -> Servers \cup {NoServer}]
    /\ hs \in [Conns -> {"none", "read", "dispatch"}]
    /\ toSrv \in [Conns -> Seq(Nat \cup ObjectIds)] /\ toCli \in [Conns -> BOOLEAN]
    /\ cl \in [Clients -> {"start", "ready", "waiting", "done"}]
    /\ lines \in [Clients -> 0 .. Lines]
    /\ sent \in [Clients -> Seq(PeerRequests)]
    /\ dispatched \in [Clients -> Seq(PeerRequests)]
    /\ pt \in [Clients -> {"none", "connect", "wait", "done"}]

Init ==
    /\ permits = [s \in Servers |-> MaxConnections[s]]
    /\ lst = [s \in Servers |-> "acquire"]
    /\ backoff = [s \in Servers |-> 1]
    /\ acceptErrors = 0
    /\ conn = [k \in Conns |-> "none"]
    /\ queued = [k \in Conns |-> FALSE]
    /\ dst = [k \in Conns |-> NoServer]
    /\ hs = [k \in Conns |-> "none"]
    /\ toSrv = [k \in Conns |-> <<>>]
    /\ toCli = [k \in Conns |-> FALSE]
    /\ cl = [c \in Clients |-> "start"]
    /\ lines = [c \in Clients |-> Lines]
    /\ sent = [c \in Clients |-> <<>>]
    /\ dispatched = [c \in Clients |-> <<>>]
    /\ pt = [c \in Clients |-> "none"]

\* TcpStream::connect to s: the kernel completes it and queues the
\* connection for accept whether or not the listener has a permit; the
\* request written after it waits in the socket.
Connect(k, s, request) ==
    /\ conn' = [conn EXCEPT ![k] = "open"]
    /\ queued' = [queued EXCEPT ![k] = TRUE]
    /\ dst' = [dst EXCEPT ![k] = s]
    /\ toSrv' = [toSrv EXCEPT ![k] = request]

Running(s) == lst[s] # "stopped"

-----------------------------------------------------------------------------
(* Listener *)

\* A bug the code avoids: `acquire().await.unwrap();` without forget() drops
\* the permit at the end of the statement.
acquire_no_forget(s) ==
    /\ lst[s] = "acquire" /\ permits[s] > 0
    /\ lst' = [lst EXCEPT ![s] = "accept"]
    /\ UNCHANGED <<permits, backoff, acceptErrors, connVars, cl, lines, reqVars, pt>>

\* Listener::start, line 73: wait for a permit and forget it; the handler
\* of the connection accepted next gives it back.
acquire(s) ==
    /\ lst[s] = "acquire" /\ permits[s] > 0
    /\ permits' = [permits EXCEPT ![s] = @ - 1]
    /\ lst' = [lst EXCEPT ![s] = "accept"]
    /\ UNCHANGED <<backoff, acceptErrors, connVars, cl, lines, reqVars, pt>>

\* Listener::accept returns a socket from the backlog; start creates its
\* Handler and spawns handler.run.  The next call of accept starts again
\* with backoff 1.
accept(s) ==
    /\ lst[s] = "accept"
    /\ \E k \in Conns :
          /\ queued[k] /\ dst[k] = s
          /\ queued' = [queued EXCEPT ![k] = FALSE]
          /\ hs' = [hs EXCEPT ![k] = "read"]
    /\ lst' = [lst EXCEPT ![s] = "acquire"]
    /\ backoff' = [backoff EXCEPT ![s] = 1]
    /\ UNCHANGED <<permits, acceptErrors, conn, dst, toSrv, toCli, cl, lines,
                   reqVars, pt>>

\* The server process ends: every handler and peer task of s ends with it,
\* the connections it holds are closed, connections in its backlog are
\* reset, and what was sent to it and not read is lost.
ServerExit(s) ==
    LET tasks == {c \in Clients : dst[ClientConn(c)] = s /\ pt[c] # "none"}
        outs  == {Out(c) : c \in tasks}
    IN  /\ lst' = [lst EXCEPT ![s] = "stopped"]
        /\ conn' = [k \in Conns |->
                      IF (dst[k] = s \/ k \in outs) /\ conn[k] = "open"
                      THEN "closed" ELSE conn[k]]
        /\ queued' = [k \in Conns |-> queued[k] /\ dst[k] # s]
        /\ hs' = [k \in Conns |-> IF dst[k] = s THEN "none" ELSE hs[k]]
        /\ toSrv' = [k \in Conns |-> IF dst[k] = s THEN <<>> ELSE toSrv[k]]
        /\ toCli' = [k \in Conns |-> toCli[k] /\ k \notin outs]
        /\ pt' = [c \in Clients |-> IF c \in tasks THEN "none" ELSE pt[c]]

\* A bug the code avoids: a retry loop with no limit on its backoff.
accept_error_no_limit(s) ==
    /\ lst[s] = "accept" /\ acceptErrors < MaxAcceptErrors
    /\ acceptErrors' = acceptErrors + 1
    /\ backoff' = [backoff EXCEPT ![s] = @ + 1]
    /\ UNCHANGED <<permits, lst, connVars, pt, cl, lines, reqVars>>

\* TcpListener::accept fails.  Listener::accept sleeps `backoff` seconds
\* and retries, unless backoff > 4: then it returns the error, start
\* returns it, and main returns, which ends the server process.
accept_error(s) ==
    /\ lst[s] = "accept" /\ acceptErrors < MaxAcceptErrors
    /\ acceptErrors' = acceptErrors + 1
    /\ IF backoff[s] > MaxBackoff
       THEN ServerExit(s) /\ UNCHANGED <<permits, backoff, dst>>
       ELSE /\ backoff' = [backoff EXCEPT ![s] = @ + 1]
            /\ UNCHANGED <<permits, lst, connVars, pt>>
    /\ UNCHANGED <<cl, lines, reqVars>>

-----------------------------------------------------------------------------
(* Connection handler and dispatcher *)

\* A bug the code avoids: a Handler whose Drop does not give its permit back.
Drop_no_permit(k) ==
    /\ hs' = [hs EXCEPT ![k] = "none"]
    /\ conn' = [conn EXCEPT ![k] = "closed"]
    /\ UNCHANGED permits

\* Handler::run returns and the Handler is dropped: its socket is closed
\* and Drop adds a permit back to the semaphore.
Drop(k) ==
    /\ hs' = [hs EXCEPT ![k] = "none"]
    /\ conn' = [conn EXCEPT ![k] = "closed"]
    /\ permits' = [permits EXCEPT ![dst[k]] = @ + 1]

\* handler.rs run, one pass of its loop: read_from returns None when the
\* peer closed the socket and run returns Ok.  A SYNC naming the server's
\* own address fails in Dispatcher::run with PeerAddressIsSelf, which `?`
\* returns from run; any other SYNC spawns the peer task.  A COPY or TAKE
\* is served by the sender, which either ends Ok (the loop reads again) or
\* writes an error code and returns Err.
handler_read(k) ==
    /\ hs[k] = "read"
    /\ \/ /\ toSrv[k] = <<>> /\ conn[k] = "closed"   \* read_from is Ok(None)
          /\ Drop(k)
          /\ UNCHANGED <<toSrv, toCli, pt, dispatched>>
       \/ /\ toSrv[k] # <<>>
          /\ \E d \in {Decode(toSrv[k])} :
               LET ok == d.ok /\ Codec!ValidRequest(d.val) IN
               \/ /\ ~ok   \* read_from or validate fails, or read_ipv6_address
                  /\ toSrv' = [toSrv EXCEPT ![k] = <<>>]   \* panics and unwinds
                  /\ Drop(k)                                \* through Drop
                  /\ UNCHANGED <<toCli, pt, dispatched>>
               \/ /\ ok
                  /\ toSrv' = [toSrv EXCEPT ![k] = d.rest]
                  /\ IF d.val.type = "SYNC"   \* k is a client's connection <<c, 0>>
                     THEN IF \E i \in DOMAIN d.val.peers : d.val.peers[i].from = Addr[dst[k]]
                          THEN Drop(k) /\ UNCHANGED <<toCli, pt, dispatched>>
                          ELSE /\ hs' = [hs EXCEPT ![k] = "dispatch"]
                               /\ pt' = [pt EXCEPT ![k[1]] = "connect"]
                               /\ dispatched' = [dispatched EXCEPT ![k[1]] = d.val.peers]
                               /\ UNCHANGED <<permits, conn, toCli>>
                     ELSE /\ toCli' = [toCli EXCEPT ![k] = TRUE]
                          /\ \/ UNCHANGED <<permits, conn, hs>>
                             \/ Drop(k)
                          /\ UNCHANGED <<pt, dispatched>>
    /\ UNCHANGED <<lst, backoff, acceptErrors, queued, dst, cl, lines, sent>>

\* Dispatcher::run, lines 51-71: join the peer task and write the one-byte
\* response to the client; the handler loop then reads again.
dispatch_respond(c) ==
    LET k == ClientConn(c) IN
    /\ hs[k] = "dispatch" /\ pt[c] = "done"
    /\ toCli' = [toCli EXCEPT ![k] = TRUE]
    /\ hs' = [hs EXCEPT ![k] = "read"]
    /\ pt' = [pt EXCEPT ![c] = "none"]
    /\ dispatched' = [dispatched EXCEPT ![c] = <<>>]
    /\ UNCHANGED <<listenerVars, conn, queued, dst, toSrv, cl, lines, sent>>

-----------------------------------------------------------------------------
(* Peer task: dispatcher.rs process_peer_request *)

\* receiver.prepare fails (the store checks of PlasmaStream), or
\* TcpStream::connect is refused because the peer process has ended; or the
\* connection is made to the server at `from` and Request::Copy or
\* Request::Take of the objects written into it.
peer_connect(c) ==
    LET p == dispatched[c][1] IN
    /\ pt[c] = "connect"
    /\ \/ /\ pt' = [pt EXCEPT ![c] = "done"]
          /\ UNCHANGED connVars
       \/ /\ \E s \in Servers :
                /\ Addr[s] = p.from /\ Running(s)
                /\ Connect(Out(c), s, WritePeerFrame(p))
          /\ pt' = [pt EXCEPT ![c] = "wait"]
          /\ UNCHANGED <<hs, toCli>>
    /\ UNCHANGED <<listenerVars, cl, lines, reqVars>>

\* receiver.run reads the sender's reply, or fails at end of stream; the
\* socket is shut down, or dropped with the error, and the task ends.
peer_receive(c) ==
    LET k == Out(c) IN
    /\ pt[c] = "wait"
    /\ toCli[k] \/ conn[k] = "closed"
    /\ toCli' = [toCli EXCEPT ![k] = FALSE]
    /\ conn' = [conn EXCEPT ![k] = "closed"]
    /\ pt' = [pt EXCEPT ![c] = "done"]
    /\ UNCHANGED <<listenerVars, queued, dst, hs, toSrv, cl, lines, reqVars>>

-----------------------------------------------------------------------------
(* Command-line client: client/cli.rs main and client/mod.rs *)

\* Client::connect; when it fails, main returns the error.
client_connect(c) ==
    /\ cl[c] = "start"
    /\ \E s \in Servers :
          IF Running(s)
          THEN /\ Connect(ClientConn(c), s, <<>>)
               /\ cl' = [cl EXCEPT ![c] = "ready"]
               /\ UNCHANGED <<hs, toCli>>
          ELSE /\ cl' = [cl EXCEPT ![c] = "done"]
               /\ UNCHANGED connVars
    /\ UNCHANGED <<listenerVars, lines, reqVars, pt>>

\* main parses the next line; Client::sync validates the SYNC of its peer
\* request and writes it.  A parse or validation error is printed and main
\* goes on with the next line.
client_sync(c) ==
    /\ cl[c] = "ready" /\ lines[c] > 0
    /\ \E l \in ScriptLines :
          \/ /\ ~SyncValid[l]
             /\ lines' = [lines EXCEPT ![c] = @ - 1]
             /\ UNCHANGED <<toSrv, cl, sent>>
          \/ /\ SyncValid[l]
             /\ toSrv' = [toSrv EXCEPT ![ClientConn(c)] = @ \o SyncFrame[l]]
             /\ sent' = [sent EXCEPT ![c] = Parsed[l].val]
             /\ cl' = [cl EXCEPT ![c] = "waiting"]
             /\ UNCHANGED lines
    /\ UNCHANGED <<listenerVars, conn, queued, dst, hs, toCli, pt, dispatched>>

\* Client::sync read_exact gets the response, or fails at end of stream;
\* main prints either and goes on with the next line.
client_response(c) ==
    LET k == ClientConn(c) IN
    /\ cl[c] = "waiting"
    /\ toCli[k] \/ conn[k] = "closed"
    /\ toCli' = [toCli EXCEPT ![k] = FALSE]
    /\ lines' = [lines EXCEPT ![c] = @ - 1]
    /\ cl' = [cl EXCEPT ![c] = "ready"]
    /\ UNCHANGED <<listenerVars, conn, queued, dst, hs, toSrv, reqVars, pt>>

\* The script ends: main returns and the socket is dropped.
client_exit(c) ==
    /\ cl[c] = "ready" /\ lines[c] = 0
    /\ conn' = [conn EXCEPT ![ClientConn(c)] = "closed"]
    /\ cl' = [cl EXCEPT ![c] = "done"]
    /\ UNCHANGED <<listenerVars, queued, dst, hs, toSrv, toCli, lines, reqVars, pt>>

-----------------------------------------------------------------------------

Next ==
    \/ \E s \in Servers : acquire(s) \/ accept(s) \/ accept_error(s)
    \/ \E k \in Conns : handler_read(k)
    \/ \E c \in Clients :
          \/ dispatch_respond(c) \/ peer_connect(c) \/ peer_receive(c)
          \/ client_connect(c) \/ client_sync(c) \/ client_response(c)
          \/ client_exit(c)

\* Tokio runs every spawned task that can make progress, and the listener
\* loop is a task of its own; clients run scripts that end.  accept errors
\* come from the environment and are not assumed to happen.
Fairness ==
    /\ \A s \in Servers : WF_vars(acquire(s)) /\ WF_vars(accept(s))
    /\ \A k \in Conns : WF_vars(handler_read(k))
    /\ \A c \in Clients :
          /\ WF_vars(dispatch_respond(c) \/ peer_connect(c) \/ peer_receive(c))
          /\ WF_vars(client_connect(c) \/ client_sync(c) \/ client_response(c)
                     \/ client_exit(c))

Spec == Init /\ [][Next]_vars /\ Fairness

-----------------------------------------------------------------------------
(* Properties *)

\* The semaphore, the permit forgotten by the listener and the one given
\* back by Handler::drop implement the pool the listener promises: at most
\* max_connections connections handled at once by a running server.
Pool == INSTANCE ConnectionPool WITH
    admitted <- [s \in Servers |-> {k \in Conns : hs[k] # "none" /\ dst[k] = s}],
    up <- {s \in Servers : Running(s)}

PoolRefinement == Pool!Spec

\* The peer requests the dispatcher spawns tasks for are those of the line
\* the client sent: Request::write_into in Client::sync and
\* Request::read_from in the handler agree on every frame the CLI can send,
\* the peer's socket address included, so the SYNC goes to the peer the
\* user named.
SyncDispatchedAsSent ==
    \A c \in Clients : hs[ClientConn(c)] = "dispatch" => dispatched[c] = sent[c]

\* Every SYNC a client sends is answered, with a response or an error:
\* no set of servers ends up with every permit held by handlers that wait
\* for peer connections queued behind each other's listeners.
SyncAnswered == \A c \in Clients : cl[c] = "waiting" ~> cl[c] # "waiting"

=============================================================================
