----------------------------- MODULE HttpServer -----------------------------
(***************************************************************************)
(* The HTTP/HTTPS reactor of src/src/http_server/http_server.c: one thread *)
(* polls the listening sockets and a compacted table of client pollfds     *)
(* (fds.cli[0..conns_count-1]), accepts connections, and for every client  *)
(* pollfd reporting POLLIN runs handle_conn: a blocking recv loop into the *)
(* shared request buffer, route dispatch, and the response sent with       *)
(* sendall.  A closed connection is removed with compress_fds and the scan *)
(* resumes at the same index.                                              *)
(*                                                                         *)
(* The peers are modelled too: each client socket connects to one port,    *)
(* sends requests as byte chunks (a byte is TRUE when it ends a request,   *)
(* which is when the external http_parser fires on_message_complete), and  *)
(* may close its side at any time.  Byte contents, header text and logging *)
(* are abstracted away; lengths are kept.                                  *)
(***************************************************************************)
EXTENDS Naturals, Sequences, FiniteSets

CONSTANTS
    Sock,             \* client TCP connections (model values)
    NoFd,             \* the fd of a cleared pollfd (memset to 0)
    Port,             \* [Sock -> listener] the listener each client targets
    NONSECURE,        \* CONFIG_CONTROLLER_HTTP_SERVER_NONSECURE
    MAX_CONNS,        \* CONFIG_CONTROLLER_MAX_HTTP_CONNECTIONS
    REQ_BUF_SIZE,     \* sizeof(buffer.request), in abstract byte units
    HDR_LEN,          \* length of the encoded status line and headers
    BODY_LENS,        \* content lengths a route handler may produce
    BACKLOG,          \* zsock_listen backlog
    MaxReqs,          \* bound: requests a client sends on one connection
    MaxReqLen,        \* bound: length of one request
    SETUP_MAY_FAIL,   \* whether setup_socket may fail at startup
    ACCEPT_MAY_FAIL,  \* whether zsock_accept may fail (e.g. TLS handshake)
    SEND_MAY_FAIL     \* whether zsock_send may fail on a peer-closed socket

(* The listeners compiled in, and their place at the front of fds.array.  *)
Listeners == IF NONSECURE THEN {"srv", "sec"} ELSE {"sec"}
SERVER_FD_COUNT == IF NONSECURE THEN 2 ELSE 1
LPos(l) == IF l = "srv" THEN 0 ELSE SERVER_FD_COUNT - 1
CliPos(i) == SERVER_FD_COUNT + i

Slots == 0 .. MAX_CONNS - 1
Statuses == {200, 404, 500}

ASSUME ConstAssumption ==
    /\ NoFd \notin Sock
    /\ Port \in [Sock -> Listeners]
    /\ NONSECURE \in BOOLEAN
    /\ MAX_CONNS \in Nat \ {0}
    /\ REQ_BUF_SIZE \in Nat \ {0}
    /\ HDR_LEN \in Nat \ {0}
    /\ BODY_LENS \subseteq Nat /\ BODY_LENS # {}
    /\ BACKLOG \in Nat \ {0}
    /\ MaxReqs \in Nat
    /\ MaxReqLen \in Nat \ {0}
    /\ {SETUP_MAY_FAIL, ACCEPT_MAY_FAIL, SEND_MAY_FAIL} \subseteq BOOLEAN

(* listening_count is the number of listeners setup opened: a natural,    *)
(* for each set of listeners http_srv_setup_sockets may leave open.        *)
ASSUME ListenerCount == \A L \in SUBSET Listeners : Cardinality(L) \in Nat

VARIABLES
    \* --- server (http_server.c) ---
    listening,    \* listeners whose setup_socket succeeded
    backlog,      \* [Listeners -> Seq(Sock)] pending connections per listener
    lrev,         \* listeners whose revents had POLLIN after the last poll
    cli,          \* fds.cli: [Slots -> [fd, rev]]
    conns_count,  \* live client pollfds (http_conn pool size)
    pc,           \* where the reactor thread is
    idx,          \* the scan index of http_srv_thread
    rlen,         \* req->len in recv_request
    complete,     \* conn->complete
    keep_alive,   \* conn->keep_alive
    status,       \* resp->status_code
    content_len,  \* resp->content_len
    part,         \* which sendall of http_srv_send_response is running
    slen,         \* len argument of the running sendall
    ssent,        \* sent counter of the running sendall
    \* --- peers ---
    phase,        \* [Sock -> {"idle","backlog","up","down"}]
    fin,          \* [Sock -> BOOLEAN] the peer closed its side
    wire,         \* [Sock -> Seq(BOOLEAN)] bytes sent by the peer, unread
    nreq,         \* [Sock -> Nat] requests begun by the peer
    left,         \* [Sock -> Nat] bytes of the current request still to send
    answered,     \* [Sock -> Nat] responses fully sent to the peer
    err,          \* [Sock -> BOOLEAN] the socket is in error (send fails)
    \* --- history, for the properties ---
    txlog,        \* bytes of the current response, in the order the peer got them
    readyAt,      \* client sockets reported POLLIN by the last poll
    served        \* client sockets handle_conn ran for since the last poll

srvVars == <<listening, backlog, lrev, cli, conns_count, pc, idx, rlen,
             complete, keep_alive, status, content_len, part, slen, ssent>>
peerVars == <<phase, fin, wire, nreq, left, answered, err>>
histVars == <<txlog, readyAt, served>>
vars == <<srvVars, peerVars, histVars>>

EmptyPfd == [fd |-> NoFd, rev |-> FALSE]
Cur == cli[idx].fd

-----------------------------------------------------------------------------
(* http_code_has_payload: only a 200 response carries its body (the       *)
(* warning of http_srv_send_response reads "(%d != 200)").                 *)
HasPayload(code) == code = 200

(* Startup of http_srv_setup_sockets: the plaintext listener first, then  *)
(* the TLS one; a failure jumps to exit and skips what follows.            *)
SetupOutcomes ==
    IF ~SETUP_MAY_FAIL THEN {Listeners}
    ELSE IF NONSECURE THEN {{}, {"srv"}, {"srv", "sec"}}
    ELSE {{}, {"sec"}}

(* poll() covers fds.array[0 .. conns_count + listening_count - 1].       *)
NFds == conns_count + Cardinality(listening)
Polled(pos) == pos < NFds

LReady(l) == l \in listening /\ backlog[l] # <<>>
CliReady(i) == cli[i].fd \in Sock /\ (wire[cli[i].fd] # <<>> \/ fin[cli[i].fd])

(* http_conn_alloc: a free connection context exists.                     *)
HttpConnAllocOk == conns_count < MAX_CONNS

(* Faulty variant of CompressFds: one entry too few is moved down.        *)
CompressFdsShort(c, index, count) ==
    IF index >= MAX_CONNS THEN c
    ELSE LET move_count == count - index - 1
         IN [j \in Slots |->
               IF j >= index /\ j < index + move_count THEN c[j + 1]
               ELSE IF j = count THEN EmptyPfd
               ELSE c[j]]

(* compress_fds(index), called once http_conn_free has decremented        *)
(* conns_count to count: entries index+1 .. count move down by one and     *)
(* fds.cli[count] is cleared.                                              *)
CompressFds(c, index, count) ==
    IF index >= MAX_CONNS THEN c
    ELSE LET move_count == count - index
         IN [j \in Slots |->
               IF j >= index /\ j < index + move_count THEN c[j + 1]
               ELSE IF j = count THEN EmptyPfd
               ELSE c[j]]

(* Faulty variant of MessageComplete: completion is never noticed, as if  *)
(* recv_request lacked its `if (conn->complete) break;`.                    *)
MessageCompleteIgnored(chunk) == FALSE

(* on_message_complete fires for a chunk holding the last byte of a message. *)
MessageComplete(chunk) == \E j \in DOMAIN chunk : chunk[j]

-----------------------------------------------------------------------------
Init ==
    /\ listening \in SetupOutcomes
    /\ backlog = [l \in Listeners |-> <<>>]
    /\ lrev = {}
    /\ cli = [i \in Slots |-> EmptyPfd]
    /\ conns_count = 0
    /\ pc = "poll"
    /\ idx = 0
    /\ rlen = 0 /\ complete = FALSE /\ keep_alive = FALSE
    /\ status = 200 /\ content_len = 0
    /\ part = "hdr" /\ slen = 0 /\ ssent = 0
    /\ phase = [s \in Sock |-> "idle"]
    /\ fin = [s \in Sock |-> FALSE]
    /\ wire = [s \in Sock |-> <<>>]
    /\ nreq = [s \in Sock |-> 0]
    /\ left = [s \in Sock |-> 0]
    /\ answered = [s \in Sock |-> 0]
    /\ err = [s \in Sock |-> FALSE]
    /\ txlog = <<>> /\ readyAt = {} /\ served = <<>>

-----------------------------------------------------------------------------
(***************************************************************************)
(* The reactor thread, http_srv_thread.                                    *)
(***************************************************************************)

(* zsock_poll returns > 0: the revents of every polled entry are rewritten; *)
(* entries past nfds keep the revents they had.                            *)
Poll ==
    /\ pc = "poll"
    /\ \/ \E l \in listening : Polled(LPos(l)) /\ LReady(l)
       \/ \E i \in Slots : Polled(CliPos(i)) /\ CliReady(i)
    /\ lrev' = {l \in Listeners : Polled(LPos(l)) /\ LReady(l)}
    /\ cli' = [i \in Slots |->
                 IF Polled(CliPos(i)) THEN [cli[i] EXCEPT !.rev = CliReady(i)]
                 ELSE cli[i]]
    /\ readyAt' = {cli[i].fd : i \in {j \in Slots : Polled(CliPos(j)) /\ CliReady(j)}}
    /\ served' = <<>>
    /\ pc' = IF lrev' = {} THEN "scan" ELSE "accept"
    /\ idx' = 0
    /\ UNCHANGED <<listening, backlog, conns_count, rlen, complete, keep_alive,
                   status, content_len, part, slen, ssent, peerVars, txlog>>

(* The listener http_srv_thread tests next: srv before sec.               *)
NextListener(l) == l \in lrev /\ (l = "sec" => "srv" \notin lrev)

(* Common part of http_srv_accept: zsock_accept takes the oldest pending  *)
(* connection of listener l.                                               *)
AcceptStep(l) ==
    /\ pc = "accept"
    /\ NextListener(l)
    /\ backlog[l] # <<>>
    /\ backlog' = [backlog EXCEPT ![l] = Tail(@)]
    /\ lrev' = lrev \ {l}
    /\ pc' = IF lrev' = {} THEN "scan" ELSE "accept"

(* Faulty variant of AcceptConn: the `conn == NULL` test is missing and    *)
(* the socket is stored at fds.cli[conns_count] whatever the pool holds.   *)
AcceptConnNoAllocCheck(l) ==
    LET s == Head(backlog[l]) IN
    /\ AcceptStep(l)
    /\ cli' = [cli EXCEPT ![conns_count].fd = s]
    /\ conns_count' = conns_count + 1
    /\ phase' = [phase EXCEPT ![s] = "up"]
    /\ UNCHANGED <<listening, idx, rlen, complete, keep_alive, status,
                   content_len, part, slen, ssent, fin, wire, nreq, left,
                   answered, err, histVars>>

(* http_srv_accept, a connection context is allocated: the socket takes   *)
(* the pollfd at index conns_count with events = POLLIN (revents untouched). *)
AcceptConn(l) ==
    LET s == Head(backlog[l]) IN
    /\ AcceptStep(l)
    /\ HttpConnAllocOk
    /\ cli' = [cli EXCEPT ![conns_count].fd = s]
    /\ conns_count' = conns_count + 1
    /\ phase' = [phase EXCEPT ![s] = "up"]
    /\ UNCHANGED <<listening, idx, rlen, complete, keep_alive, status,
                   content_len, part, slen, ssent, fin, wire, nreq, left,
                   answered, err, histVars>>

(* http_srv_accept, the pool is full: the accepted socket is closed.      *)
AcceptRefused(l) ==
    LET s == Head(backlog[l]) IN
    /\ AcceptStep(l)
    /\ ~HttpConnAllocOk
    /\ phase' = [phase EXCEPT ![s] = "down"]
    /\ UNCHANGED <<listening, cli, conns_count, idx, rlen, complete,
                   keep_alive, status, content_len, part, slen, ssent, fin,
                   wire, nreq, left, answered, err, histVars>>

(* zsock_accept fails (for TLS, a failed handshake): the pending          *)
(* connection is dropped and the error only logged.                        *)
AcceptFailed(l) ==
    LET s == Head(backlog[l]) IN
    /\ ACCEPT_MAY_FAIL
    /\ AcceptStep(l)
    /\ phase' = [phase EXCEPT ![s] = "down"]
    /\ UNCHANGED <<listening, cli, conns_count, idx, rlen, complete,
                   keep_alive, status, content_len, part, slen, ssent, fin,
                   wire, nreq, left, answered, err, histVars>>

(* The scan loop, a pollfd with POLLIN: handle_conn begins and resets the *)
(* request and response state.                                             *)
ScanServe ==
    /\ pc = "scan"
    /\ idx < conns_count
    /\ cli[idx].rev
    /\ rlen' = 0 /\ complete' = FALSE /\ keep_alive' = FALSE
    /\ status' = 200 /\ content_len' = 0
    /\ served' = Append(served, Cur)
    /\ txlog' = <<>>
    /\ pc' = "recv"
    /\ UNCHANGED <<listening, backlog, lrev, cli, conns_count, idx, part, slen,
                   ssent, peerVars, readyAt>>

(* Faulty variant of ScanSkip: `while (idx <= conns_count)`.              *)
ScanSkipPastEnd ==
    /\ pc = "scan"
    /\ idx <= conns_count
    /\ ~cli[idx].rev
    /\ idx' = idx + 1
    /\ UNCHANGED <<listening, backlog, lrev, cli, conns_count, pc, rlen,
                   complete, keep_alive, status, content_len, part, slen,
                   ssent, peerVars, histVars>>

(* The scan loop, a pollfd without POLLIN: idx++.                         *)
ScanSkip ==
    /\ pc = "scan"
    /\ idx < conns_count
    /\ ~cli[idx].rev
    /\ idx' = idx + 1
    /\ UNCHANGED <<listening, backlog, lrev, cli, conns_count, pc, rlen,
                   complete, keep_alive, status, content_len, part, slen,
                   ssent, peerVars, histVars>>

(* The scan loop ends; back to zsock_poll.                                *)
ScanEnd ==
    /\ pc = "scan"
    /\ idx >= conns_count
    /\ pc' = "poll"
    /\ UNCHANGED <<listening, backlog, lrev, cli, conns_count, idx, rlen,
                   complete, keep_alive, status, content_len, part, slen,
                   ssent, peerVars, histVars>>

(* Faulty variant of CloseConn: the scan goes on with idx + 1 after the   *)
(* compaction, as if http_srv_thread had no `continue`.                    *)
CloseConnSkip ==
    /\ phase' = [phase EXCEPT ![Cur] = "down"]
    /\ conns_count' = conns_count - 1
    /\ cli' = CompressFds(cli, idx, conns_count - 1)
    /\ pc' = "scan"
    /\ idx' = idx + 1

(* The close label of handle_conn (zsock_close, http_conn_free) followed  *)
(* by compress_fds(idx) and `continue` in http_srv_thread: the scan        *)
(* resumes at the same index.                                              *)
CloseConn ==
    /\ phase' = [phase EXCEPT ![Cur] = "down"]
    /\ conns_count' = conns_count - 1
    /\ cli' = CompressFds(cli, idx, conns_count - 1)
    /\ pc' = "scan"
    /\ UNCHANGED idx

(* recv_request: the buffer is full before the request completed (-ENOMEM). *)
RecvFull ==
    /\ pc = "recv"
    /\ rlen >= REQ_BUF_SIZE
    /\ CloseConn
    /\ UNCHANGED <<listening, backlog, lrev, rlen, complete, keep_alive,
                   status, content_len, part, slen, ssent, fin, wire, nreq,
                   left, answered, err, histVars>>

(* recv_request: zsock_recv returns 0, the peer closed before completion. *)
RecvEof ==
    /\ pc = "recv"
    /\ rlen < REQ_BUF_SIZE
    /\ wire[Cur] = <<>>
    /\ fin[Cur]
    /\ CloseConn
    /\ UNCHANGED <<listening, backlog, lrev, rlen, complete, keep_alive,
                   status, content_len, part, slen, ssent, fin, wire, nreq,
                   left, answered, err, histVars>>

(* zsock_recv returns k bytes (at most `remaining`), which are fed to     *)
(* http_parser_execute.                                                    *)
RecvBytes(k) ==
    /\ pc = "recv"
    /\ rlen < REQ_BUF_SIZE
    /\ k \in 1 .. Len(wire[Cur])
    /\ k <= REQ_BUF_SIZE - rlen
    /\ wire' = [wire EXCEPT ![Cur] = SubSeq(@, k + 1, Len(@))]
    /\ rlen' = rlen + k

(* The chunk does not complete the request: the recv loop goes on.        *)
RecvChunk(k) ==
    /\ RecvBytes(k)
    /\ ~MessageComplete(SubSeq(wire[Cur], 1, k))
    /\ UNCHANGED <<listening, backlog, lrev, cli, conns_count, pc, idx,
                   complete, keep_alive, status, content_len, part, slen,
                   ssent, phase, fin, nreq, left, answered, err, histVars>>

(* The chunk completes the request: recv_request returns, then            *)
(* http_srv_process_request dispatches (no route: 404; handler failure:    *)
(* 500) and http_srv_send_response starts sending the headers.             *)
RecvLastChunk(k) ==
    /\ RecvBytes(k)
    /\ MessageComplete(SubSeq(wire[Cur], 1, k))
    /\ complete' = TRUE
    /\ keep_alive' \in BOOLEAN
    /\ \E found, fails \in BOOLEAN, cl \in BODY_LENS :
          /\ status' = IF ~found THEN 404 ELSE IF fails THEN 500 ELSE 200
          /\ content_len' = IF found THEN cl ELSE 0
    /\ part' = "hdr" /\ slen' = HDR_LEN /\ ssent' = 0
    /\ pc' = "send"
    /\ UNCHANGED <<listening, backlog, lrev, cli, conns_count, idx, phase, fin,
                   nreq, left, answered, err, histVars>>

(* The byte stream the peer must get for the current response.            *)
ResponseStream ==
    [j \in 1 .. HDR_LEN |-> <<"hdr", j>>]
      \o (IF HasPayload(status) THEN [j \in 1 .. content_len |-> <<"body", j>>]
          ELSE <<>>)

(* handle_conn after a response is sent: with keep-alive the connection  *)
(* stays and the scan moves on (idx++), otherwise it is closed.            *)
ResponseDone ==
    /\ answered' = [answered EXCEPT ![Cur] = @ + 1]
    /\ IF keep_alive
         THEN /\ pc' = "scan" /\ idx' = idx + 1
              /\ UNCHANGED <<phase, conns_count, cli>>
         ELSE CloseConn

(* One zsock_send of sendall accepts k bytes.  The call passes `buf`, not *)
(* `buf + sent`, so the k bytes are always the first k of the buffer.      *)
SendBytes(k) ==
    /\ pc = "send"
    /\ ~err[Cur]
    /\ k \in 1 .. slen - ssent
    /\ txlog' = txlog \o [j \in 1 .. k |-> <<part, j>>]
    /\ IF ssent + k < slen
         THEN /\ ssent' = ssent + k
              /\ UNCHANGED <<part, slen, pc, idx, phase, conns_count, cli,
                             answered>>
       ELSE IF part = "hdr" /\ HasPayload(status) /\ content_len > 0
         THEN /\ part' = "body" /\ slen' = content_len /\ ssent' = 0
              /\ UNCHANGED <<pc, idx, phase, conns_count, cli, answered>>
       ELSE /\ ResponseDone
            /\ UNCHANGED <<part, slen, ssent>>
    /\ UNCHANGED <<listening, backlog, lrev, rlen, complete, keep_alive,
                   status, content_len, fin, wire, nreq, left, err, readyAt,
                   served>>

(* zsock_send fails on a socket the peer has closed.  sendall has no exit *)
(* for an error other than -EAGAIN: it loops and calls zsock_send again.   *)
SendFail ==
    /\ pc = "send"
    /\ SEND_MAY_FAIL
    /\ fin[Cur]
    /\ err' = [err EXCEPT ![Cur] = TRUE]
    /\ UNCHANGED <<srvVars, phase, fin, wire, nreq, left, answered, histVars>>

Server ==
    \/ Poll
    \/ \E l \in Listeners : AcceptConn(l) \/ AcceptRefused(l) \/ AcceptFailed(l)
    \/ ScanServe \/ ScanSkip \/ ScanEnd
    \/ RecvFull \/ RecvEof
    \/ \E k \in 1 .. REQ_BUF_SIZE : RecvChunk(k) \/ RecvLastChunk(k)
    \/ \E k \in 1 .. slen - ssent : SendBytes(k)
    \/ SendFail

-----------------------------------------------------------------------------
(***************************************************************************)
(* The peers.                                                              *)
(***************************************************************************)

Connected(s) == phase[s] \in {"backlog", "up"} /\ ~fin[s]

(* A client connects to its port; the TCP stack queues it for accept.    *)
Connect(s) ==
    /\ phase[s] = "idle"
    /\ Port[s] \in listening
    /\ Len(backlog[Port[s]]) < BACKLOG
    /\ backlog' = [backlog EXCEPT ![Port[s]] = Append(@, s)]
    /\ phase' = [phase EXCEPT ![s] = "backlog"]
    /\ UNCHANGED <<listening, lrev, cli, conns_count, pc, idx, rlen, complete,
                   keep_alive, status, content_len, part, slen, ssent, fin,
                   wire, nreq, left, answered, err, histVars>>

(* A client starts a request once the previous one was answered.          *)
BeginRequest(s) ==
    /\ Connected(s)
    /\ left[s] = 0
    /\ nreq[s] < MaxReqs
    /\ answered[s] = nreq[s]
    /\ \E n \in 1 .. MaxReqLen : left' = [left EXCEPT ![s] = n]
    /\ nreq' = [nreq EXCEPT ![s] = @ + 1]
    /\ UNCHANGED <<srvVars, phase, fin, wire, answered, err, histVars>>

(* A client sends the next k bytes of its request.                        *)
SendRequestBytes(s, k) ==
    /\ Connected(s)
    /\ k \in 1 .. left[s]
    /\ wire' = [wire EXCEPT ![s] = @ \o [j \in 1 .. k |-> j = left[s]]]
    /\ left' = [left EXCEPT ![s] = @ - k]
    /\ UNCHANGED <<srvVars, phase, fin, nreq, answered, err, histVars>>

(* A client closes its socket.                                            *)
PeerClose(s) ==
    /\ Connected(s)
    /\ fin' = [fin EXCEPT ![s] = TRUE]
    /\ UNCHANGED <<srvVars, phase, wire, nreq, left, answered, err, histVars>>

Peer(s) ==
    \/ Connect(s) \/ BeginRequest(s) \/ PeerClose(s)
    \/ \E k \in 1 .. MaxReqLen : SendRequestBytes(s, k)

(* Nothing can happen any more: the reactor blocks in zsock_poll forever. *)
Quiescent ==
    /\ pc = "poll"
    /\ ~ENABLED Poll
    /\ \A s \in Sock : ~ENABLED Peer(s)
    /\ UNCHANGED vars

Next == Server \/ (\E s \in Sock : Peer(s)) \/ Quiescent

Spec == Init /\ [][Next]_vars

(* The reactor thread runs whenever it is not blocked; a peer that began  *)
(* a request goes on sending it (no receive timeout protects the server   *)
(* from a peer that does not).                                             *)
FairSpec ==
    /\ Spec
    /\ WF_vars(Server)
    /\ \A s \in Sock : WF_vars(\E k \in 1 .. MaxReqLen : SendRequestBytes(s, k))

-----------------------------------------------------------------------------
(***************************************************************************)
(* Properties.                                                             *)
(***************************************************************************)

Phases == {"idle", "backlog", "up", "down"}
Pcs == {"poll", "accept", "scan", "recv", "send"}

(* Every variable has the type of the program object it models; the pool  *)
(* index conns_count never exceeds the capacity of fds.cli.                *)
TypeOK ==
    /\ listening \subseteq Listeners
    /\ backlog \in [Listeners -> Seq(Sock)]
    /\ lrev \subseteq Listeners
    /\ cli \in [Slots -> [fd : Sock \cup {NoFd}, rev : BOOLEAN]]
    /\ conns_count \in 0 .. MAX_CONNS
    /\ pc \in Pcs
    /\ idx \in 0 .. MAX_CONNS
    /\ rlen \in Nat /\ complete \in BOOLEAN /\ keep_alive \in BOOLEAN
    /\ status \in Statuses /\ content_len \in Nat
    /\ part \in {"hdr", "body"} /\ slen \in Nat /\ ssent \in Nat
    /\ phase \in [Sock -> Phases]
    /\ fin \in [Sock -> BOOLEAN]
    /\ wire \in [Sock -> Seq(BOOLEAN)]
    /\ nreq \in [Sock -> Nat] /\ left \in [Sock -> Nat]
    /\ answered \in [Sock -> Nat]
    /\ err \in [Sock -> BOOLEAN]
    /\ readyAt \subseteq Sock
    /\ served \in Seq(Sock)

(* The pollfd table and the connection pool agree (dense-prefix invariant *)
(* that accept, http_conn_free and compress_fds must keep between them):   *)
(* fds.cli[0..conns_count-1] hold exactly the open connections, each once, *)
(* and every pollfd past conns_count is cleared.                           *)
PollSetMatchesConnections ==
    /\ \A i \in 0 .. conns_count - 1 : cli[i].fd \in Sock /\ phase[cli[i].fd] = "up"
    /\ \A i, j \in 0 .. conns_count - 1 : i # j => cli[i].fd # cli[j].fd
    /\ \A i \in conns_count .. MAX_CONNS - 1 : cli[i] = EmptyPfd
    /\ \A s \in Sock : phase[s] = "up" => \E i \in 0 .. conns_count - 1 : cli[i].fd = s

(* handle_conn only runs on a live pollfd: while a request is received or *)
(* answered, idx designates one of fds.cli[0..conns_count-1], and the scan *)
(* index never passes conns_count, even when slots close under it.         *)
ScanIndexInRange ==
    /\ idx <= conns_count
    /\ pc \in {"recv", "send"} => idx < conns_count

(* One scan of http_srv_thread runs handle_conn only for connections the  *)
(* last poll reported readable, at most once each, and once it is over     *)
(* (back in zsock_poll) it has run it for every one of them, although      *)
(* connections closed during the scan shift the later ones down.           *)
EachReadyServedOnce ==
    /\ \A a, b \in DOMAIN served : a # b => served[a] # served[b]
    /\ \A a \in DOMAIN served : served[a] \in readyAt
    /\ pc = "poll" => \A s \in readyAt : \E a \in DOMAIN served : served[a] = s

(* sendall delivers the response buffer to the peer in order, every byte  *)
(* once (spec: a socket accepting 1 byte per call still gets all N bytes,  *)
(* never double-counted or dropped).                                       *)
ResponseBytesInOrder ==
    /\ Len(txlog) <= Len(ResponseStream)
    /\ \A j \in DOMAIN txlog : txlog[j] = ResponseStream[j]

(* Every pollfd of an open connection lies inside the range passed to     *)
(* zsock_poll, so that its readiness is observed (the spec requires a      *)
(* listener setup failure to abort startup).                               *)
PolledCoversSlots ==
    \A i \in 0 .. conns_count - 1 : Polled(CliPos(i))

(* A send error aborts the connection: a socket on which zsock_send       *)
(* failed is eventually closed (spec: hard errors are connection-scoped    *)
(* and never stop the reactor).                                            *)
SendErrorClosesConnection ==
    \A s \in Sock : err[s] ~> phase[s] = "down"

(* A request the peer has sent completely is eventually answered, or its *)
(* connection closed (too large, refused, peer gone).                      *)
RequestEventuallyAnswered ==
    \A s \in Sock :
        (left[s] = 0 /\ nreq[s] > answered[s])
            ~> (answered[s] = nreq[s] \/ phase[s] = "down")

=============================================================================
